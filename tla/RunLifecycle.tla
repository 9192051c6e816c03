---------------------------- MODULE RunLifecycle ----------------------------
(***************************************************************************)
(* The life of one run in one store (run_finalize, run_fail and janitor of *)
(* src/mlparty/core.py, RunHandle of src/mlparty/client.py).               *)
(*                                                                         *)
(* The training process attaches, captures its environment in a background *)
(* thread, beats in another and closes the run; agents close runs over     *)
(* MCP; the janitor abandons silent ones.  All of them change the run      *)
(* through update_node: read the row, append to the journal, write the row *)
(* back, with no lock over the three.  Any of them may die or raise        *)
(* between two steps, and a dead job may be started again.                 *)
(*                                                                         *)
(* Time is what the janitor can tell of it: is the start or the metrics    *)
(* file within its TTL, and is the heartbeat.                              *)
(***************************************************************************)
EXTENDS Integers

CONSTANTS
  Agents,       \* callers of run_finalize and run_fail over MCP
  TakeTurns,    \* agents, attaches, janitors and rebuilds do not overlap
  TornReads,    \* a heartbeat can be read while it is being written
  SlowCapture,  \* the capture may outlast the 90 s a close waits for it
  MaxAttaches,  \* bound on the times the job is started
  MaxCalls,     \* bound on the agents' calls
  MaxBreaks     \* bound on calls that raise or whose process dies midway

ASSUME RunAssumption ==
  /\ {TakeTurns, TornReads, SlowCapture} \subseteq BOOLEAN
  /\ {MaxAttaches, MaxCalls, MaxBreaks} \subseteq Nat
  /\ {"main", "env", "janitor"} \cap Agents = {}

Threads == {"main", "env", "janitor"} \cup Agents

VARIABLES
  row,      \* the run's row in the index
  truth,    \* the run's document as a replay of the journal gives it
  trainer,  \* where the training process is
  env,      \* where its capture of the environment is
  young,    \* the start or the last metric is within the TTL
  beat,     \* the heartbeat file
  step,     \* each thread's step inside a call
  todo,     \* the update each thread is making
  held,     \* the document it has read
  told,     \* the closes whose callers were told that they closed the run
  attaches, calls, breaks    \* budget used

store  == <<row, truth>>
signs  == <<young, beat>>
job    == <<trainer, env>>
local  == <<step, todo, held>>
budget == <<attaches, calls, breaks>>
vars   == <<store, job, signs, local, told, budget>>

\* An update of the run: the fields a caller passes to update_node.
Update == [status : {"finalized", "failed", "abandoned", "kept"},
           field : {"result", "failure", "env", "invocation", "compute", "none"},
           who : Threads]

Finalized(t) == [status |-> "finalized", field |-> "result",     who |-> t]
Failed(t)    == [status |-> "failed",    field |-> "failure",    who |-> t]
Abandoned    == [status |-> "abandoned", field |-> "none",       who |-> "janitor"]
Captured     == [status |-> "kept",      field |-> "env",        who |-> "env"]
Invoked      == [status |-> "kept",      field |-> "invocation", who |-> "main"]
Computed     == [status |-> "kept",      field |-> "compute",    who |-> "main"]

\* A document: its status, and the fields set so far with who set them last.
Doc == [status : {"open", "finalized", "failed", "abandoned"},
        set : SUBSET [field : {"result", "failure", "env", "invocation", "compute", "none"},
                      who : Threads]]

\* Mutant: the status is replaced by every update.
MergeWholesale(d, u) ==
  [status |-> u.status,
   set    |-> {x \in d.set : x.field # u.field} \cup {[field |-> u.field, who |-> u.who]}]

Merge(d, u) ==
  [status |-> IF u.status = "kept" THEN d.status ELSE u.status,
   set    |-> {x \in d.set : x.field # u.field} \cup {[field |-> u.field, who |-> u.who]}]

HasEnv(d) == \E x \in d.set : x.field = "env"

Steps == {"idle", "join", "check", "read", "append", "write"}

TypeOK ==
  /\ row \in Doc /\ truth \in Doc
  /\ trainer \in {"none", "attach", "compute", "starting", "training", "closing",
                  "closed", "gone"}
  /\ env \in {"none", "capturing", "storing", "stored", "failed"}
  /\ young \in BOOLEAN
  /\ beat \in {"none", "fresh", "old", "torn"}
  /\ step \in [Threads -> Steps]
  /\ todo \in [Threads -> Update] /\ held \in [Threads -> Doc]
  /\ told \subseteq Update
  /\ attaches \in Nat /\ calls \in Nat /\ breaks \in Nat

NewRun == [status |-> "open", set |-> {}]

\* run_start has just made the run.
Init ==
  /\ row = NewRun /\ truth = NewRun
  /\ trainer = "none" /\ env = "none"
  /\ young = TRUE /\ beat = "none"
  /\ step = [t \in Threads |-> "idle"]
  /\ todo = [t \in Threads |-> Abandoned]
  /\ held = [t \in Threads |-> NewRun]
  /\ told = {}
  /\ attaches = 0 /\ calls = 0 /\ breaks = 0

-----------------------------------------------------------------------------
\* update_node.

Goto(t, s) == step' = [step EXCEPT ![t] = s]

\* Thread t enters a call at step s, to make update u.
Begin(t, s, u) ==
  /\ step[t] = "idle"
  /\ Goto(t, s)
  /\ todo' = [todo EXCEPT ![t] = u]
  /\ UNCHANGED held

\* The call of t ends, with what it read forgotten.
Done(t) == /\ Goto(t, "idle")
           /\ todo' = [todo EXCEPT ![t] = Abandoned]
           /\ held' = [held EXCEPT ![t] = NewRun]

ReadRow(t) ==
  /\ step[t] = "read"
  /\ held' = [held EXCEPT ![t] = Merge(row, todo[t])]
  /\ Goto(t, "append")
  /\ UNCHANGED <<store, job, signs, todo, told, budget>>

AppendUpdate(t) ==
  /\ step[t] = "append"
  /\ truth' = Merge(truth, todo[t])
  /\ Goto(t, "write")
  /\ UNCHANGED <<row, job, signs, todo, held, told, budget>>

\* What a training process goes on to when a call of its main thread is done.
AfterCall == CASE trainer = "attach"  -> "compute"
               [] trainer = "compute" -> "starting"
               [] trainer = "closing" -> "closed"

\* The row is written and update_node returns; a close is reported.
WriteRow(t) ==
  /\ step[t] = "write"
  /\ row' = held[t]
  /\ told' = IF todo[t].status \in {"finalized", "failed"} THEN told \cup {todo[t]} ELSE told
  /\ trainer' = IF t = "main" THEN AfterCall ELSE trainer
  /\ env' = IF t = "env" THEN "stored" ELSE env
  /\ Done(t)
  /\ UNCHANGED <<truth, signs, budget>>

-----------------------------------------------------------------------------
\* run_finalize and run_fail.

\* Mutant: the status is not looked at.
CheckBlind(t) ==
  /\ step[t] = "check"
  /\ Goto(t, "read")
  /\ UNCHANGED <<store, job, signs, todo, held, told, budget>>

\* The other reasons to refuse are in what the caller passes: any call can be
\* refused, and tried again.
Check(t) ==
  /\ step[t] = "check"
  /\ \/ row.status = "open" /\ Goto(t, "read") /\ UNCHANGED <<trainer, todo, held>>
     \/ Done(t) /\ trainer' = IF t = "main" THEN "training" ELSE trainer
  /\ UNCHANGED <<store, env, signs, told, budget>>

InCall  == {t \in Threads : step[t] # "idle"}
Quiet   == trainer \in {"none", "closed", "gone"} /\ env \notin {"capturing", "storing"}

AgentCloses(a) ==
  /\ calls < MaxCalls
  /\ calls' = calls + 1
  /\ TakeTurns => InCall = {} /\ Quiet
  /\ \E u \in {Finalized(a), Failed(a)} : Begin(a, "check", u)
  /\ UNCHANGED <<store, job, signs, told, attaches, breaks>>

-----------------------------------------------------------------------------
\* The training process.

\* The job starts, for the first time or again, and attaches: what it is and
\* runs on goes onto the run, whatever its status.
Attach ==
  /\ trainer \in {"none", "gone"}
  /\ attaches < MaxAttaches
  /\ attaches' = attaches + 1
  /\ TakeTurns => InCall = {}
  /\ trainer' = "attach"
  /\ Begin("main", "read", Invoked)
  /\ UNCHANGED <<store, env, signs, told, calls, breaks>>

\* The launcher's handshake, if there is one, goes onto the run as well.
RecordCompute ==
  /\ trainer = "compute" /\ step["main"] = "idle"
  /\ \/ Begin("main", "read", Computed) /\ UNCHANGED trainer
     \/ trainer' = "starting" /\ UNCHANGED local
  /\ UNCHANGED <<store, env, signs, told, budget>>

\* The capture starts, the first heartbeat is written, the threads run.
StartThreads ==
  /\ trainer = "starting"
  /\ trainer' = "training"
  /\ env' \in {"capturing", "none"}
  /\ beat' = "fresh"
  /\ UNCHANGED <<store, young, local, told, budget>>

LogMetric ==
  /\ trainer = "training"
  /\ young' = TRUE
  /\ UNCHANGED <<store, job, beat, local, told, budget>>

\* touch_heartbeat empties the file and writes it.
Beat ==
  /\ trainer \in {"training", "closing"}
  /\ beat' = IF TornReads /\ beat # "torn" THEN "torn" ELSE "fresh"
  /\ UNCHANGED <<store, job, young, local, told, budget>>

\* pip freeze is done and its output stored, or it failed.
Capture ==
  /\ env = "capturing"
  /\ \/ env' = "storing" /\ Begin("env", "read", Captured)
     \/ env' = "failed" /\ UNCHANGED local
  /\ UNCHANGED <<store, trainer, signs, told, budget>>

\* The script closes the run, or the excepthook does.
TrainerCloses ==
  /\ trainer = "training"
  /\ trainer' = "closing"
  /\ \E u \in {Finalized("main"), Failed("main")} : Begin("main", "join", u)
  /\ UNCHANGED <<store, env, signs, told, budget>>

\* Mutant: the close does not wait for the capture.
JoinCaptureNot ==
  /\ step["main"] = "join"
  /\ Goto("main", "check")
  /\ UNCHANGED <<store, job, signs, todo, held, told, budget>>

\* _flush_env_capture.
JoinCapture ==
  /\ step["main"] = "join"
  /\ env \notin {"capturing", "storing"} \/ SlowCapture
  /\ Goto("main", "check")
  /\ UNCHANGED <<store, job, signs, todo, held, told, budget>>

\* The process ends, by itself or killed, with all of its threads.
Exit ==
  /\ trainer \notin {"none", "gone"}
  /\ trainer' = "gone"
  /\ env' = "none"
  /\ step' = [step EXCEPT !["main"] = "idle", !["env"] = "idle"]
  /\ todo' = [todo EXCEPT !["main"] = Abandoned, !["env"] = Abandoned]
  /\ held' = [held EXCEPT !["main"] = NewRun, !["env"] = NewRun]
  /\ UNCHANGED <<store, signs, told, budget>>

-----------------------------------------------------------------------------
\* The janitor.

Attaching == trainer \in {"attach", "compute", "starting"}

\* Mutant: a run that never beat is skipped.
JanitorLooksOld ==
  /\ TakeTurns => InCall \subseteq {"main", "env"} /\ ~Attaching
  /\ row.status = "open"
  /\ ~young /\ beat = "old"
  /\ Begin("janitor", "read", Abandoned)
  /\ UNCHANGED <<store, job, signs, told, budget>>

\* Mutant: heartbeats are not looked at.
JanitorLooksDeaf ==
  /\ TakeTurns => InCall \subseteq {"main", "env"} /\ ~Attaching
  /\ row.status = "open"
  /\ ~young
  /\ Begin("janitor", "read", Abandoned)
  /\ UNCHANGED <<store, job, signs, told, budget>>

\* An open run with no sign of life is to be abandoned.
JanitorLooks ==
  /\ TakeTurns => InCall \subseteq {"main", "env"} /\ ~Attaching
  /\ row.status = "open"
  /\ ~young /\ beat # "fresh"
  /\ Begin("janitor", "read", Abandoned)
  /\ UNCHANGED <<store, job, signs, told, budget>>

\* The TTL passes since the start and the last metric.
TimePasses ==
  /\ young
  /\ young' = FALSE
  /\ UNCHANGED <<store, job, beat, local, told, budget>>

\* The TTL passes since the last beat: it is many times the interval, so the
\* heartbeat of a process that runs does not grow old.
BeatAges ==
  /\ beat \in {"fresh", "torn"}
  /\ trainer \notin {"training", "closing"}
  /\ beat' = "old"
  /\ UNCHANGED <<store, job, young, local, told, budget>>

-----------------------------------------------------------------------------
\* Failures.

\* A call raises, or its process dies, between two steps.  An attach that
\* raises ends the job; a failed capture is swallowed; a close that raises
\* leaves the script, or its excepthook, to go on.
Break(t) ==
  /\ step[t] \in {"read", "append", "write"}
  /\ breaks < MaxBreaks
  /\ breaks' = breaks + 1
  /\ Done(t)
  /\ trainer' = IF t # "main" THEN trainer
                ELSE CASE trainer = "attach"  -> "gone"
                       [] trainer = "compute" -> "starting"
                       [] trainer = "closing" -> "training"
  /\ env' = IF t = "env" THEN "failed" ELSE env
  /\ UNCHANGED <<store, signs, told, attaches, calls>>

\* rebuild_index replays the journal.
Rebuild ==
  /\ TakeTurns => InCall = {}
  /\ row # truth
  /\ row' = truth
  /\ UNCHANGED <<truth, job, signs, local, told, budget>>

-----------------------------------------------------------------------------
Calls(t) == Check(t) \/ ReadRow(t) \/ AppendUpdate(t) \/ WriteRow(t)

Next ==
  \/ Attach \/ RecordCompute \/ StartThreads \/ LogMetric \/ Beat \/ Capture
  \/ TrainerCloses \/ JoinCapture \/ Exit
  \/ JanitorLooks \/ TimePasses \/ BeatAges \/ Rebuild
  \/ \E a \in Agents : AgentCloses(a)
  \/ \E t \in Threads : \/ Check(t) \/ ReadRow(t) \/ AppendUpdate(t) \/ WriteRow(t)
                        \/ Break(t)

\* Calls return, time passes, and the janitor is run again and again.
Fairness ==
  /\ \A t \in Threads : WF_vars(Calls(t))
  /\ WF_vars(TimePasses) /\ WF_vars(BeatAges) /\ WF_vars(JanitorLooks)

Spec     == Init /\ [][Next]_vars
FairSpec == Spec /\ Fairness
-----------------------------------------------------------------------------
\* Properties.

\* A run closes once, and the one call that is told it closed the run did
\* (contract.py:91, 159): the reading of the row, the join of the capture and
\* the janitor's care for heartbeats together keep every other update from
\* writing an open run back.
Record == INSTANCE RunRecord WITH
            Closes <- Update, status <- row.status
IsRunRecord == Record!Spec

\* What a close was told it did is what the run shows, and only one close was
\* told so ("only open runs can be finalized", contract.py:91).
ReportedStands ==
  \A u \in told : told = {u} /\ row.status = u.status

\* When a close by the training process returns, the run carries the lock of
\* the environment, unless it was not captured (client.py:11-12).
EnvCarried ==
  [][ (told' # told /\ step["main"] = "write" /\ step'["main"] = "idle")
        => (env \in {"none", "failed"} \/ HasEnv(row')) ]_vars

\* The janitor never abandons a run that is running (tracking.md:152-154).
LiveKept ==
  [][ (row.status = "open" /\ row'.status = "abandoned" /\ step["janitor"] = "write")
        => trainer \notin {"training", "closing"} ]_vars

\* A run whose process died silently does not stay open (README.md:35).
DeathsAreNoticed ==
  (trainer = "gone" /\ row.status = "open") ~> (trainer # "gone" \/ row.status # "open")
=============================================================================
