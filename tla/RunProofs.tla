----------------------------- MODULE RunProofs -----------------------------
(***************************************************************************)
(* Theorems about RunLifecycle, for any agents and any bounds.             *)
(***************************************************************************)
EXTENDS RunLifecycle, TLAPS

USE RunAssumption

-----------------------------------------------------------------------------
\* Why the record is kept when agents, attaches, janitors and rebuilds take
\* turns, heartbeats are read whole and a close waits for the capture.
Disciplined == TakeTurns /\ ~TornReads /\ ~SlowCapture

\* The main thread makes calls only while it attaches or closes.
MainBusy == step["main"] # "idle" => trainer \in {"attach", "compute", "closing"}

Updating == {"read", "append", "write"}

\* Agents and the janitor are alone in the store and find no running job, for
\* a running job beats; of the job's own threads the capture updates the run
\* only while the main thread has not gone past waiting for it.
Turns ==
  /\ \A t \in Agents \cup {"janitor"} : step[t] # "idle" =>
       trainer \in {"none", "closed", "gone"} /\ InCall = {t}
  /\ trainer \in {"training", "closing"} => beat = "fresh"
  /\ env = "storing" <=> step["env"] \in Updating
  /\ step["env"] \notin {"join", "check"}
  /\ step["main"] \in {"join", "check"} => trainer = "closing"
  /\ env \in {"capturing", "storing"} =>
       trainer \in {"training", "closing"} /\ step["main"] \in {"idle", "join"}

\* An update in progress was made from the row as it is, and one that closes
\* the run finds it open; what the journal says of a closed run its row says.
FromTheRow ==
  /\ \A t \in Threads :
       /\ step[t] \in Updating /\ todo[t].status # "kept" => row.status = "open"
       /\ step[t] \in {"append", "write"} => held[t].status = Merge(row, todo[t]).status
       /\ step[t] = "write" /\ todo[t].status # "kept" => truth.status = todo[t].status
  /\ row.status # "open" => truth.status = row.status

\* Once the capture has stored the environment, the row, the journal and every
\* update in progress carry it.
EnvStored ==
  /\ env = "stored" => /\ HasEnv(row) /\ HasEnv(truth)
                       /\ \A t \in Threads : step[t] \in {"append", "write"} => HasEnv(held[t])
  /\ step["env"] # "idle" => todo["env"].field = "env"
  /\ step["env"] \in {"append", "write"} => HasEnv(held["env"])
  /\ step["env"] = "write" => HasEnv(truth)

IInv == TypeOK /\ MainBusy /\ Turns /\ FromTheRow /\ ReportedStands /\ EnvStored

-----------------------------------------------------------------------------
\* The threads of the job and the janitor are not agents.
LEMMA ThreadFacts ==
  /\ {"main", "env", "janitor"} \subseteq Threads /\ Agents \subseteq Threads
  /\ "main" \notin Agents /\ "env" \notin Agents /\ "janitor" \notin Agents
  BY DEF Threads

-----------------------------------------------------------------------------
\* Type correctness.

\* A fresh run, and every update a thread makes, is well typed.
LEMMA UpdateTypes ==
  /\ NewRun \in Doc /\ Abandoned \in Update /\ Captured \in Update
  /\ Invoked \in Update /\ Computed \in Update
  /\ \A t \in Threads : Finalized(t) \in Update /\ Failed(t) \in Update
  BY ThreadFacts DEF NewRun, Doc, Abandoned, Captured, Invoked, Computed,
                     Finalized, Failed, Update

\* Merging an update into a document gives a document.
LEMMA MergeType ==
  ASSUME NEW d \in Doc, NEW u \in Update
  PROVE  Merge(d, u) \in Doc
<1>1. u.field \in {"result", "failure", "env", "invocation", "compute", "none"} /\ u.who \in Threads
  BY DEF Update
<1>2. [field |-> u.field, who |-> u.who] \in
        [field : {"result", "failure", "env", "invocation", "compute", "none"}, who : Threads]
  BY <1>1
<1>3. d.set \subseteq [field : {"result", "failure", "env", "invocation", "compute", "none"}, who : Threads]
  BY DEF Doc
<1>4. u.status \in {"finalized", "failed", "abandoned", "kept"}
      /\ d.status \in {"open", "finalized", "failed", "abandoned"}
  BY DEF Doc, Update
<1>5. (IF u.status = "kept" THEN d.status ELSE u.status) \in {"open", "finalized", "failed", "abandoned"}
  BY <1>4
<1>6. QED
  BY <1>2, <1>3, <1>5 DEF Merge, Doc

\* A run that has just been made is well typed.
LEMMA TypeInit == Init => TypeOK /\ MainBusy
  BY UpdateTypes, ThreadFacts DEF Init, TypeOK, MainBusy, Steps

\* Every step keeps the state well typed.
LEMMA TypeNext == TypeOK /\ MainBusy /\ [Next]_vars => TypeOK' /\ MainBusy'
<1> SUFFICES ASSUME TypeOK, MainBusy, [Next]_vars PROVE TypeOK' /\ MainBusy'
  OBVIOUS
<1> USE ThreadFacts, UpdateTypes
<1> USE DEF TypeOK, MainBusy, Steps, store, signs, job, local, budget
<1>1. CASE Attach
  BY <1>1 DEF Attach, Begin, Goto
<1>2. CASE RecordCompute
  BY <1>2 DEF RecordCompute, Begin, Goto
<1>3. CASE StartThreads
  BY <1>3 DEF StartThreads
<1>4. CASE LogMetric
  BY <1>4 DEF LogMetric
<1>5. CASE Beat
  BY <1>5 DEF Beat
<1>6. CASE Capture
  BY <1>6 DEF Capture, Begin, Goto
<1>7. CASE TrainerCloses
  BY <1>7 DEF TrainerCloses, Begin, Goto
<1>8. CASE JoinCapture
  BY <1>8 DEF JoinCapture, Goto
<1>9. CASE Exit
  BY <1>9 DEF Exit
<1>10. CASE JanitorLooks
  BY <1>10 DEF JanitorLooks, Begin, Goto
<1>11. CASE TimePasses
  BY <1>11 DEF TimePasses
<1>12. CASE BeatAges
  BY <1>12 DEF BeatAges
<1>13. CASE Rebuild
  BY <1>13 DEF Rebuild
<1>14. ASSUME NEW a \in Agents, AgentCloses(a) PROVE TypeOK' /\ MainBusy'
  BY <1>14 DEF AgentCloses, Begin, Goto
<1>15. ASSUME NEW t \in Threads, Check(t) PROVE TypeOK' /\ MainBusy'
  BY <1>15 DEF Check, Done, Goto
<1>16. ASSUME NEW t \in Threads, ReadRow(t) PROVE TypeOK' /\ MainBusy'
  BY <1>16, MergeType DEF ReadRow, Goto
<1>17. ASSUME NEW t \in Threads, AppendUpdate(t) PROVE TypeOK' /\ MainBusy'
  BY <1>17, MergeType DEF AppendUpdate, Goto
<1>18. ASSUME NEW t \in Threads, WriteRow(t) PROVE TypeOK' /\ MainBusy'
  BY <1>18 DEF WriteRow, Done, Goto, AfterCall
<1>19. ASSUME NEW t \in Threads, Break(t) PROVE TypeOK' /\ MainBusy'
  BY <1>19 DEF Break, Done, Goto
<1>20. CASE UNCHANGED vars
  BY <1>20 DEF vars
<1>21. QED
  BY <1>1, <1>2, <1>3, <1>4, <1>5, <1>6, <1>7, <1>8, <1>9, <1>10, <1>11, <1>12, <1>13,
     <1>14, <1>15, <1>16, <1>17, <1>18, <1>19, <1>20 DEF Next

\* The type invariant of a run's life, with or without turns.
THEOREM RunTypes == Spec => []TypeOK
  BY TypeInit, TypeNext, PTL DEF Spec
-----------------------------------------------------------------------------
\* Who can be inside a call with whom.

\* Before anything has started nobody is inside a call.
LEMMA TurnsInit == Init => Turns
  BY ThreadFacts DEF Init, Turns, InCall, Updating

\* Every step keeps to the turns.
LEMMA TurnsNext ==
  ASSUME Disciplined, TypeOK, MainBusy, Turns, [Next]_vars
  PROVE  Turns'
<1> USE ThreadFacts
<1> USE DEF Disciplined, TypeOK, Steps, Updating, MainBusy, Turns, InCall, store, signs, job, local, budget
<1>1. CASE Attach
  BY <1>1 DEF Attach, Begin, Goto
<1>2. CASE RecordCompute
  BY <1>2 DEF RecordCompute, Begin, Goto
<1>3. CASE StartThreads
  BY <1>3 DEF StartThreads
<1>4. CASE LogMetric
  BY <1>4 DEF LogMetric
<1>5. CASE Beat
  BY <1>5 DEF Beat
<1>6. CASE Capture
  BY <1>6 DEF Capture, Begin, Goto
<1>7. CASE TrainerCloses
  BY <1>7 DEF TrainerCloses, Begin, Goto
<1>8. CASE JoinCapture
  BY <1>8 DEF JoinCapture, Goto
<1>9. CASE Exit
  BY <1>9 DEF Exit
<1>10. CASE JanitorLooks
  BY <1>10 DEF JanitorLooks, Begin, Goto, Attaching
<1>11. CASE TimePasses
  BY <1>11 DEF TimePasses
<1>12. CASE BeatAges
  BY <1>12 DEF BeatAges
<1>13. CASE Rebuild
  BY <1>13 DEF Rebuild
<1>14. ASSUME NEW a \in Agents, AgentCloses(a) PROVE Turns'
  BY <1>14 DEF AgentCloses, Begin, Goto, Quiet
<1>15. ASSUME NEW t \in Threads, Check(t) PROVE Turns'
  BY <1>15 DEF Check, Done, Goto
<1>16. ASSUME NEW t \in Threads, ReadRow(t) PROVE Turns'
  BY <1>16 DEF ReadRow, Goto
<1>17. ASSUME NEW t \in Threads, AppendUpdate(t) PROVE Turns'
  BY <1>17 DEF AppendUpdate, Goto
<1>18. ASSUME NEW t \in Threads, WriteRow(t) PROVE Turns'
  BY <1>18 DEF WriteRow, Done, Goto, AfterCall
<1>19. ASSUME NEW t \in Threads, Break(t) PROVE Turns'
  BY <1>19 DEF Break, Done, Goto
<1>20. CASE UNCHANGED vars
  BY <1>20 DEF vars
<1>21. QED
  BY <1>1, <1>2, <1>3, <1>4, <1>5, <1>6, <1>7, <1>8, <1>9, <1>10, <1>11, <1>12, <1>13,
     <1>14, <1>15, <1>16, <1>17, <1>18, <1>19, <1>20 DEF Next
-----------------------------------------------------------------------------
\* What the row, the journal and an update in progress say of the status.

\* Two threads are never inside an update at once.
LEMMA OneUpdates ==
  ASSUME TypeOK, MainBusy, Turns, NEW s \in Threads, NEW t \in Threads,
         step[s] \in Updating, step[t] \in Updating
  PROVE  s = t
  BY ThreadFacts DEF Turns, InCall, Updating, Threads

\* A merge keeps the status or sets the update's.
LEMMA MergeStatus ==
  ASSUME NEW d, NEW u
  PROVE  Merge(d, u).status = IF u.status = "kept" THEN d.status ELSE u.status
  BY DEF Merge

\* A new run is open, in the row and in the journal.
LEMMA FromInit == Init => FromTheRow /\ ReportedStands
  BY ThreadFacts DEF Init, FromTheRow, ReportedStands, NewRun, Updating

\* Every step that takes turns keeps to the row.
LEMMA FromNext ==
  ASSUME Disciplined, TypeOK, MainBusy, Turns, FromTheRow, [Next]_vars
  PROVE  FromTheRow'
<1> USE ThreadFacts, MergeStatus
<1> USE DEF Disciplined, TypeOK, Steps, Updating, FromTheRow, store, signs, job, local, budget
<1>1. CASE Attach
  BY <1>1 DEF Attach, Begin, Goto, Invoked
<1>2. CASE RecordCompute
  BY <1>2 DEF RecordCompute, Begin, Goto, Computed
<1>3. CASE StartThreads
  BY <1>3 DEF StartThreads
<1>4. CASE LogMetric
  BY <1>4 DEF LogMetric
<1>5. CASE Beat
  BY <1>5 DEF Beat
<1>6. CASE Capture
  BY <1>6 DEF Capture, Begin, Goto, Captured
<1>7. CASE TrainerCloses
  BY <1>7 DEF TrainerCloses, Begin, Goto
<1>8. CASE JoinCapture
  BY <1>8 DEF JoinCapture, Goto
<1>9. CASE Exit
  BY <1>9 DEF Exit
<1>10. CASE JanitorLooks
  BY <1>10 DEF JanitorLooks, Begin, Goto, Abandoned
<1>11. CASE TimePasses
  BY <1>11 DEF TimePasses
<1>12. CASE BeatAges
  BY <1>12 DEF BeatAges
<1>13. CASE Rebuild
  BY <1>13 DEF Rebuild, InCall
<1>14. ASSUME NEW a \in Agents, AgentCloses(a) PROVE FromTheRow'
  BY <1>14 DEF AgentCloses, Begin, Goto
<1>15. ASSUME NEW t \in Threads, Check(t) PROVE FromTheRow'
  BY <1>15 DEF Check, Done, Goto
<1>16. ASSUME NEW t \in Threads, ReadRow(t) PROVE FromTheRow'
  BY <1>16 DEF ReadRow, Goto
<1>17. ASSUME NEW t \in Threads, AppendUpdate(t) PROVE FromTheRow'
  BY <1>17, OneUpdates DEF AppendUpdate, Goto
<1>18. ASSUME NEW t \in Threads, WriteRow(t) PROVE FromTheRow'
  BY <1>18, OneUpdates DEF WriteRow, Done, Goto
<1>19. ASSUME NEW t \in Threads, Break(t) PROVE FromTheRow'
  BY <1>19 DEF Break, Done, Goto
<1>20. CASE UNCHANGED vars
  BY <1>20 DEF vars
<1>21. QED
  BY <1>1, <1>2, <1>3, <1>4, <1>5, <1>6, <1>7, <1>8, <1>9, <1>10, <1>11, <1>12, <1>13,
     <1>14, <1>15, <1>16, <1>17, <1>18, <1>19, <1>20 DEF Next
-----------------------------------------------------------------------------
\* What a close reports.

\* Only the end of an update and a rebuild touch the row.
LEMMA RowWriters ==
  ASSUME [Next]_vars
  PROVE  (\E t \in Threads : WriteRow(t)) \/ Rebuild \/ UNCHANGED <<row, told>>
  BY DEF Next, vars, store, budget, Attach, RecordCompute, StartThreads, LogMetric, Beat,
         Capture, TrainerCloses, JoinCapture, Exit, JanitorLooks, TimePasses, BeatAges,
         AgentCloses, Check, ReadRow, AppendUpdate, Break

\* The end of an update closes an open run, as it reports, or leaves the
\* status and the reports alone.
LEMMA WriteCloses ==
  ASSUME Disciplined, TypeOK, FromTheRow, ReportedStands, NEW t \in Threads, WriteRow(t)
  PROVE  \/ /\ row.status = "open" /\ told = {}
            /\ row'.status = todo[t].status /\ row'.status # "open"
            /\ told' = IF row'.status \in {"finalized", "failed"} THEN {todo[t]} ELSE {}
         \/ row'.status = row.status /\ told' = told
<1>1. /\ step[t] = "write" /\ row' = held[t]
      /\ told' = IF todo[t].status \in {"finalized", "failed"} THEN told \cup {todo[t]} ELSE told
  BY DEF WriteRow
<1>2. row'.status = IF todo[t].status = "kept" THEN row.status ELSE todo[t].status
  BY <1>1, MergeStatus DEF FromTheRow
<1>3. todo[t].status \in {"finalized", "failed", "abandoned", "kept"}
  BY DEF TypeOK, Update
<1>4. CASE todo[t].status = "kept"
  BY <1>1, <1>2, <1>4
<1>5. CASE todo[t].status # "kept"
  <2>1. row.status = "open"
    BY <1>1, <1>5 DEF FromTheRow, Updating
  <2>2. told = {}
    BY <2>1 DEF ReportedStands, TypeOK, Update
  <2>3. QED
    BY <1>1, <1>2, <1>3, <1>5, <2>1, <2>2
<1>6. QED
  BY <1>4, <1>5

\* A rebuild closes an open run that the journal knows as closed, or leaves
\* the status alone.
LEMMA RebuildCloses ==
  ASSUME TypeOK, FromTheRow, ReportedStands, Rebuild
  PROVE  told' = told /\ (row'.status = row.status \/ (row.status = "open" /\ told = {}))
<1>1. row' = truth /\ told' = told
  BY DEF Rebuild
<1>2. row.status = "open" => told = {}
  BY DEF ReportedStands, TypeOK, Update
<1>3. QED
  <2>1. row.status # "open" => truth.status = row.status
    BY DEF FromTheRow
  <2>2. QED
    BY <1>1, <1>2, <2>1

\* Every step keeps the reports true.
LEMMA ReportedNext ==
  ASSUME Disciplined, TypeOK, FromTheRow, ReportedStands, [Next]_vars
  PROVE  ReportedStands'
<1>1. ASSUME NEW t \in Threads, WriteRow(t) PROVE ReportedStands'
  BY <1>1, WriteCloses DEF ReportedStands
<1>2. CASE Rebuild
  BY <1>2, RebuildCloses DEF ReportedStands
<1>3. CASE UNCHANGED <<row, told>>
  BY <1>3 DEF ReportedStands
<1>4. QED
  BY <1>1, <1>2, <1>3, RowWriters

-----------------------------------------------------------------------------
\* Where the environment is.

\* No merge loses the environment, and the capture's adds it.
LEMMA MergeEnv ==
  ASSUME NEW d \in Doc, NEW u \in Update
  PROVE  (HasEnv(d) \/ u.field = "env") => HasEnv(Merge(d, u))
<1>1. Merge(d, u).set = {x \in d.set : x.field # u.field} \cup {[field |-> u.field, who |-> u.who]}
  BY DEF Merge
<1>2. ASSUME u.field = "env" PROVE HasEnv(Merge(d, u))
  <2>1. [field |-> u.field, who |-> u.who] \in Merge(d, u).set
    BY <1>1
  <2>2. [field |-> u.field, who |-> u.who].field = "env"
    BY <1>2
  <2>3. QED
    BY <2>1, <2>2 DEF HasEnv
<1>3. ASSUME u.field # "env", NEW x \in d.set, x.field = "env" PROVE HasEnv(Merge(d, u))
  <2>1. x \in Merge(d, u).set
    BY <1>1, <1>3
  <2>2. QED
    BY <2>1, <1>3 DEF HasEnv
<1>4. QED
  BY <1>2, <1>3 DEF HasEnv

\* A new run has no environment and no capture.
LEMMA EnvInit == Init => EnvStored
  BY ThreadFacts DEF Init, EnvStored, NewRun

\* Every step keeps the environment where it was stored.
LEMMA EnvNext ==
  ASSUME Disciplined, TypeOK, MainBusy, Turns, EnvStored, [Next]_vars
  PROVE  EnvStored'
<1> USE ThreadFacts
<1> USE DEF Disciplined, TypeOK, Steps, EnvStored, store, signs, job, local, budget
<1>1. CASE Attach
  BY <1>1 DEF Attach, Begin, Goto
<1>2. CASE RecordCompute
  BY <1>2 DEF RecordCompute, Begin, Goto
<1>3. CASE StartThreads
  BY <1>3 DEF StartThreads
<1>4. CASE LogMetric
  BY <1>4 DEF LogMetric
<1>5. CASE Beat
  BY <1>5 DEF Beat
<1>6. CASE Capture
  BY <1>6 DEF Capture, Begin, Goto, Captured
<1>7. CASE TrainerCloses
  BY <1>7 DEF TrainerCloses, Begin, Goto
<1>8. CASE JoinCapture
  BY <1>8 DEF JoinCapture, Goto
<1>9. CASE Exit
  BY <1>9 DEF Exit
<1>10. CASE JanitorLooks
  BY <1>10 DEF JanitorLooks, Begin, Goto
<1>11. CASE TimePasses
  BY <1>11 DEF TimePasses
<1>12. CASE BeatAges
  BY <1>12 DEF BeatAges
<1>13. CASE Rebuild
  BY <1>13 DEF Rebuild, InCall
<1>14. ASSUME NEW a \in Agents, AgentCloses(a) PROVE EnvStored'
  BY <1>14 DEF AgentCloses, Begin, Goto
<1>15. ASSUME NEW t \in Threads, Check(t) PROVE EnvStored'
  BY <1>15 DEF Check, Done, Goto
<1>16. ASSUME NEW t \in Threads, ReadRow(t) PROVE EnvStored'
  BY <1>16, MergeEnv DEF ReadRow, Goto
<1>17. ASSUME NEW t \in Threads, AppendUpdate(t) PROVE EnvStored'
  BY <1>17, MergeEnv DEF AppendUpdate, Goto
<1>18. ASSUME NEW t \in Threads, WriteRow(t) PROVE EnvStored'
  BY <1>18, OneUpdates DEF WriteRow, Done, Goto, Updating
<1>19. ASSUME NEW t \in Threads, Break(t) PROVE EnvStored'
  BY <1>19 DEF Break, Done, Goto
<1>20. CASE UNCHANGED vars
  BY <1>20 DEF vars
<1>21. QED
  BY <1>1, <1>2, <1>3, <1>4, <1>5, <1>6, <1>7, <1>8, <1>9, <1>10, <1>11, <1>12, <1>13,
     <1>14, <1>15, <1>16, <1>17, <1>18, <1>19, <1>20 DEF Next

-----------------------------------------------------------------------------
\* The invariant and what follows from it.

\* The parts hold of a new run,
LEMMA IInvInit == Init => IInv
  BY TypeInit, TurnsInit, FromInit, EnvInit DEF IInv

\* and every step of a disciplined life keeps them.
LEMMA IInvNext == Disciplined /\ IInv /\ [Next]_vars => IInv'
  BY TypeNext, TurnsNext, FromNext, ReportedNext, EnvNext DEF IInv

\* A step closes an open run, and reports it truly, or leaves both alone.
LEMMA StepRefines ==
  ASSUME Disciplined, IInv, [Next]_vars
  PROVE  [Record!Close]_<<row.status, told>>
<1>1. /\ TypeOK /\ FromTheRow /\ ReportedStands
      /\ TypeOK'
  BY IInvNext DEF IInv
<1>2. row.status \in {"open", "finalized", "failed", "abandoned"}
      /\ row'.status \in {"open", "finalized", "failed", "abandoned"}
  BY <1>1 DEF TypeOK, Doc
<1>3. ASSUME NEW t \in Threads, WriteRow(t) PROVE [Record!Close]_<<row.status, told>>
  <2>1. todo[t] \in Update
    BY <1>1 DEF TypeOK
  <2>2. QED
    BY <1>1, <1>2, <1>3, <2>1, WriteCloses DEF Record!Close
<1>4. CASE Rebuild
  BY <1>1, <1>2, <1>4, RebuildCloses DEF Record!Close
<1>5. CASE UNCHANGED <<row, told>>
  BY <1>5
<1>6. QED
  BY <1>3, <1>4, <1>5, RowWriters

\* A run's life implements the record: open until one call closes it, and from
\* then on what that call said (contract.py:91, 159).  It needs the turns,
\* heartbeats that are read whole and a close that waits for the capture.
THEOREM ClosesOnce == Disciplined => (Spec => IsRunRecord)
<1>1. SUFFICES ASSUME Disciplined PROVE Spec => IsRunRecord
  OBVIOUS
<1>2. Init => Record!Init
  BY DEF Init, Record!Init, NewRun
<1>3. IInv /\ [Next]_vars => [Record!Close]_<<row.status, told>>
  BY <1>1, StepRefines
<1>4. IInv /\ [Next]_vars => IInv'
  BY <1>1, IInvNext
<1>5. QED
  BY <1>2, <1>3, <1>4, IInvInit, PTL DEF Spec, IsRunRecord, Record!Spec

\* What a close was told it did is what the run shows (contract.py:91).
THEOREM ReportsStand == Disciplined => (Spec => []ReportedStands)
<1>1. SUFFICES ASSUME Disciplined PROVE Spec => []ReportedStands
  OBVIOUS
<1>2. IInv => ReportedStands
  BY DEF IInv
<1>3. IInv /\ [Next]_vars => IInv'
  BY <1>1, IInvNext
<1>4. QED
  BY <1>2, <1>3, IInvInit, PTL DEF Spec

\* The janitor never abandons a run that is running (tracking.md:152-154).
THEOREM JanitorSpares == Disciplined => (Spec => LiveKept)
<1>1. SUFFICES ASSUME Disciplined PROVE Spec => LiveKept
  OBVIOUS
<1> DEFINE Spares == (row.status = "open" /\ row'.status = "abandoned" /\ step["janitor"] = "write")
                       => trainer \notin {"training", "closing"}
<1>2. IInv => [Spares]_vars
  BY ThreadFacts DEF IInv, Turns
<1>3. IInv /\ [Next]_vars => IInv'
  BY <1>1, IInvNext
<1>4. QED
  BY <1>2, <1>3, IInvInit, PTL DEF Spec, LiveKept

\* A close by the training process leaves the lock of the environment on the
\* run, if it was captured (client.py:11-12).
THEOREM EnvAlwaysCarried == Disciplined => (Spec => EnvCarried)
<1>1. SUFFICES ASSUME Disciplined PROVE Spec => EnvCarried
  OBVIOUS
<1> DEFINE Carries == (told' # told /\ step["main"] = "write" /\ step'["main"] = "idle")
                        => (env \in {"none", "failed"} \/ HasEnv(row'))
<1>2. IInv /\ [Next]_vars => [Carries]_vars
  <2> SUFFICES ASSUME IInv, [Next]_vars, told' # told, step["main"] = "write", step'["main"] = "idle"
               PROVE  env \in {"none", "failed"} \/ HasEnv(row')
    OBVIOUS
  <2>1. TypeOK /\ MainBusy /\ Turns /\ EnvStored
    BY DEF IInv
  <2>2. env \in {"none", "stored", "failed"}
    BY <2>1 DEF TypeOK, Turns
  <2>3. ASSUME NEW t \in Threads, WriteRow(t) PROVE t = "main" /\ row' = held["main"]
    BY <2>1, <2>3, OneUpdates, ThreadFacts DEF WriteRow, Updating
  <2>4. ~Rebuild
    BY DEF Rebuild
  <2>5. row' = held["main"]
    BY <2>3, <2>4, RowWriters
  <2>6. QED
    BY <2>1, <2>2, <2>5, ThreadFacts DEF EnvStored
<1>3. IInv /\ [Next]_vars => IInv'
  BY <1>1, IInvNext
<1> HIDE DEF Carries
<1>4. Spec => [][Carries]_vars
  BY <1>2, <1>3, IInvInit, PTL DEF Spec
<1>5. QED
  BY <1>4 DEF Carries, EnvCarried
=============================================================================
