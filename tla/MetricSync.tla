----------------------------- MODULE MetricSync -----------------------------
(***************************************************************************)
(* Shipping one run's metrics.jsonl from a spool store to a server         *)
(* (flush_metrics of src/mlparty/sync.py, append_metrics_chunk of          *)
(* src/mlparty/store.py).                                                  *)
(*                                                                         *)
(* Trainers append to the spool file while flushers - the background       *)
(* thread of a run, mlp sync in a terminal - read chunks of it from their  *)
(* cursor, POST them with the offset they start at, and move the cursor on *)
(* a reply.  The server appends a chunk only at its exact size, under the  *)
(* flock, and otherwise answers 409 with its size and hash.  A request may *)
(* be lost, arrive late or arrive again after its sender gave up; a reply  *)
(* may be lost; either side may die at any step.                           *)
(*                                                                         *)
(* A file is a sequence of units, a unit standing for some bytes of a      *)
(* line.  The spool's units say whether a line ends there; a unit of the   *)
(* server's file is the position in the spool it came from, or 0.  A       *)
(* SHA-256 is the sequence it is taken of.                                 *)
(***************************************************************************)
EXTENDS Integers, Sequences

CONSTANTS
  Flushers,     \* SyncClient objects on this spool and this server
  Chunk,        \* METRIC_CHUNK_BYTES, in units
  MaxSpool,     \* bound on the length of the spool file
  MaxCrashes,   \* bound on flushers restarted and on cursors lost
  MaxStrays,    \* bound on metrics logged into the server's copy itself
  MaxRestores   \* bound on servers restored from an older backup

ASSUME SyncAssumption ==
  /\ Chunk \in Nat \ {0}
  /\ {MaxSpool, MaxCrashes, MaxStrays, MaxRestores} \subseteq Nat

VARIABLES
  spool,     \* the spool's metrics.jsonl: for each unit, does a line end there
  server,    \* the server's metrics.jsonl: where each unit came from
  saved,     \* the cursor in sync_state.json
  pc,        \* the step each flusher is at
  cursor,    \* its cursor
  size,      \* the size of the spool file it saw when its flush began
  asked,     \* its last request
  reply,     \* the reply that waits for it: at most one
  late,      \* requests that may still arrive, or arrive again
  crashes, strays, restores    \* budget used

files  == <<spool, server, saved>>
local  == <<pc, cursor, size, asked, reply>>
budget == <<crashes, strays, restores>>
vars   == <<files, local, late, budget>>

Request  == [from : Nat, data : Seq(Nat)]
Response == [ok : BOOLEAN, file : Seq(Nat)]

NoRequest == [from |-> 0, data |-> <<>>]

TypeOK ==
  /\ spool \in Seq(BOOLEAN) /\ server \in Seq(Nat) /\ saved \in Nat
  /\ pc \in [Flushers -> {"idle", "read", "wait", "save"}]
  /\ cursor \in [Flushers -> Nat] /\ size \in [Flushers -> Nat]
  /\ asked \in [Flushers -> Request]
  /\ reply \in [Flushers -> SUBSET Response]
  /\ late \subseteq Request
  /\ crashes \in Nat /\ strays \in Nat /\ restores \in Nat

Init ==
  /\ spool = <<>> /\ server = <<>> /\ saved = 0
  /\ pc = [f \in Flushers |-> "idle"]
  /\ cursor = [f \in Flushers |-> 0] /\ size = [f \in Flushers |-> 0]
  /\ asked = [f \in Flushers |-> NoRequest]
  /\ reply = [f \in Flushers |-> {}]
  /\ late = {}
  /\ crashes = 0 /\ strays = 0 /\ restores = 0

Goto(f, step) == pc' = [pc EXCEPT ![f] = step]

\* The flush returns or raises; what it had in hand is gone.
Leave(f) == /\ Goto(f, "idle")
            /\ size' = [size EXCEPT ![f] = 0]
            /\ asked' = [asked EXCEPT ![f] = NoRequest]
            /\ reply' = [reply EXCEPT ![f] = {}]

\* The bytes of the spool in (a, b], as the server will store them.
Slice(a, b) == [i \in 1 .. b - a |-> a + i]
\* Does this file hold exactly what the spool begins with (the prefix hash)?
Matches(file) == \A i \in DOMAIN file : file[i] = i
\* Ends of lines in (a, b].
LineEnds(a, b) == {i \in a + 1 .. b : spool[i]}
LineStart(i) == i = 0 \/ (i \in DOMAIN spool /\ spool[i])
Largest(S) == CHOOSE i \in S : \A j \in S : j <= i

-----------------------------------------------------------------------------
\* The trainer.  append_metric writes one line under the flock; a reader can
\* see it half written.  A line fits in one chunk.
AppendMetric ==
  /\ Len(spool) < MaxSpool
  /\ \E ends \in BOOLEAN :
       /\ ends \/ \E i \in (Len(spool) + 2 - Chunk) .. Len(spool) : LineStart(i)
       /\ spool' = Append(spool, ends)
  /\ UNCHANGED <<server, saved, local, late, budget>>

-----------------------------------------------------------------------------
\* flush_metrics, for one run directory.

\* The size is taken once, before the loop.
BeginFlush(f) ==
  /\ pc[f] = "idle"
  /\ cursor[f] < Len(spool)
  /\ size' = [size EXCEPT ![f] = Len(spool)]
  /\ Goto(f, "read")
  /\ UNCHANGED <<files, cursor, asked, reply, late, budget>>

\* Mutant: the chunk is not cut at a line's end.
PostChunkUncut(f) ==
  /\ pc[f] = "read"
  /\ asked' = [asked EXCEPT ![f] =
       [from |-> cursor[f],
        data |-> Slice(cursor[f], IF cursor[f] + Chunk < Len(spool)
                                  THEN cursor[f] + Chunk ELSE Len(spool))]]
  /\ Goto(f, "wait")
  /\ UNCHANGED <<files, cursor, size, reply, late, budget>>

\* Mutant: the cursor moves when the chunk is posted, not when it is acked.
PostChunkEager(f) ==
  LET end  == IF cursor[f] + Chunk < Len(spool) THEN cursor[f] + Chunk ELSE Len(spool)
      ends == LineEnds(cursor[f], end)
  IN
  /\ pc[f] = "read"
  /\ IF ends = {}
     THEN Leave(f) /\ UNCHANGED cursor
     ELSE /\ asked' = [asked EXCEPT ![f] =
               [from |-> cursor[f], data |-> Slice(cursor[f], Largest(ends))]]
          /\ cursor' = [cursor EXCEPT ![f] = Largest(ends)]
          /\ Goto(f, "wait")
          /\ UNCHANGED <<size, reply>>
  /\ UNCHANGED <<files, late, budget>>

\* Read a chunk from the cursor, cut it after its last whole line, post it.
\* With no whole line in it the line is still being written: leave.
PostChunk(f) ==
  LET end  == IF cursor[f] + Chunk < Len(spool) THEN cursor[f] + Chunk ELSE Len(spool)
      ends == LineEnds(cursor[f], end)
  IN
  /\ pc[f] = "read"
  /\ IF ends = {}
     THEN Leave(f)
     ELSE /\ asked' = [asked EXCEPT ![f] =
               [from |-> cursor[f], data |-> Slice(cursor[f], Largest(ends))]]
          /\ Goto(f, "wait")
          /\ UNCHANGED <<size, reply>>
  /\ UNCHANGED <<files, cursor, late, budget>>

\* Mutant: a conflict ends the flush; nothing resumes.
ReceiveNoResume(f) ==
  /\ pc[f] = "wait"
  /\ \E a \in reply[f] :
       \/ /\ a.ok
          /\ cursor' = [cursor EXCEPT ![f] = @ + Len(asked[f].data)]
          /\ Goto(f, "save")
          /\ asked' = [asked EXCEPT ![f] = NoRequest]
          /\ reply' = [reply EXCEPT ![f] = {}]
          /\ UNCHANGED size
       \/ /\ ~a.ok
          /\ Leave(f)
          /\ UNCHANGED cursor
  /\ UNCHANGED <<files, late, budget>>

\* The reply: an ack moves the cursor behind the chunk; a conflict resumes at
\* the server's size once its hash is that of our own prefix, and raises when
\* the server's file is the longer one or another one.
Receive(f) ==
  /\ pc[f] = "wait"
  /\ \E a \in reply[f] :
       LET sound == Len(a.file) <= size[f] /\ Matches(a.file) IN
       \/ /\ a.ok \/ sound
          /\ cursor' = [cursor EXCEPT ![f] =
                          IF a.ok THEN @ + Len(asked[f].data) ELSE Len(a.file)]
          /\ Goto(f, "save")
          /\ asked' = [asked EXCEPT ![f] = NoRequest]
          /\ reply' = [reply EXCEPT ![f] = {}]
          /\ UNCHANGED size
       \/ /\ ~a.ok /\ ~sound
          /\ Leave(f)
          /\ UNCHANGED cursor
  /\ UNCHANGED <<files, late, budget>>

\* _save_state, then round the loop.
SaveState(f) ==
  /\ pc[f] = "save"
  /\ saved' = cursor[f]
  /\ IF cursor[f] < size[f]
     THEN Goto(f, "read") /\ UNCHANGED <<size, asked, reply>>
     ELSE Leave(f)
  /\ UNCHANGED <<spool, server, cursor, late, budget>>

\* A request nobody waits for any more is still on its way.
Abandon(f) == late' = IF pc[f] = "wait" THEN late \cup {asked[f]} ELSE late

\* The request times out or the connection breaks: httpx raises, the flush
\* ends.  The server has seen the request and its reply is lost, or it may
\* see the request yet, or never.
GiveUp(f) ==
  /\ pc[f] = "wait"
  /\ Abandon(f)
  /\ Leave(f)
  /\ UNCHANGED <<files, cursor, budget>>

\* A flusher's process ends anywhere and another takes its place: it starts
\* from the cursor on disk.
Restart(f) ==
  /\ crashes < MaxCrashes
  /\ crashes' = crashes + 1
  /\ cursor' = [cursor EXCEPT ![f] = saved]
  /\ Abandon(f)
  /\ Leave(f)
  /\ UNCHANGED <<files, strays, restores>>

\* Mutant: a missing cursor is marked -1.
LoseStateMarked ==
  /\ crashes < MaxCrashes
  /\ crashes' = crashes + 1
  /\ saved' = 0 - 1
  /\ UNCHANGED <<spool, server, local, late, strays, restores>>

\* sync_state.json is gone or unreadable: the cursor defaults to 0.
LoseState ==
  /\ crashes < MaxCrashes
  /\ crashes' = crashes + 1
  /\ saved' = 0
  /\ UNCHANGED <<spool, server, local, late, strays, restores>>

-----------------------------------------------------------------------------
\* append_metrics_chunk, under the flock of the server's file.

\* A chunk that does not end a line gets a newline of the server's own.
Appended(r) ==
  IF r.data = <<>> \/ spool[r.data[Len(r.data)]] THEN r.data ELSE Append(r.data, 0)

\* Mutant: the chunk is appended whatever offset the client expected.
StoreAnywhere(r) == server' = server \o Appended(r)

Store(r) == server' = IF r.from = Len(server) THEN server \o Appended(r) ELSE server

Verdict(r) == IF r.from = Len(server) THEN [ok |-> TRUE, file |-> <<>>]
                                      ELSE [ok |-> FALSE, file |-> server]

\* The request its sender waits for, and the reply gets through.
Serve(f) ==
  /\ pc[f] = "wait" /\ reply[f] = {}
  /\ Store(asked[f])
  /\ reply' = [reply EXCEPT ![f] = {Verdict(asked[f])}]
  /\ late' = late \cup {asked[f]}
  /\ UNCHANGED <<spool, saved, pc, cursor, size, asked, budget>>

\* A request whose sender has given up, or one that arrives again.
Arrive(r) ==
  /\ Store(r)
  /\ UNCHANGED <<spool, saved, local, late, budget>>

\* The server dies inside the write: it keeps a part of the chunk.
CutShort(r) ==
  /\ r.from = Len(server)
  /\ \E n \in 1 .. Len(r.data) - 1 : server' = server \o SubSeq(r.data, 1, n)
  /\ UNCHANGED <<spool, saved, local, late, budget>>

\* A metric is logged for this run in the server's store itself.
Stray ==
  /\ strays < MaxStrays
  /\ strays' = strays + 1
  /\ server' = Append(server, 0)
  /\ UNCHANGED <<spool, saved, local, late, crashes, restores>>

\* The server is replaced by a backup taken earlier.
Restore ==
  /\ restores < MaxRestores
  /\ restores' = restores + 1
  /\ \E n \in 0 .. Len(server) : server' = SubSeq(server, 1, n)
  /\ UNCHANGED <<spool, saved, local, late, crashes, strays>>

-----------------------------------------------------------------------------
Next ==
  \/ AppendMetric \/ LoseState \/ Stray \/ Restore
  \/ \E f \in Flushers : \/ BeginFlush(f) \/ PostChunk(f) \/ Receive(f)
                         \/ SaveState(f) \/ GiveUp(f) \/ Restart(f) \/ Serve(f)
  \/ \E r \in late : Arrive(r) \/ CutShort(r)

\* The sync loop flushes again and again; a flush that began goes on; and a
\* server that is tried again and again answers in the end.
Fairness ==
  \A f \in Flushers :
    /\ WF_vars(BeginFlush(f) \/ PostChunk(f) \/ Receive(f) \/ SaveState(f))
    /\ SF_vars(Serve(f)) /\ SF_vars(Receive(f))

Spec     == Init /\ [][Next]_vars
FairSpec == Spec /\ Fairness
-----------------------------------------------------------------------------
\* Properties.

\* A server's file that holds the first n units of the spool.
Holds(file, n) == \A i \in 1 .. n : i \in DOMAIN file /\ file[i] = i

\* The server's file is a prefix of the spool's, with nothing but its own
\* stray metrics after it: a duplicate or late chunk conflicts, never
\* interleaves, and a file that has gone its own way is left alone
\* (store.py:195-198, sync.py:119-130).  A stray written just after a restore
\* can bring the file back to the size a cursor expects; that is excluded.
NeverInterleaves ==
  (strays = 0 \/ restores = 0) =>
    \A i \in DOMAIN server :
      /\ server[i] # 0 => server[i] = i /\ i <= Len(spool)
      /\ server[i] = 0 => \A j \in DOMAIN server : j > i => server[j] = 0

\* No cursor is ever ahead of what the server holds: a lost reply or a crash
\* can only cause a re-send, never a loss (sync.py:6-8).
AckedIsStored ==
  restores = 0 => /\ Holds(server, saved)
                  /\ \A f \in Flushers : Holds(server, cursor[f])

\* Whatever is lost, late or repeated, and whoever dies, every whole line of
\* the spool reaches the server ("it converges", _docs/remote.md:58).
Converges ==
  \A k \in 1 .. MaxSpool : (k \in DOMAIN spool /\ spool[k]) ~> Len(server) >= k

\* The server's copy follows the abstract copied file.
Copied == INSTANCE CopiedFile WITH
            Units <- 1 .. MaxSpool, file <- Slice(0, Len(spool)),
            copy <- server, acked <- saved
IsCopiedFile == Copied!Spec
=============================================================================
