------------------------------ MODULE SpoolSync ------------------------------
(***************************************************************************)
(* One spool, one server, and everything a flush ships between them        *)
(* (SyncClient.flush of src/mlparty/sync.py, the ingest endpoints of       *)
(* src/mlparty/http_api.py, the object transfer of src/mlparty/gitstore.py *)
(* and the live stream of a run on the server).                            *)
(*                                                                         *)
(* Runs start, log, and end or die on the spool.  Each client of the spool *)
(* (the training process's flusher thread, `mlp sync`) has its own copy of *)
(* the cursors and saves it whole to sync_state.json.  A flush ships       *)
(* events, git objects, artifacts, metrics and heartbeats in that order,   *)
(* and the first request that fails ends it.  A request may be lost before *)
(* or after the server acts on it, or may find the server dying midway.    *)
(*                                                                         *)
(* Bytes and offsets of metrics are the subject of MetricSync: here a      *)
(* metrics file is its length in half lines.  Deduplication of events is   *)
(* the subject of MlStore: here the server keeps a set of them.            *)
(***************************************************************************)
EXTENDS Integers, Sequences, FiniteSets, FiniteSetsExt

CONSTANTS
  Clients,     \* the SyncClients of the spool
  MaxRuns,     \* bound on runs
  MaxEvents,   \* bound on the spool's journal
  MaxLines,    \* bound on metric lines of a run
  MaxArtifacts,\* bound on artifacts
  EventBatch,  \* EVENT_BATCH
  Followed,    \* the runs that the server's janitor and a stream look at
  MaxBreaks    \* bound on requests that fail and clients that restart

ASSUME SpoolAssumption ==
  /\ {MaxRuns, MaxEvents, MaxLines, MaxArtifacts, MaxBreaks} \subseteq Nat
  /\ EventBatch \in Nat \ {0}
  /\ Followed \subseteq {1} \cap (1 .. MaxRuns)

Runs      == 1 .. MaxRuns
Artifacts == 1 .. MaxArtifacts

VARIABLES
  journal,  \* the spool's events: a commit recorded, a run started or closed
  trainer,  \* what became of the process of each run
  lines,    \* metric lines each run has logged
  refs,     \* runs whose refs/runs/ name is set in the spool's repository
  cas,      \* the spool's artifacts
  broken,   \* those whose file was left truncated: the bytes of artifact 1
  cursor,   \* each client's copy of the cursors
  saved,    \* sync_state.json
  flush,    \* each client's step within a flush
  server,   \* what the server holds
  watch,    \* a stream of run 1 on the server
  breaks    \* budget used

spool == <<journal, trainer, lines, refs, cas, broken>>
vars  == <<spool, cursor, saved, flush, server, watch, breaks>>

Kinds  == {"commit", "start", "close"}
Events == [kind : Kinds, run : Runs]
\* Run r's commit has its own tree and the commit of run r - 1 as parent.
Objects == Runs \X {"commit", "tree"}
\* reachable_objects: the commit, its tree, and so on from its parents.
Reachable(r) == (1 .. r) \X {"commit", "tree"}

Cursors == [events : Nat, refs : SUBSET Runs, artifacts : SUBSET Artifacts]
NoCursors == [events |-> 0, refs |-> {}, artifacts |-> {}]
Resting == [at |-> "idle", pos |-> 0, upto |-> 0, run |-> 0, want |-> {}]

TypeOK ==
  /\ journal \in Seq(Events)
  /\ trainer \in [Runs -> {"none", "ready", "alive", "done", "dead"}]
  /\ lines \in [Runs -> 0 .. MaxLines]
  /\ refs \subseteq Runs /\ broken \subseteq cas /\ cas \subseteq Artifacts
  /\ cursor \in [Clients -> Cursors] /\ saved \in Cursors
  /\ flush \in [Clients -> [at : {"idle", "events", "post", "git", "push", "artifacts", "metrics", "beats"},
                            pos : Nat, upto : Nat, run : 0 .. MaxRuns, want : SUBSET Objects]]
  /\ server \in [events : SUBSET (1 .. MaxEvents), objects : SUBSET Objects, refs : SUBSET Runs,
                 artifacts : SUBSET Artifacts, size : [Runs -> 0 .. 2 * MaxLines],
                 beats : SUBSET Runs, abandoned : SUBSET Runs]
  /\ watch \in [at : {"read", "look", "over"}, pos : 0 .. 2 * MaxLines, got : BOOLEAN]

Init ==
  /\ journal = <<>> /\ trainer = [r \in Runs |-> "none"] /\ lines = [r \in Runs |-> 0]
  /\ refs = {} /\ cas = {} /\ broken = {}
  /\ cursor = [c \in Clients |-> NoCursors] /\ saved = NoCursors
  /\ flush = [c \in Clients |-> Resting]
  /\ server = [events |-> {}, objects |-> {}, refs |-> {}, artifacts |-> {},
               size |-> [r \in Runs |-> 0], beats |-> {}, abandoned |-> {}]
  /\ watch = [at |-> "read", pos |-> 0, got |-> FALSE]
  /\ breaks = 0

Journaled(r, kind) == \E i \in DOMAIN journal : journal[i] = [kind |-> kind, run |-> r]
Log(r, kind) == /\ Len(journal) < MaxEvents
                /\ journal' = Append(journal, [kind |-> kind, run |-> r])
Closes(r, E) == \E i \in E : journal[i] = [kind |-> "close", run |-> r]
\* What the server's index says of run r.
ServerOpen(r) == /\ \E i \in server.events : journal[i] = [kind |-> "start", run |-> r]
                 /\ ~Closes(r, server.events) /\ r \notin server.abandoned

-----------------------------------------------------------------------------
\* The spool.

OnSpool == UNCHANGED <<cursor, saved, flush, server, watch, breaks>>

\* run_start: the objects and the ref first, then the events.
Commit(r) ==
  /\ trainer[r] = "none" /\ \A q \in Runs : q < r => q \in refs
  /\ trainer' = [trainer EXCEPT ![r] = "ready"]
  /\ refs' = refs \cup {r}
  /\ Log(r, "commit")
  /\ UNCHANGED <<lines, cas, broken>> /\ OnSpool

Start(r) ==
  /\ trainer[r] = "ready" /\ trainer' = [trainer EXCEPT ![r] = "alive"]
  /\ Log(r, "start")
  /\ UNCHANGED <<lines, refs, cas, broken>> /\ OnSpool

LogMetric(r) ==
  /\ trainer[r] = "alive" /\ lines[r] < MaxLines
  /\ lines' = [lines EXCEPT ![r] = @ + 1]
  /\ UNCHANGED <<journal, trainer, refs, cas, broken>> /\ OnSpool

\* An artifact is put, whole or left truncated by a put that overlapped.
LogArtifact(a, torn) ==
  /\ a \notin cas /\ torn => a # 1
  /\ cas' = cas \cup {a}
  /\ broken' = IF torn THEN broken \cup {a} ELSE broken
  /\ UNCHANGED <<journal, trainer, lines, refs>> /\ OnSpool

Finish(r) ==
  /\ trainer[r] = "alive" /\ trainer' = [trainer EXCEPT ![r] = "done"]
  /\ Log(r, "close")
  /\ UNCHANGED <<lines, refs, cas, broken>> /\ OnSpool

Perish(r) ==
  /\ trainer[r] = "alive" /\ trainer' = [trainer EXCEPT ![r] = "dead"]
  /\ UNCHANGED <<journal, lines, refs, cas, broken>> /\ OnSpool

\* The spool's janitor, when the run has been silent for the TTL.
Janitor(r) ==
  /\ trainer[r] = "dead" /\ ~Journaled(r, "close")
  /\ Log(r, "close")
  /\ UNCHANGED <<trainer, lines, refs, cas, broken>> /\ OnSpool

-----------------------------------------------------------------------------
\* The server's endpoints: what each leaves behind.

IngestEvents(i, j) == [server EXCEPT !.events = @ \cup (i .. j)]
Missing(S)         == S \ server.objects
ImportObjects(S)   == [server EXCEPT !.objects = @ \cup S]
IngestGit(r, S)    == [ImportObjects(S) EXCEPT !.refs = @ \cup {r}]

\* What the server has is not read again; what does not hash to its name is
\* put under the name it hashes to, and that name is unlinked.
IngestArtifact(a) ==
  [server EXCEPT !.artifacts = IF a \in @ THEN @
                               ELSE IF a \in broken THEN @ \ {1} ELSE @ \cup {a}]

Accepted(a) == a \in server.artifacts \/ a \notin broken

IngestHeartbeat(R) == [server EXCEPT !.beats = @ \cup R]

-----------------------------------------------------------------------------
\* A flush.

Step(c, at) == flush' = [flush EXCEPT ![c] = [Resting EXCEPT !.at = at]]
Clear(c)    == Step(c, "idle")

\* The client's cursors move, and are saved over whatever the file says.
Advance(c, new) == cursor' = [cursor EXCEPT ![c] = new] /\ saved' = new

\* A request fails: the flush is over, whatever the server did of it.
Fails(c, left) ==
  /\ breaks < MaxBreaks /\ breaks' = breaks + 1
  /\ server' = left
  /\ Clear(c)
  /\ UNCHANGED <<spool, cursor, saved, watch>>

\* Mutant: without new events there is nothing to flush.
ReadEventsOnly(c) ==
  /\ flush[c].at \in {"idle", "events"}
  /\ IF Len(journal) = cursor[c].events
     THEN Step(c, IF flush[c].at = "idle" THEN "idle" ELSE "git")
     ELSE flush' = [flush EXCEPT ![c] = [Resting EXCEPT !.at = "post", !.pos = cursor[c].events,
                                                        !.upto = Len(journal)]]
  /\ UNCHANGED <<spool, cursor, saved, server, watch, breaks>>

\* flush_events: read what is new; when nothing is, go on to git.
ReadEvents(c) ==
  /\ flush[c].at \in {"idle", "events"}
  /\ IF Len(journal) = cursor[c].events THEN Step(c, "git")
     ELSE flush' = [flush EXCEPT ![c] = [Resting EXCEPT !.at = "post", !.pos = cursor[c].events,
                                                        !.upto = Len(journal)]]
  /\ UNCHANGED <<spool, cursor, saved, server, watch, breaks>>

\* Mutant: the last batch is as long as the others.
BatchEndUncut(c) == flush[c].pos + EventBatch

BatchEnd(c) == Min({flush[c].pos + EventBatch, flush[c].upto})

\* Mutant: the cursor moves with every batch posted, to the end of what was read.
PostEventsEager(c) ==
  /\ flush[c].at = "post"
  /\ \/ /\ server' = IngestEvents(flush[c].pos + 1, BatchEnd(c))
        /\ flush' = [flush EXCEPT ![c].pos = BatchEnd(c), ![c].at = IF BatchEnd(c) = flush[c].upto THEN "events" ELSE @]
        /\ Advance(c, [cursor[c] EXCEPT !.events = flush[c].upto])
        /\ UNCHANGED <<spool, watch, breaks>>
     \/ Fails(c, server)

\* Mutant: the newest batch goes first.
PostEventsNewest(c) ==
  /\ flush[c].at = "post"
  /\ LET back(k) == flush[c].upto - (k - cursor[c].events)
     IN \/ /\ server' = IngestEvents(back(BatchEnd(c)) + 1, back(flush[c].pos))
           /\ IF BatchEnd(c) = flush[c].upto
              THEN Step(c, "events") /\ Advance(c, [cursor[c] EXCEPT !.events = flush[c].upto])
              ELSE /\ flush' = [flush EXCEPT ![c].pos = BatchEnd(c)]
                   /\ UNCHANGED <<cursor, saved>>
           /\ UNCHANGED <<spool, watch, breaks>>
        \/ Fails(c, server)

PostEvents(c) ==
  /\ flush[c].at = "post"
  /\ \/ /\ server' = IngestEvents(flush[c].pos + 1, BatchEnd(c))
        /\ IF BatchEnd(c) = flush[c].upto
           THEN Step(c, "events") /\ Advance(c, [cursor[c] EXCEPT !.events = flush[c].upto])
           ELSE /\ flush' = [flush EXCEPT ![c].pos = BatchEnd(c)]
                /\ UNCHANGED <<cursor, saved>>
        /\ UNCHANGED <<spool, watch, breaks>>
     \/ \E k \in flush[c].pos .. BatchEnd(c) : Fails(c, IngestEvents(flush[c].pos + 1, k))

\* Mutant: a server that has the commit is taken to have all of it.
AskMissingCommit(c, r) ==
  /\ flush[c].at = "git" /\ r = Min(refs \ cursor[c].refs)
  /\ flush' = [flush EXCEPT ![c] = [Resting EXCEPT !.at = "push", !.run = r,
                 !.want = IF <<r, "commit">> \in server.objects THEN {} ELSE Missing(Reachable(r))]]
  /\ UNCHANGED <<spool, cursor, saved, server, watch, breaks>>

\* flush_git: the objects of the next ref that the server does not have.
AskMissing(c, r) ==
  /\ flush[c].at = "git" /\ r = Min(refs \ cursor[c].refs)
  /\ \/ /\ flush' = [flush EXCEPT ![c] = [Resting EXCEPT !.at = "push", !.run = r,
                                                         !.want = Missing(Reachable(r))]]
        /\ UNCHANGED <<spool, cursor, saved, server, watch, breaks>>
     \/ Fails(c, server)

\* They are pushed with the ref; a server that dies has imported some of them.
PushObjects(c) ==
  /\ flush[c].at = "push"
  /\ \/ /\ server' = IngestGit(flush[c].run, flush[c].want)
        /\ Advance(c, [cursor[c] EXCEPT !.refs = @ \cup {flush[c].run}])
        /\ Step(c, "git")
        /\ UNCHANGED <<spool, watch, breaks>>
     \/ \E S \in SUBSET flush[c].want : Fails(c, ImportObjects(S))
     \/ Fails(c, IngestGit(flush[c].run, flush[c].want))

GitDone(c) ==
  /\ flush[c].at = "git" /\ refs \subseteq cursor[c].refs
  /\ Step(c, "artifacts")
  /\ UNCHANGED <<spool, cursor, saved, server, watch, breaks>>

\* flush_artifacts, in the order of the digests; a refusal raises.
PutArtifact(c) ==
  /\ flush[c].at = "artifacts" /\ ~(cas \subseteq cursor[c].artifacts)
  /\ LET a == Min(cas \ cursor[c].artifacts)
     IN \/ /\ Accepted(a)
           /\ server' = IngestArtifact(a)
           /\ Advance(c, [cursor[c] EXCEPT !.artifacts = @ \cup {a}])
           /\ UNCHANGED <<spool, flush, watch, breaks>>
        \/ /\ ~Accepted(a)
           /\ server' = IngestArtifact(a)
           /\ Clear(c)
           /\ UNCHANGED <<spool, cursor, saved, watch, breaks>>
        \/ Fails(c, server) \/ Fails(c, IngestArtifact(a))

ArtifactsDone(c) ==
  /\ flush[c].at = "artifacts" /\ cas \subseteq cursor[c].artifacts
  /\ Step(c, "metrics")
  /\ UNCHANGED <<spool, cursor, saved, server, watch, breaks>>

\* flush_metrics in one step; a server that dies may keep half a line.
ShipMetrics(c) ==
  /\ flush[c].at = "metrics"
  /\ LET all == [server EXCEPT !.size = [r \in Runs |-> 2 * lines[r]]]
     IN \/ /\ server' = all
           /\ Step(c, "beats")
           /\ UNCHANGED <<spool, cursor, saved, watch, breaks>>
        \/ \E r \in Runs, n \in 0 .. 2 * MaxLines :
             /\ server.size[r] <= n /\ n <= 2 * lines[r]
             /\ Fails(c, [server EXCEPT !.size[r] = n])

\* flush_heartbeats: for every open run that ever beat, dead or alive; a post
\* that fails is passed over.
PostHeartbeats(c) ==
  /\ flush[c].at = "beats"
  /\ \E R \in SUBSET {r \in Runs : trainer[r] \in {"alive", "dead"} /\ ~Journaled(r, "close")} :
        server' = IngestHeartbeat(R \cap Followed)
  /\ Clear(c)
  /\ UNCHANGED <<spool, cursor, saved, watch, breaks>>

\* A client starts again from sync_state.json, or from nothing if that is torn.
Restart(c) ==
  /\ breaks < MaxBreaks /\ breaks' = breaks + 1
  /\ \E s \in {saved, NoCursors} : cursor' = [cursor EXCEPT ![c] = s]
  /\ Clear(c)
  /\ UNCHANGED <<spool, saved, server, watch>>

Flush(c) ==
  \/ ReadEvents(c) \/ PostEvents(c)
  \/ \E r \in refs \ cursor[c].refs : AskMissing(c, r)
  \/ PushObjects(c) \/ GitDone(c)
  \/ PutArtifact(c) \/ ArtifactsDone(c)
  \/ ShipMetrics(c) \/ PostHeartbeats(c)

-----------------------------------------------------------------------------
\* The server on its own.

\* The server's janitor, when no heartbeat of an open run has come through for
\* the TTL: flushes may have failed that long, or the run may be dead.
ServerJanitor(r) ==
  /\ ServerOpen(r)
  /\ server' = [server EXCEPT !.abandoned = @ \cup {r}]
  /\ UNCHANGED <<spool, cursor, saved, flush, watch, breaks>>

\* stream and `mlp tail` of run 1: the whole lines there are, then the status.
StreamRead ==
  /\ watch.at = "read"
  /\ LET whole == 2 * (server.size[1] \div 2)
     IN watch' = [at |-> "look", pos |-> whole, got |-> whole # watch.pos]
  /\ UNCHANGED <<spool, cursor, saved, flush, server, breaks>>

\* Mutant: the stream ends on new lines instead of on none.
StreamLookSwapped ==
  /\ watch.at = "look" /\ \E i \in server.events : journal[i] = [kind |-> "start", run |-> 1]
  /\ watch' = [watch EXCEPT !.at = IF ServerOpen(1) \/ ~watch.got THEN "read" ELSE "over"]
  /\ UNCHANGED <<spool, cursor, saved, flush, server, breaks>>

StreamLook ==
  /\ watch.at = "look" /\ \E i \in server.events : journal[i] = [kind |-> "start", run |-> 1]
  /\ watch' = [watch EXCEPT !.at = IF ServerOpen(1) \/ watch.got THEN "read" ELSE "over"]
  /\ UNCHANGED <<spool, cursor, saved, flush, server, breaks>>

Stream   == StreamRead \/ StreamLook
OnServer == Followed # {} /\ (ServerJanitor(1) \/ Stream)

OnTheSpool ==
  \/ \E r \in Runs : Commit(r) \/ Start(r) \/ LogMetric(r) \/ Finish(r) \/ Perish(r) \/ Janitor(r)
  \/ \E a \in Artifacts, torn \in BOOLEAN : LogArtifact(a, torn)

Next == OnTheSpool \/ OnServer \/ \E c \in Clients : Flush(c) \/ Restart(c)

Spec == Init /\ [][Next]_vars

\* Some client flushes again and again, the spool's janitor runs now and then,
\* and so does the stream's loop.
FairSpec ==
  /\ Spec
  /\ \A c \in Clients : WF_vars(Flush(c))
  /\ \A r \in Runs : WF_vars(Janitor(r))
  /\ Followed # {} => WF_vars(Stream)

-----------------------------------------------------------------------------
\* A cursor, in any client's memory or on disk, is never ahead of the server:
\* a crash or a lost reply can cause a re-send, never a loss (sync.py:6-9).
\* An upload of a truncated artifact is what may unlink another one.
AckedIsThere ==
  \A s \in {saved} \cup {cursor[c] : c \in Clients} :
    /\ 1 .. s.events \subseteq server.events
    /\ s.refs \subseteq server.refs
    /\ broken = {} => s.artifacts \subseteq server.artifacts

\* The server's events are a copy of the journal that grows with it: never a
\* later event without the earlier ones, whichever client ships which batch;
\* none is lost again, and the cursor on disk stays behind (sync.py:1-9).
Arrived == [i \in 1 .. Cardinality(server.events) |->
              IF i \in server.events THEN journal[i] ELSE [kind |-> "gap", run |-> 0]]
Copied == INSTANCE CopiedFile WITH
            Units <- Events, file <- journal, copy <- Arrived, acked <- saved.events
IsCopiedFile == Copied!Spec

\* A ref on the server names a commit that can be checked out in full, down to
\* the trees of its parents, however many pushes died midway.
RefsComplete == \A r \in server.refs : Reachable(r) \subseteq server.objects

\* What the spool has reaches the server, for good: events and code even when
\* an artifact is refused in every flush, artifacts and metrics when none is.
Arrives ==
  /\ <>[](/\ server.events = DOMAIN journal /\ server.refs = refs)
  /\ <>[](broken = {} => server.artifacts = cas /\ \A r \in Runs : server.size[r] = 2 * lines[r])

\* The death of a training process, of which the server only hears that it
\* still beats, closes the run there too, and ends the streams that follow it.
DeathEndsStream == trainer[1] = "dead" ~> (~ServerOpen(1) /\ watch.at = "over")
=============================================================================
