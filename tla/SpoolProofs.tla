---------------------------- MODULE SpoolProofs ----------------------------
(***************************************************************************)
(* Proofs about SpoolSync, for any number of clients, runs, events and     *)
(* failed requests: whatever a flush leaves behind on the server is sound  *)
(* (Sound), so that no cursor is ever ahead of it (AckedIsThere), its      *)
(* events are always a prefix of the journal (ServerIsPrefix) and a copied *)
(* file (IsCopiedFile), and no ref on it names a commit with objects       *)
(* missing (RefsComplete).                                                 *)
(***************************************************************************)
EXTENDS SpoolSync, WellFoundedInduction, FiniteSetTheorems, SequenceTheorems, TLAPS

-----------------------------------------------------------------------------
\* The invariant behind the safety properties.

\* The server's events are a prefix of what the spool has.
Prefix == Len(journal) <= MaxEvents /\ \E n \in 0 .. Len(journal) : server.events = 1 .. n

\* What a flush has in hand: a batch that continues the server's events, or
\* all that the server's repository lacked of a run's commit.
InHand(c) ==
  /\ flush[c].at = "post" => /\ flush[c].pos < flush[c].upto /\ flush[c].upto <= Len(journal)
                             /\ 1 .. flush[c].pos \subseteq server.events
  /\ flush[c].at = "push" => /\ flush[c].run \in Runs
                             /\ Reachable(flush[c].run) \subseteq server.objects \cup flush[c].want

IInv == TypeOK /\ Prefix /\ AckedIsThere /\ RefsComplete /\ \A c \in Clients : InHand(c)

-----------------------------------------------------------------------------
Stages == {"idle", "events", "post", "git", "push", "artifacts", "metrics", "beats"}
Hands  == [at : Stages, pos : Nat, upto : Nat, run : 0 .. MaxRuns, want : SUBSET Objects]
Held   == [events : SUBSET (1 .. MaxEvents), objects : SUBSET Objects, refs : SUBSET Runs,
           artifacts : SUBSET Artifacts, size : [Runs -> 0 .. 2 * MaxLines],
           beats : SUBSET Runs, abandoned : SUBSET Runs]

\* What a client may write to its cursors while the server holds s.
Backed(k, s) ==
  /\ 1 .. k.events \subseteq s.events
  /\ k.refs \subseteq s.refs
  /\ broken = {} => k.artifacts \subseteq s.artifacts

\* What the server may hold next: it loses nothing that was acknowledged, its
\* events are still a prefix, and its refs are complete.
Sound(s) ==
  /\ s \in Held
  /\ \E n \in 0 .. Len(journal) : s.events = 1 .. n
  /\ \A r \in s.refs : Reachable(r) \subseteq s.objects
  /\ server.events \subseteq s.events
  /\ server.objects \subseteq s.objects
  /\ server.refs \subseteq s.refs
  /\ broken = {} => server.artifacts \subseteq s.artifacts

\* What the flush of a client is in the middle of, had the server s.
HandOK(f, s) ==
  /\ f.at = "post" => /\ f.pos < f.upto /\ f.upto <= Len(journal)
                      /\ 1 .. f.pos \subseteq s.events
  /\ f.at = "push" => /\ f.run \in Runs
                      /\ Reachable(f.run) \subseteq s.objects \cup f.want

-----------------------------------------------------------------------------
\* Operators.

\* Every non-empty set of naturals has a least element.
LEMMA LeastElement ==
  ASSUME NEW S \in SUBSET Nat, S # {}
  PROVE  \E x \in S : \A y \in S : x <= y
<1> DEFINE R == OpToRel(<, Nat)
<1>1. PICK x \in S : \A y \in S : <<y, x>> \notin R
  <2>1. IsWellFoundedOn(R, Nat)
    BY NatLessThanWellFounded
  <2> HIDE DEF R
  <2>2. QED
    BY <2>1, WFMin
<1>2. \A y \in S : ~(y < x)
  BY <1>1 DEF OpToRel
<1>3. QED
  BY <1>2

\* The least of a set of naturals is in it, and is least.
LEMMA MinIsLeast ==
  ASSUME NEW S \in SUBSET Nat, S # {}
  PROVE  Min(S) \in S /\ \A y \in S : Min(S) <= y
  BY LeastElement DEF Min

LEMMA Sizes == /\ MaxRuns \in Nat /\ MaxEvents \in Nat /\ MaxLines \in Nat /\ MaxArtifacts \in Nat
               /\ EventBatch \in Nat /\ EventBatch > 0
               /\ Followed \subseteq Runs /\ Followed \subseteq {1}
  BY SpoolAssumption DEF Runs

\* A batch ends past the position it starts from, and within what was read.
LEMMA BatchEndBounds ==
  ASSUME TypeOK, NEW c \in Clients, flush[c].pos < flush[c].upto
  PROVE  /\ BatchEnd(c) \in Nat
         /\ flush[c].pos < BatchEnd(c) /\ BatchEnd(c) <= flush[c].upto
<1>1. flush[c].pos \in Nat /\ flush[c].upto \in Nat
  BY DEF TypeOK
<1> DEFINE S == {flush[c].pos + EventBatch, flush[c].upto}
<1>2. S \in SUBSET Nat /\ S # {}
  BY <1>1, Sizes
<1>3. BatchEnd(c) \in S /\ \A y \in S : BatchEnd(c) <= y
  BY <1>2, MinIsLeast DEF BatchEnd
<1>4. QED
  BY <1>1, <1>3, Sizes

\* A batch that starts within a prefix, or right after it, continues it.
LEMMA OneInterval ==
  ASSUME NEW n \in Nat, NEW p \in Nat, NEW k \in Nat, p <= n, n <= k
  PROVE  (1 .. n) \cup ((p + 1) .. k) = 1 .. k
<1>1. ASSUME NEW i \in 1 .. k PROVE i \in (1 .. n) \cup ((p + 1) .. k)
  <2>1. i <= n \/ p + 1 <= i
    BY <1>1
  <2>2. QED
    BY <1>1, <2>1
<1>2. (1 .. n) \subseteq 1 .. k /\ ((p + 1) .. k) \subseteq 1 .. k
  OBVIOUS
<1>3. QED
  BY <1>1, <1>2

\* A run's objects are objects.
LEMMA ReachableObjects ==
  ASSUME NEW r \in Runs
  PROVE  Reachable(r) \subseteq Objects
  BY Sizes DEF Reachable, Objects, Runs

\* The invariant in the terms of this module.
LEMMA Restated ==
  /\ AckedIsThere <=> Backed(saved, server) /\ \A c \in Clients : Backed(cursor[c], server)
  /\ \A c \in Clients : InHand(c) <=> HandOK(flush[c], server)
  BY DEF AckedIsThere, Backed, InHand, HandOK

LEMMA RestatedNext ==
  /\ AckedIsThere' <=> Backed(saved, server)' /\ \A c \in Clients : Backed(cursor[c], server)'
  /\ \A c \in Clients : InHand(c)' <=> HandOK(flush[c], server)'
  BY DEF AckedIsThere, Backed, InHand, HandOK

LEMMA TypeParts ==
  ASSUME TypeOK
  PROVE  /\ flush \in [Clients -> Hands] /\ server \in Held
         /\ cursor \in [Clients -> Cursors] /\ saved \in Cursors
         /\ journal \in Seq(Events)
  BY DEF TypeOK, Hands, Stages, Held

\* What a client takes in hand, field by field.
LEMMA PostHand ==
  ASSUME NEW p, NEW u
  PROVE  [Resting EXCEPT !.at = "post", !.pos = p, !.upto = u]
           = [at |-> "post", pos |-> p, upto |-> u, run |-> 0, want |-> {}]
<1> DEFINE a == [Resting EXCEPT !.at = "post"]
           b == [a EXCEPT !.pos = p]
<1>1. a = [at |-> "post", pos |-> 0, upto |-> 0, run |-> 0, want |-> {}]
  BY DEF Resting
<1> HIDE DEF a
<1>2. b = [at |-> "post", pos |-> p, upto |-> 0, run |-> 0, want |-> {}]
  BY <1>1
<1> HIDE DEF b
<1>3. [b EXCEPT !.upto = u] = [at |-> "post", pos |-> p, upto |-> u, run |-> 0, want |-> {}]
  BY <1>2
<1>4. [Resting EXCEPT !.at = "post", !.pos = p, !.upto = u] = [b EXCEPT !.upto = u]
  BY Zenon DEF a, b
<1>5. QED
  BY <1>3, <1>4, Zenon

LEMMA PushHand ==
  ASSUME NEW r, NEW W
  PROVE  [Resting EXCEPT !.at = "push", !.run = r, !.want = W]
           = [at |-> "push", pos |-> 0, upto |-> 0, run |-> r, want |-> W]
<1> DEFINE a == [Resting EXCEPT !.at = "push"]
           b == [a EXCEPT !.run = r]
<1>1. a = [at |-> "push", pos |-> 0, upto |-> 0, run |-> 0, want |-> {}]
  BY DEF Resting
<1> HIDE DEF a
<1>2. b = [at |-> "push", pos |-> 0, upto |-> 0, run |-> r, want |-> {}]
  BY <1>1
<1> HIDE DEF b
<1>3. [b EXCEPT !.want = W] = [at |-> "push", pos |-> 0, upto |-> 0, run |-> r, want |-> W]
  BY <1>2
<1>4. [Resting EXCEPT !.at = "push", !.run = r, !.want = W] = [b EXCEPT !.want = W]
  BY Zenon DEF a, b
<1>5. QED
  BY <1>3, <1>4, Zenon

-----------------------------------------------------------------------------
\* Steps of a flush.

\* A client goes to rest at a stage: it has nothing in hand.
LEMMA StepRests ==
  ASSUME TypeOK, NEW c \in Clients, NEW at \in Stages, Step(c, at)
  PROVE  /\ flush' \in [Clients -> Hands]
         /\ flush'[c].at = at
         /\ \A d \in Clients \ {c} : flush'[d] = flush[d]
<1>1. [Resting EXCEPT !.at = at] \in Hands /\ [Resting EXCEPT !.at = at].at = at
  BY Sizes DEF Resting, Hands
<1>2. QED
  BY <1>1, TypeParts DEF Step

\* A client's cursors move.
LEMMA AdvanceTyped ==
  ASSUME TypeOK, NEW c \in Clients, NEW new \in Cursors, Advance(c, new)
  PROVE  /\ cursor' \in [Clients -> Cursors] /\ saved' \in Cursors
         /\ saved' = new /\ cursor'[c] = new
         /\ \A d \in Clients \ {c} : cursor'[d] = cursor[d]
  BY TypeParts DEF Advance

\* What was backed by the server is backed by whatever it may hold next.
LEMMA BackedStays ==
  ASSUME NEW s, Sound(s), NEW k, Backed(k, server)
  PROVE  Backed(k, s)
  BY DEF Sound, Backed

LEMMA HandStays ==
  ASSUME NEW s, Sound(s), NEW f, HandOK(f, server)
  PROVE  HandOK(f, s)
  BY DEF Sound, HandOK

\* The server may stay as it is.
LEMMA SoundNow ==
  ASSUME IInv
  PROVE  Sound(server)
  BY TypeParts DEF IInv, Sound, Prefix, RefsComplete

\* A step of a client or of the server, put together: the server is sound, the
\* cursors are backed, and each client's hand is old, empty or in order.
LEMMA FlushStep ==
  ASSUME IInv, Sound(server'), spool' = spool, watch' = watch,
         cursor' \in [Clients -> Cursors], saved' \in Cursors, flush' \in [Clients -> Hands],
         Backed(saved', server'), \A c \in Clients : Backed(cursor'[c], server'),
         \A c \in Clients : HandOK(flush'[c], server')
  PROVE  IInv'
<1>1. /\ journal' = journal /\ trainer' = trainer /\ lines' = lines
      /\ refs' = refs /\ cas' = cas /\ broken' = broken
  BY DEF spool
<1>2. TypeOK'
  BY <1>1 DEF IInv, TypeOK, Sound, Held, Hands, Stages
<1>3. Prefix'
  BY <1>1 DEF IInv, Prefix, Sound
<1>4. RefsComplete'
  BY DEF Sound, RefsComplete
<1>5. AckedIsThere'
  BY <1>1, RestatedNext DEF Backed
<1>6. \A c \in Clients : InHand(c)'
  BY <1>1, RestatedNext DEF HandOK
<1>7. QED
  BY <1>2, <1>3, <1>4, <1>5, <1>6 DEF IInv

\* A step of a flush that moves no cursor and leaves the hand h.
LEMMA HandStep ==
  ASSUME IInv, Sound(server'), spool' = spool, watch' = watch,
         cursor' = cursor, saved' = saved,
         NEW c \in Clients, flush' \in [Clients -> Hands],
         \A d \in Clients \ {c} : flush'[d] = flush[d],
         HandOK(flush'[c], server')
  PROVE  IInv'
<1>1. AckedIsThere /\ \A d \in Clients : InHand(d)
  BY DEF IInv
<1>2. Backed(saved', server') /\ \A d \in Clients : Backed(cursor'[d], server')
  BY <1>1, Restated, BackedStays
<1>3. \A d \in Clients : HandOK(flush'[d], server')
  BY <1>1, Restated, HandStays
<1>4. cursor' \in [Clients -> Cursors] /\ saved' \in Cursors
  BY TypeParts DEF IInv
<1>5. QED
  BY <1>2, <1>3, <1>4, FlushStep

LEMMA RestStep ==
  ASSUME IInv, Sound(server'), spool' = spool, watch' = watch,
         cursor' = cursor, saved' = saved,
         NEW c \in Clients, NEW at \in Stages \ {"post", "push"}, Step(c, at)
  PROVE  IInv'
<1>1. /\ flush' \in [Clients -> Hands] /\ flush'[c].at = at
      /\ \A d \in Clients \ {c} : flush'[d] = flush[d]
  BY StepRests DEF IInv
<1>2. HandOK(flush'[c], server')
  BY <1>1 DEF HandOK
<1>3. QED
  BY <1>1, <1>2, HandStep

\* A request fails, with the server left sound.
LEMMA FailsSound ==
  ASSUME IInv, NEW c \in Clients, NEW left, Sound(left), Fails(c, left)
  PROVE  IInv'
<1>1. "idle" \in Stages \ {"post", "push"}
  BY DEF Stages
<1>2. /\ server' = left /\ Step(c, "idle") /\ spool' = spool /\ watch' = watch
      /\ cursor' = cursor /\ saved' = saved
  BY DEF Fails, Clear
<1>3. QED
  BY <1>1, <1>2, RestStep

\* A step that saves cursors backed by the server, and leaves an empty hand.
LEMMA AdvanceStep ==
  ASSUME IInv, Sound(server'), spool' = spool, watch' = watch,
         NEW c \in Clients, NEW new \in Cursors, Advance(c, new), Backed(new, server'),
         flush' \in [Clients -> Hands],
         \A d \in Clients \ {c} : flush'[d] = flush[d],
         HandOK(flush'[c], server')
  PROVE  IInv'
<1>1. AckedIsThere /\ \A d \in Clients : InHand(d)
  BY DEF IInv
<1>2. /\ cursor' \in [Clients -> Cursors] /\ saved' \in Cursors
      /\ saved' = new /\ cursor'[c] = new
      /\ \A d \in Clients \ {c} : cursor'[d] = cursor[d]
  BY AdvanceTyped DEF IInv
<1>3. Backed(saved', server') /\ \A d \in Clients : Backed(cursor'[d], server')
  BY <1>1, <1>2, Restated, BackedStays
<1>4. \A d \in Clients : HandOK(flush'[d], server')
  BY <1>1, Restated, HandStays
<1>5. QED
  BY <1>2, <1>3, <1>4, FlushStep

-----------------------------------------------------------------------------
\* The endpoints leave the server sound.

\* A batch, or the part of it that a dying server stored, that continues what
\* the server has.
LEMMA IngestEventsSound ==
  ASSUME IInv, NEW p \in Nat, NEW k \in Nat, p <= k, k <= Len(journal), 1 .. p \subseteq server.events
  PROVE  /\ Sound(IngestEvents(p + 1, k)) /\ 1 .. k \subseteq IngestEvents(p + 1, k).events
<1> DEFINE s == IngestEvents(p + 1, k)
<1>1. PICK n \in 0 .. Len(journal) : server.events = 1 .. n
  BY DEF IInv, Prefix
<1>2. Len(journal) \in Nat /\ Len(journal) <= MaxEvents
  BY TypeParts DEF IInv, Prefix
<1>3. server \in Held /\ Sound(server)
  BY TypeParts, SoundNow DEF IInv
<1>4. s.events = server.events \cup ((p + 1) .. k)
  BY <1>3 DEF IngestEvents, Held
<1>5. /\ s.objects = server.objects /\ s.refs = server.refs /\ s.artifacts = server.artifacts
  BY <1>3 DEF IngestEvents, Held
<1>6. \E m \in 0 .. Len(journal) : s.events = 1 .. m
  <2>1. p <= n
    BY <1>1, <1>2
  <2>2. CASE n <= k
    <3>1. (1 .. n) \cup ((p + 1) .. k) = 1 .. k
      BY <1>1, <1>2, <2>1, <2>2, OneInterval
    <3>2. k \in 0 .. Len(journal)
      BY <1>2
    <3>3. QED
      BY <1>1, <1>4, <3>1, <3>2
  <2>3. CASE k < n
    <3>1. (p + 1) .. k \subseteq 1 .. n
      BY <1>1, <1>2, <2>3
    <3>2. QED
      BY <1>1, <1>4, <3>1
  <2>4. QED
    BY <1>1, <1>2, <2>2, <2>3
<1>7. 1 .. k \subseteq s.events
  BY <1>1, <1>2, <1>4
<1>8. s \in Held
  <2>1. s.events \in SUBSET (1 .. MaxEvents)
    BY <1>2, <1>6, Sizes
  <2>2. s = [server EXCEPT !.events = s.events]
    BY <1>3, <1>4 DEF IngestEvents, Held
  <2>3. QED
    BY <1>3, <2>1, <2>2 DEF Held
<1>9. QED
  BY <1>3, <1>4, <1>5, <1>6, <1>7, <1>8 DEF Sound

\* Objects may be added at any time.
LEMMA ImportObjectsSound ==
  ASSUME IInv, NEW S \in SUBSET Objects
  PROVE  Sound(ImportObjects(S))
<1>1. Sound(server) /\ server \in Held
  BY SoundNow DEF Sound
<1>2. /\ ImportObjects(S) \in Held
      /\ ImportObjects(S).objects = server.objects \cup S
      /\ ImportObjects(S).events = server.events /\ ImportObjects(S).refs = server.refs
      /\ ImportObjects(S).artifacts = server.artifacts
  BY <1>1 DEF ImportObjects, Held
<1>3. QED
  BY <1>1, <1>2 DEF Sound

\* A ref is set once the objects it lacked are in.
LEMMA IngestGitSound ==
  ASSUME IInv, NEW r \in Runs, NEW S \in SUBSET Objects,
         Reachable(r) \subseteq server.objects \cup S
  PROVE  Sound(IngestGit(r, S)) /\ r \in IngestGit(r, S).refs
<1> DEFINE i == ImportObjects(S)
<1>1. Sound(i) /\ i \in Held
  BY ImportObjectsSound DEF Sound
<1>2. /\ i.objects = server.objects \cup S /\ i.refs = server.refs
  BY SoundNow DEF Sound, Held, ImportObjects
<1>3. IngestGit(r, S) = [i EXCEPT !.refs = @ \cup {r}]
  BY DEF IngestGit
<1> HIDE DEF i
<1>4. /\ IngestGit(r, S) \in Held
      /\ IngestGit(r, S).objects = i.objects /\ IngestGit(r, S).events = i.events
      /\ IngestGit(r, S).refs = i.refs \cup {r} /\ IngestGit(r, S).artifacts = i.artifacts
  BY <1>1, <1>3 DEF Held
<1>5. \A q \in IngestGit(r, S).refs : Reachable(q) \subseteq IngestGit(r, S).objects
  BY <1>1, <1>2, <1>4 DEF Sound
<1>6. QED
  BY <1>1, <1>4, <1>5 DEF Sound

\* An upload takes an artifact away only when some artifact is truncated; and
\* what it accepts is there.
LEMMA IngestArtifactSound ==
  ASSUME IInv, NEW a \in Artifacts, a \in broken => broken # {}
  PROVE  /\ Sound(IngestArtifact(a))
         /\ Accepted(a) => a \in IngestArtifact(a).artifacts
<1>1. Sound(server) /\ server \in Held
  BY SoundNow DEF Sound
<1> DEFINE A == IF a \in server.artifacts THEN server.artifacts
                ELSE IF a \in broken THEN server.artifacts \ {1} ELSE server.artifacts \cup {a}
<1>2. A \in SUBSET Artifacts /\ (broken = {} => server.artifacts \subseteq A)
  BY <1>1 DEF Held
<1>3. IngestArtifact(a) = [server EXCEPT !.artifacts = A]
  BY <1>1 DEF IngestArtifact, Held
<1>4. Accepted(a) => a \in A
  BY DEF Accepted
<1> HIDE DEF A
<1>5. /\ IngestArtifact(a) \in Held
      /\ IngestArtifact(a).objects = server.objects /\ IngestArtifact(a).events = server.events
      /\ IngestArtifact(a).refs = server.refs /\ IngestArtifact(a).artifacts = A
  BY <1>1, <1>2, <1>3 DEF Held
<1>6. QED
  BY <1>1, <1>2, <1>4, <1>5 DEF Sound

\* Whatever happens to sizes, heartbeats and abandoned runs is sound.
LEMMA RestOfServerSound ==
  ASSUME IInv, NEW s \in Held,
         s.events = server.events, s.objects = server.objects,
         s.refs = server.refs, s.artifacts = server.artifacts
  PROVE  Sound(s)
  BY SoundNow DEF Sound

-----------------------------------------------------------------------------
\* The stages of a flush, one by one.

LEMMA ReadEventsKeeps ==
  ASSUME IInv, NEW c \in Clients, ReadEvents(c)
  PROVE  IInv'
<1>1. /\ spool' = spool /\ watch' = watch /\ cursor' = cursor /\ saved' = saved
      /\ server' = server /\ Sound(server')
  BY SoundNow DEF ReadEvents
<1>2. CASE Len(journal) = cursor[c].events
  <2>1. "git" \in Stages \ {"post", "push"} /\ Step(c, "git")
    BY <1>2 DEF ReadEvents, Stages
  <2>2. QED
    BY <1>1, <2>1, RestStep
<1>3. CASE Len(journal) # cursor[c].events
  <2> DEFINE h == [Resting EXCEPT !.at = "post", !.pos = cursor[c].events, !.upto = Len(journal)]
  <2>1. cursor[c] \in Cursors /\ cursor[c].events \in Nat /\ Len(journal) \in Nat
    BY TypeParts DEF IInv, Cursors
  <2>2. h = [at |-> "post", pos |-> cursor[c].events, upto |-> Len(journal), run |-> 0, want |-> {}]
    BY PostHand
  <2>3. h \in Hands
    <3>1. "post" \in Stages /\ 0 \in 0 .. MaxRuns /\ {} \in SUBSET Objects
      BY Sizes DEF Stages
    <3> HIDE DEF h
    <3>2. QED
      BY <2>1, <2>2, <3>1 DEF Hands
  <2>4. flush' = [flush EXCEPT ![c] = h]
    BY <1>3 DEF ReadEvents
  <2>5. 1 .. cursor[c].events \subseteq server.events
    BY Restated DEF IInv, Backed
  <2>6. cursor[c].events < Len(journal)
    <3>1. PICK n \in 0 .. Len(journal) : server.events = 1 .. n
      BY DEF IInv, Prefix
    <3>2. cursor[c].events <= n
      BY <2>1, <2>5, <3>1
    <3>3. QED
      BY <1>3, <2>1, <3>1, <3>2
  <2>7. HandOK(h, server')
    BY <1>1, <2>1, <2>2, <2>5, <2>6 DEF HandOK
  <2> HIDE DEF h
  <2>8. flush' \in [Clients -> Hands] /\ flush'[c] = h /\ \A d \in Clients \ {c} : flush'[d] = flush[d]
    BY <2>3, <2>4, TypeParts DEF IInv
  <2>9. QED
    BY <1>1, <2>7, <2>8, HandStep
<1>4. QED
  BY <1>2, <1>3

LEMMA PostEventsKeeps ==
  ASSUME IInv, NEW c \in Clients, PostEvents(c)
  PROVE  IInv'
<1> DEFINE p == flush[c].pos
           e == BatchEnd(c)
           u == flush[c].upto
<1>1. /\ flush[c].at = "post" /\ flush[c] \in Hands /\ p \in Nat /\ u \in Nat
      /\ p < u /\ u <= Len(journal) /\ 1 .. p \subseteq server.events
  BY TypeParts DEF IInv, PostEvents, InHand, Hands
<1>2. e \in Nat /\ p < e /\ e <= u
  BY <1>1, BatchEndBounds DEF IInv
<1>3. Len(journal) \in Nat
  BY TypeParts DEF IInv
<1> HIDE DEF e
<1>4. ASSUME NEW k \in p .. e, Fails(c, IngestEvents(p + 1, k))
      PROVE  IInv'
  <2>1. k \in Nat /\ p <= k /\ k <= Len(journal)
    BY <1>1, <1>2, <1>3
  <2>2. Sound(IngestEvents(p + 1, k))
    BY <1>1, <2>1, IngestEventsSound
  <2>3. QED
    BY <1>4, <2>2, FailsSound
<1>5. ASSUME server' = IngestEvents(p + 1, e), spool' = spool, watch' = watch,
             IF e = u
             THEN Step(c, "events") /\ Advance(c, [cursor[c] EXCEPT !.events = u])
             ELSE flush' = [flush EXCEPT ![c].pos = e] /\ cursor' = cursor /\ saved' = saved
      PROVE  IInv'
  <2>1. p <= e /\ e <= Len(journal)
    BY <1>1, <1>2, <1>3
  <2>2. Sound(server') /\ 1 .. e \subseteq server'.events
    BY <1>1, <1>2, <1>5, <2>1, IngestEventsSound
  <2>3. CASE e = u
    <3> DEFINE new == [cursor[c] EXCEPT !.events = u]
    <3>1. cursor[c] \in Cursors /\ Backed(cursor[c], server')
      BY <2>2, TypeParts, Restated, BackedStays DEF IInv
    <3>2. new \in Cursors /\ new.events = u /\ new.refs = cursor[c].refs /\ new.artifacts = cursor[c].artifacts
      BY <1>1, <3>1 DEF Cursors
    <3>3. Backed(new, server')
      BY <2>2, <2>3, <3>1, <3>2 DEF Backed
    <3>4. Step(c, "events") /\ Advance(c, new) /\ "events" \in Stages
      BY <1>5, <2>3 DEF Stages
    <3> HIDE DEF new
    <3>5. /\ flush' \in [Clients -> Hands] /\ flush'[c].at = "events"
          /\ \A d \in Clients \ {c} : flush'[d] = flush[d]
      BY <3>4, StepRests DEF IInv
    <3>6. HandOK(flush'[c], server')
      BY <3>5 DEF HandOK
    <3>7. QED
      BY <1>5, <2>2, <3>2, <3>3, <3>4, <3>5, <3>6, AdvanceStep
  <2>4. CASE e # u
    <3>1. flush' = [flush EXCEPT ![c].pos = e] /\ cursor' = cursor /\ saved' = saved
      BY <1>5, <2>4
    <3>2. [flush[c] EXCEPT !.pos = e] \in Hands
      BY <1>1, <1>2 DEF Hands
    <3>3. /\ flush' \in [Clients -> Hands] /\ flush'[c] = [flush[c] EXCEPT !.pos = e]
          /\ \A d \in Clients \ {c} : flush'[d] = flush[d]
      BY <3>1, <3>2, TypeParts DEF IInv
    <3>4. flush'[c].at = "post" /\ flush'[c].pos = e /\ flush'[c].upto = u
      BY <1>1, <3>3 DEF Hands
    <3>5. HandOK(flush'[c], server')
      BY <1>1, <1>2, <2>2, <2>4, <3>4 DEF HandOK
    <3>6. QED
      BY <1>5, <2>2, <3>1, <3>3, <3>5, HandStep
  <2>5. QED
    BY <2>3, <2>4
<1>6. QED
  BY <1>4, <1>5 DEF PostEvents, e

LEMMA AskMissingKeeps ==
  ASSUME IInv, NEW c \in Clients, NEW r \in refs, AskMissing(c, r)
  PROVE  IInv'
<1>1. CASE Fails(c, server)
  BY <1>1, SoundNow, FailsSound
<1>2. CASE ~Fails(c, server)
  <2> DEFINE W == Missing(Reachable(r))
             h == [Resting EXCEPT !.at = "push", !.run = r, !.want = W]
  <2>1. r \in Runs /\ r \in 0 .. MaxRuns
    BY Sizes DEF IInv, TypeOK, Runs
  <2>2. W \in SUBSET Objects /\ Reachable(r) \subseteq server.objects \cup W
    BY <2>1, ReachableObjects DEF Missing
  <2>3. flush' = [flush EXCEPT ![c] = h]
    BY <1>2 DEF AskMissing
  <2> HIDE DEF W
  <2>4. h = [at |-> "push", pos |-> 0, upto |-> 0, run |-> r, want |-> W]
    BY PushHand
  <2>5. /\ spool' = spool /\ watch' = watch /\ cursor' = cursor /\ saved' = saved
        /\ server' = server /\ Sound(server')
    BY <1>2, SoundNow DEF AskMissing
  <2> HIDE DEF h
  <2>6. h \in Hands
    <3>1. "push" \in Stages
      BY DEF Stages
    <3>2. QED
      BY <2>1, <2>2, <2>4, <3>1 DEF Hands
  <2>7. HandOK(h, server')
    BY <2>1, <2>2, <2>4, <2>5 DEF HandOK
  <2>8. flush' \in [Clients -> Hands] /\ flush'[c] = h /\ \A d \in Clients \ {c} : flush'[d] = flush[d]
    BY <2>3, <2>6, TypeParts DEF IInv
  <2>9. QED
    BY <2>5, <2>7, <2>8, HandStep
<1>3. QED
  BY <1>1, <1>2

LEMMA PushObjectsKeeps ==
  ASSUME IInv, NEW c \in Clients, PushObjects(c)
  PROVE  IInv'
<1> DEFINE r == flush[c].run
           W == flush[c].want
<1>1. /\ flush[c].at = "push" /\ r \in Runs /\ W \in SUBSET Objects
      /\ Reachable(r) \subseteq server.objects \cup W
  BY TypeParts DEF IInv, PushObjects, InHand, Hands
<1>2. Sound(IngestGit(r, W)) /\ r \in IngestGit(r, W).refs
  BY <1>1, IngestGitSound
<1>3. CASE Fails(c, IngestGit(r, W))
  BY <1>2, <1>3, FailsSound
<1>4. ASSUME NEW S \in SUBSET W, Fails(c, ImportObjects(S))
      PROVE  IInv'
  <2>1. S \in SUBSET Objects
    BY <1>1
  <2>2. Sound(ImportObjects(S))
    BY <2>1, ImportObjectsSound
  <2>3. QED
    BY <1>4, <2>2, FailsSound
<1>5. ASSUME server' = IngestGit(r, W),
             Advance(c, [cursor[c] EXCEPT !.refs = @ \cup {r}]),
             Step(c, "git"), spool' = spool, watch' = watch
      PROVE  IInv'
  <2> DEFINE new == [cursor[c] EXCEPT !.refs = @ \cup {r}]
  <2>1. cursor[c] \in Cursors
    BY TypeParts DEF IInv
  <2>2. /\ new \in Cursors /\ new.events = cursor[c].events
        /\ new.refs = cursor[c].refs \cup {r} /\ new.artifacts = cursor[c].artifacts
    BY <1>1, <2>1 DEF Cursors
  <2>3. Backed(cursor[c], server')
    BY <1>2, <1>5, Restated, BackedStays DEF IInv
  <2>4. Backed(new, server')
    BY <1>2, <1>5, <2>2, <2>3 DEF Backed
  <2>5. Advance(c, new)
    BY <1>5
  <2> HIDE DEF new
  <2>6. /\ flush' \in [Clients -> Hands] /\ flush'[c].at = "git"
        /\ \A d \in Clients \ {c} : flush'[d] = flush[d]
    <3>1. "git" \in Stages
      BY DEF Stages
    <3>2. QED
      BY <1>5, <3>1, StepRests DEF IInv
  <2>7. HandOK(flush'[c], server')
    BY <2>6 DEF HandOK
  <2>8. QED
    BY <1>2, <1>5, <2>2, <2>4, <2>5, <2>6, <2>7, AdvanceStep
<1>6. QED
  BY <1>3, <1>4, <1>5 DEF PushObjects

LEMMA GitDoneKeeps ==
  ASSUME IInv, NEW c \in Clients, GitDone(c)
  PROVE  IInv'
<1>1. "artifacts" \in Stages \ {"post", "push"}
  BY DEF Stages
<1>2. QED
  BY <1>1, SoundNow, RestStep DEF GitDone

LEMMA PutArtifactKeeps ==
  ASSUME IInv, NEW c \in Clients, PutArtifact(c)
  PROVE  IInv'
<1> DEFINE a == Min(cas \ cursor[c].artifacts)
<1>1. a \in Artifacts
  <2> DEFINE S == cas \ cursor[c].artifacts
  <2>1. S \in SUBSET Nat /\ S # {}
    BY Sizes DEF IInv, TypeOK, Artifacts, PutArtifact
  <2>2. a \in S
    BY <2>1, MinIsLeast
  <2>3. QED
    BY <2>2 DEF IInv, TypeOK
<1>2. Sound(IngestArtifact(a)) /\ (Accepted(a) => a \in IngestArtifact(a).artifacts)
  BY <1>1, IngestArtifactSound
<1>3. \/ /\ Accepted(a) /\ server' = IngestArtifact(a)
         /\ Advance(c, [cursor[c] EXCEPT !.artifacts = @ \cup {a}])
         /\ spool' = spool /\ flush' = flush /\ watch' = watch
      \/ /\ server' = IngestArtifact(a) /\ Clear(c)
         /\ spool' = spool /\ cursor' = cursor /\ saved' = saved /\ watch' = watch
      \/ Fails(c, server) \/ Fails(c, IngestArtifact(a))
  BY DEF PutArtifact
<1>4. flush[c].at = "artifacts"
  BY DEF PutArtifact
<1> HIDE DEF a
<1>5. CASE Fails(c, server) \/ Fails(c, IngestArtifact(a))
  BY <1>2, <1>5, SoundNow, FailsSound
<1>6. CASE /\ server' = IngestArtifact(a) /\ Clear(c)
           /\ spool' = spool /\ cursor' = cursor /\ saved' = saved /\ watch' = watch
  <2>1. "idle" \in Stages \ {"post", "push"}
    BY DEF Stages
  <2>2. QED
    BY <1>2, <1>6, <2>1, RestStep DEF Clear
<1>7. CASE /\ Accepted(a) /\ server' = IngestArtifact(a)
           /\ Advance(c, [cursor[c] EXCEPT !.artifacts = @ \cup {a}])
           /\ spool' = spool /\ flush' = flush /\ watch' = watch
  <2> DEFINE new == [cursor[c] EXCEPT !.artifacts = @ \cup {a}]
  <2>1. cursor[c] \in Cursors /\ flush \in [Clients -> Hands]
    BY TypeParts DEF IInv
  <2>2. /\ new \in Cursors /\ new.events = cursor[c].events
        /\ new.artifacts = cursor[c].artifacts \cup {a} /\ new.refs = cursor[c].refs
    BY <1>1, <2>1 DEF Cursors
  <2>3. Backed(cursor[c], server')
    BY <1>2, <1>7, Restated, BackedStays DEF IInv
  <2>4. Backed(new, server')
    <3>1. broken' = broken
      BY <1>7 DEF spool
    <3>2. QED
      BY <1>2, <1>7, <2>2, <2>3 DEF Backed
  <2>5. Advance(c, new)
    BY <1>7
  <2> HIDE DEF new
  <2>6. /\ flush' \in [Clients -> Hands] /\ flush'[c].at = "artifacts"
        /\ \A d \in Clients \ {c} : flush'[d] = flush[d]
    BY <1>4, <1>7, <2>1
  <2>7. HandOK(flush'[c], server')
    BY <2>6 DEF HandOK
  <2>8. QED
    BY <1>2, <1>7, <2>2, <2>4, <2>5, <2>6, <2>7, AdvanceStep
<1>8. QED
  BY <1>3, <1>5, <1>6, <1>7

LEMMA ArtifactsDoneKeeps ==
  ASSUME IInv, NEW c \in Clients, ArtifactsDone(c)
  PROVE  IInv'
<1>1. "metrics" \in Stages \ {"post", "push"}
  BY DEF Stages
<1>2. QED
  BY <1>1, SoundNow, RestStep DEF ArtifactsDone

LEMMA ShipMetricsKeeps ==
  ASSUME IInv, NEW c \in Clients, ShipMetrics(c)
  PROVE  IInv'
<1>1. server \in Held /\ lines \in [Runs -> 0 .. MaxLines]
  BY TypeParts DEF IInv, TypeOK
<1> DEFINE full == [r \in Runs |-> 2 * lines[r]]
<1>2. full \in [Runs -> 0 .. 2 * MaxLines]
  BY <1>1, Sizes
<1>3. CASE /\ server' = [server EXCEPT !.size = full] /\ Step(c, "beats")
           /\ spool' = spool /\ cursor' = cursor /\ saved' = saved /\ watch' = watch
  <2> HIDE DEF full
  <2>1. /\ server' \in Held
        /\ server'.events = server.events /\ server'.objects = server.objects
        /\ server'.refs = server.refs /\ server'.artifacts = server.artifacts
    BY <1>1, <1>2, <1>3 DEF Held
  <2>2. Sound(server') /\ "beats" \in Stages \ {"post", "push"}
    BY <2>1, RestOfServerSound DEF Stages
  <2>3. QED
    BY <1>3, <2>2, RestStep
<1>4. ASSUME NEW r \in Runs, NEW n \in 0 .. 2 * MaxLines,
             Fails(c, [server EXCEPT !.size[r] = n])
      PROVE  IInv'
  <2> DEFINE s == [server EXCEPT !.size[r] = n]
  <2>1. [server.size EXCEPT ![r] = n] \in [Runs -> 0 .. 2 * MaxLines]
    BY <1>1 DEF Held
  <2>2. s = [server EXCEPT !.size = [server.size EXCEPT ![r] = n]]
    OBVIOUS
  <2>3. /\ s \in Held
        /\ s.events = server.events /\ s.objects = server.objects
        /\ s.refs = server.refs /\ s.artifacts = server.artifacts
    BY <1>1, <2>1, <2>2 DEF Held
  <2>4. Sound(s)
    BY <2>3, RestOfServerSound
  <2>5. QED
    BY <1>4, <2>4, FailsSound
<1>5. QED
  BY <1>3, <1>4 DEF ShipMetrics

LEMMA PostHeartbeatsKeeps ==
  ASSUME IInv, NEW c \in Clients, PostHeartbeats(c)
  PROVE  IInv'
<1>1. PICK R \in SUBSET Runs : server' = IngestHeartbeat(R \cap Followed)
  BY DEF PostHeartbeats
<1>2. server \in Held
  BY TypeParts DEF IInv
<1>3. /\ server' \in Held
      /\ server'.events = server.events /\ server'.objects = server.objects
      /\ server'.refs = server.refs /\ server'.artifacts = server.artifacts
  BY <1>1, <1>2 DEF Held, IngestHeartbeat
<1>4. Sound(server') /\ "idle" \in Stages \ {"post", "push"}
  BY <1>3, RestOfServerSound DEF Stages
<1>5. QED
  BY <1>4, RestStep DEF PostHeartbeats, Clear

\* A client that starts again takes cursors that were saved, or none.
LEMMA RestartKeeps ==
  ASSUME IInv, NEW c \in Clients, Restart(c)
  PROVE  IInv'
<1>1. PICK k \in {saved, NoCursors} : cursor' = [cursor EXCEPT ![c] = k]
  BY DEF Restart
<1>2. /\ Step(c, "idle") /\ spool' = spool /\ saved' = saved /\ server' = server /\ watch' = watch
      /\ Sound(server') /\ "idle" \in Stages
  BY SoundNow DEF Restart, Clear, Stages
<1>3. NoCursors \in Cursors /\ Backed(NoCursors, server)
  BY DEF NoCursors, Cursors, Backed
<1>4. /\ Backed(saved, server) /\ \A d \in Clients : Backed(cursor[d], server)
      /\ \A d \in Clients : HandOK(flush[d], server)
  BY Restated DEF IInv
<1>5. k \in Cursors /\ Backed(k, server)
  BY <1>3, <1>4, TypeParts DEF IInv
<1>6. cursor' \in [Clients -> Cursors] /\ saved' \in Cursors
  BY <1>1, <1>2, <1>5, TypeParts DEF IInv
<1>7. Backed(saved', server') /\ \A d \in Clients : Backed(cursor'[d], server')
  <2>1. \A d \in Clients : cursor'[d] = k \/ cursor'[d] = cursor[d]
    BY <1>1, TypeParts DEF IInv
  <2>2. QED
    BY <1>2, <1>4, <1>5, <2>1
<1>8. /\ flush' \in [Clients -> Hands] /\ flush'[c].at = "idle"
      /\ \A d \in Clients \ {c} : flush'[d] = flush[d]
  BY <1>2, StepRests DEF IInv
<1>9. \A d \in Clients : HandOK(flush'[d], server')
  <2>1. HandOK(flush'[c], server')
    BY <1>8 DEF HandOK
  <2>2. QED
    BY <1>2, <1>4, <1>8, <2>1
<1>10. QED
  BY <1>2, <1>6, <1>7, <1>8, <1>9, FlushStep

\* Every step of a flush.
LEMMA FlushKeeps ==
  ASSUME IInv, NEW c \in Clients, Flush(c)
  PROVE  IInv'
  BY ReadEventsKeeps, PostEventsKeeps, AskMissingKeeps, PushObjectsKeeps, GitDoneKeeps,
     PutArtifactKeeps, ArtifactsDoneKeeps, ShipMetricsKeeps, PostHeartbeatsKeeps DEF Flush

-----------------------------------------------------------------------------
\* The spool: whatever a process does there only adds to it.

LEMMA SpoolStep ==
  ASSUME IInv, OnSpool,
         journal' = journal
           \/ (Len(journal) < MaxEvents /\ \E e \in Events : journal' = Append(journal, e)),
         trainer' \in [Runs -> {"none", "ready", "alive", "done", "dead"}],
         lines' \in [Runs -> 0 .. MaxLines],
         refs' \subseteq Runs, broken' \subseteq cas', cas' \subseteq Artifacts,
         broken \subseteq broken'
  PROVE  IInv'
<1>1. /\ cursor' = cursor /\ saved' = saved /\ flush' = flush /\ server' = server /\ watch' = watch
  BY DEF OnSpool
<1>2. journal \in Seq(Events) /\ Len(journal) \in Nat /\ Len(journal) <= MaxEvents
  BY TypeParts DEF IInv, Prefix
<1>3. /\ journal' \in Seq(Events) /\ Len(journal') \in Nat
      /\ Len(journal) <= Len(journal') /\ Len(journal') <= MaxEvents
  <2>1. CASE journal' = journal
    BY <1>2, <2>1
  <2>2. CASE Len(journal) < MaxEvents /\ \E e \in Events : journal' = Append(journal, e)
    <3>1. PICK e \in Events : journal' = Append(journal, e)
      BY <2>2
    <3>2. Len(journal') = Len(journal) + 1 /\ journal' \in Seq(Events)
      BY <1>2, <3>1
    <3>3. QED
      BY <1>2, <2>2, <3>2, Sizes
  <2>3. QED
    BY <2>1, <2>2
<1>4. TypeOK'
  BY <1>1, <1>3 DEF IInv, TypeOK
<1>5. Prefix'
  <2>1. PICK n \in 0 .. Len(journal) : server.events = 1 .. n
    BY DEF IInv, Prefix
  <2>2. n \in 0 .. Len(journal') /\ server'.events = 1 .. n
    BY <1>1, <1>2, <1>3, <2>1
  <2>3. QED
    BY <1>3, <2>2 DEF Prefix
<1>6. AckedIsThere'
  BY <1>1, Restated, RestatedNext DEF IInv, Backed
<1>7. RefsComplete'
  BY <1>1 DEF IInv, RefsComplete
<1>8. \A c \in Clients : InHand(c)'
  <2> TAKE c \in Clients
  <2>1. HandOK(flush[c], server) /\ flush[c] \in Hands
    BY Restated, TypeParts DEF IInv
  <2>2. HandOK(flush[c], server)'
    BY <1>1, <1>2, <1>3, <2>1 DEF HandOK, Hands
  <2>3. QED
    BY <2>2, RestatedNext
<1>9. QED
  BY <1>4, <1>5, <1>6, <1>7, <1>8 DEF IInv

LEMMA OnTheSpoolKeeps ==
  ASSUME IInv, OnTheSpool
  PROVE  IInv'
<1>1. /\ trainer \in [Runs -> {"none", "ready", "alive", "done", "dead"}]
      /\ lines \in [Runs -> 0 .. MaxLines]
      /\ refs \subseteq Runs /\ broken \subseteq cas /\ cas \subseteq Artifacts
  BY DEF IInv, TypeOK
<1>2. ASSUME NEW r \in Runs, Commit(r) PROVE IInv'
  <2>1. [kind |-> "commit", run |-> r] \in Events
    BY DEF Events, Kinds
  <2>2. trainer' \in [Runs -> {"none", "ready", "alive", "done", "dead"}] /\ refs' \subseteq Runs
    BY <1>1, <1>2 DEF Commit
  <2>3. QED
    BY <1>1, <1>2, <2>1, <2>2, SpoolStep DEF Commit, Log
<1>3. ASSUME NEW r \in Runs, Start(r) PROVE IInv'
  <2>1. [kind |-> "start", run |-> r] \in Events
    BY DEF Events, Kinds
  <2>2. trainer' \in [Runs -> {"none", "ready", "alive", "done", "dead"}]
    BY <1>1, <1>3 DEF Start
  <2>3. QED
    BY <1>1, <1>3, <2>1, <2>2, SpoolStep DEF Start, Log
<1>4. ASSUME NEW r \in Runs, LogMetric(r) PROVE IInv'
  <2>1. lines' \in [Runs -> 0 .. MaxLines]
    BY <1>1, <1>4, Sizes DEF LogMetric
  <2>2. QED
    BY <1>1, <1>4, <2>1, SpoolStep DEF LogMetric
<1>5. ASSUME NEW r \in Runs, Finish(r) PROVE IInv'
  <2>1. [kind |-> "close", run |-> r] \in Events
    BY DEF Events, Kinds
  <2>2. trainer' \in [Runs -> {"none", "ready", "alive", "done", "dead"}]
    BY <1>1, <1>5 DEF Finish
  <2>3. QED
    BY <1>1, <1>5, <2>1, <2>2, SpoolStep DEF Finish, Log
<1>6. ASSUME NEW r \in Runs, Perish(r) PROVE IInv'
  <2>1. trainer' \in [Runs -> {"none", "ready", "alive", "done", "dead"}]
    BY <1>1, <1>6 DEF Perish
  <2>2. QED
    BY <1>1, <1>6, <2>1, SpoolStep DEF Perish
<1>7. ASSUME NEW r \in Runs, Janitor(r) PROVE IInv'
  <2>1. [kind |-> "close", run |-> r] \in Events
    BY DEF Events, Kinds
  <2>2. QED
    BY <1>1, <1>7, <2>1, SpoolStep DEF Janitor, Log
<1>8. ASSUME NEW a \in Artifacts, NEW torn \in BOOLEAN, LogArtifact(a, torn) PROVE IInv'
  <2>1. cas' \subseteq Artifacts /\ broken' \subseteq cas' /\ broken \subseteq broken'
    BY <1>1, <1>8 DEF LogArtifact
  <2>2. QED
    BY <1>1, <1>8, <2>1, SpoolStep DEF LogArtifact
<1>9. QED
  BY <1>2, <1>3, <1>4, <1>5, <1>6, <1>7, <1>8 DEF OnTheSpool

-----------------------------------------------------------------------------
\* The server on its own.

\* A stream of the run moves nothing but itself.
LEMMA WatchStep ==
  ASSUME IInv, UNCHANGED <<spool, cursor, saved, flush, server>>,
         watch' \in [at : {"read", "look", "over"}, pos : 0 .. 2 * MaxLines, got : BOOLEAN]
  PROVE  IInv'
<1>1. /\ journal' = journal /\ trainer' = trainer /\ lines' = lines
      /\ refs' = refs /\ cas' = cas /\ broken' = broken
      /\ cursor' = cursor /\ saved' = saved /\ flush' = flush /\ server' = server
  BY DEF spool
<1>2. TypeOK'
  BY <1>1 DEF IInv, TypeOK
<1>3. Prefix' /\ RefsComplete'
  BY <1>1 DEF IInv, Prefix, RefsComplete
<1>4. AckedIsThere'
  BY <1>1, Restated, RestatedNext DEF IInv, Backed
<1>5. \A c \in Clients : InHand(c)'
  BY <1>1, Restated, RestatedNext DEF IInv, HandOK
<1>6. QED
  BY <1>2, <1>3, <1>4, <1>5 DEF IInv

LEMMA OnServerKeeps ==
  ASSUME IInv, OnServer
  PROVE  IInv'
<1>1. 1 \in Runs
  BY Sizes DEF OnServer, Stream
<1>2. /\ server \in Held
      /\ watch \in [at : {"read", "look", "over"}, pos : 0 .. 2 * MaxLines, got : BOOLEAN]
  BY TypeParts DEF IInv, TypeOK
<1>3. CASE ServerJanitor(1)
  <2>1. /\ server' = [server EXCEPT !.abandoned = @ \cup {1}]
        /\ spool' = spool /\ cursor' = cursor /\ saved' = saved /\ flush' = flush /\ watch' = watch
    BY <1>3 DEF ServerJanitor
  <2>2. /\ server' \in Held
        /\ server'.events = server.events /\ server'.objects = server.objects
        /\ server'.refs = server.refs /\ server'.artifacts = server.artifacts
    BY <1>1, <1>2, <2>1 DEF Held
  <2>3. Sound(server')
    BY <2>2, RestOfServerSound
  <2>4. /\ Backed(saved', server') /\ \A d \in Clients : Backed(cursor'[d], server')
        /\ \A d \in Clients : HandOK(flush'[d], server')
    BY <2>1, <2>3, Restated, BackedStays, HandStays DEF IInv
  <2>5. cursor' \in [Clients -> Cursors] /\ saved' \in Cursors /\ flush' \in [Clients -> Hands]
    BY <2>1, TypeParts DEF IInv
  <2>6. QED
    BY <2>1, <2>3, <2>4, <2>5, FlushStep
<1>4. CASE StreamRead
  <2> DEFINE whole == 2 * (server.size[1] \div 2)
  <2>1. server.size[1] \in 0 .. 2 * MaxLines
    BY <1>1, <1>2 DEF Held
  <2>2. whole \in 0 .. 2 * MaxLines
    BY <2>1, Sizes
  <2>3. watch' = [at |-> "look", pos |-> whole, got |-> whole # watch.pos]
    BY <1>4 DEF StreamRead
  <2> HIDE DEF whole
  <2>4. watch' \in [at : {"read", "look", "over"}, pos : 0 .. 2 * MaxLines, got : BOOLEAN]
    BY <2>2, <2>3
  <2>5. QED
    BY <1>4, <2>4, WatchStep DEF StreamRead
<1>5. CASE StreamLook
  <2>1. watch' \in [at : {"read", "look", "over"}, pos : 0 .. 2 * MaxLines, got : BOOLEAN]
    BY <1>2, <1>5 DEF StreamLook
  <2>2. QED
    BY <1>5, <2>1, WatchStep DEF StreamLook
<1>6. QED
  BY <1>3, <1>4, <1>5 DEF OnServer, Stream

-----------------------------------------------------------------------------
\* The invariant, and what follows from it.

LEMMA IInvInit == Init => IInv
<1> SUFFICES ASSUME Init PROVE IInv
  OBVIOUS
<1> USE DEF Init
<1>1. Resting \in Hands
  BY Sizes DEF Resting, Hands, Stages
<1>2. server \in Held
  BY Sizes DEF Held
<1>3. NoCursors \in Cursors
  BY DEF NoCursors, Cursors
<1>4. watch \in [at : {"read", "look", "over"}, pos : 0 .. 2 * MaxLines, got : BOOLEAN]
  BY Sizes
<1>5. /\ trainer \in [Runs -> {"none", "ready", "alive", "done", "dead"}]
      /\ lines \in [Runs -> 0 .. MaxLines] /\ journal \in Seq(Events)
  BY Sizes
<1>6. TypeOK
  BY <1>1, <1>2, <1>3, <1>4, <1>5 DEF TypeOK, Held, Hands, Stages
<1>7. Prefix
  <2>1. Len(journal) = 0 /\ server.events = 1 .. 0
    OBVIOUS
  <2>2. QED
    BY <2>1, Sizes DEF Prefix
<1>8. AckedIsThere
  <2>1. Backed(NoCursors, server)
    BY DEF NoCursors, Backed
  <2>2. QED
    BY <2>1, Restated
<1>9. RefsComplete
  BY DEF RefsComplete
<1>10. \A c \in Clients : InHand(c)
  BY DEF InHand, Resting
<1>11. QED
  BY <1>6, <1>7, <1>8, <1>9, <1>10 DEF IInv

LEMMA IInvNext == IInv /\ [Next]_vars => IInv'
<1> SUFFICES ASSUME IInv, [Next]_vars PROVE IInv'
  OBVIOUS
<1>1. CASE OnTheSpool
  BY <1>1, OnTheSpoolKeeps
<1>2. CASE OnServer
  BY <1>2, OnServerKeeps
<1>3. ASSUME NEW c \in Clients, Flush(c) PROVE IInv'
  BY <1>3, FlushKeeps
<1>4. ASSUME NEW c \in Clients, Restart(c) PROVE IInv'
  BY <1>4, RestartKeeps
<1>5. CASE UNCHANGED vars
  <2>1. /\ UNCHANGED <<spool, cursor, saved, flush, server>> /\ watch' = watch
    BY <1>5 DEF vars
  <2>2. QED
    BY <2>1, WatchStep DEF IInv, TypeOK
<1>6. QED
  BY <1>1, <1>2, <1>3, <1>4, <1>5 DEF Next

LEMMA IInvAlways == Spec => []IInv
  BY IInvInit, IInvNext, PTL DEF Spec

\* The types of the spool, the clients, their flushes, the server and the
\* stream hold in every state (sync.py's state file and the ingest endpoints).
THEOREM SpoolTypes == Spec => []TypeOK
<1>1. IInv => TypeOK
  BY DEF IInv
<1>2. QED
  BY <1>1, IInvAlways, PTL

\* No cursor, in a client's memory or in sync_state.json, is ever ahead of the
\* server: a request lost either way, a server that dies midway, a client that
\* restarts or another client's flush cost a re-send, never an event, a ref or
\* (unless some artifact is truncated) an artifact (sync.py:6-9).
THEOREM AckedAlwaysThere == Spec => []AckedIsThere
<1>1. IInv => AckedIsThere
  BY DEF IInv
<1>2. QED
  BY <1>1, IInvAlways, PTL

\* The server's events are the spool's journal up to some point.
ServerIsPrefix == server.events = 1 .. Cardinality(server.events)

\* However many clients flush, and wherever a batch was cut off, the server
\* holds the first events of the spool's journal and no other (flush_events).
THEOREM ServerPrefixAlways == Spec => []ServerIsPrefix
<1>1. ASSUME IInv PROVE ServerIsPrefix
  <2>1. PICK n \in 0 .. Len(journal) : server.events = 1 .. n
    BY <1>1 DEF IInv, Prefix
  <2>2. Len(journal) \in Nat
    BY <1>1, TypeParts DEF IInv
  <2>3. n \in Nat
    BY <2>1, <2>2
  <2>4. Cardinality(1 .. n) = n
    BY <2>3, FS_Interval
  <2>5. QED
    BY <2>1, <2>4 DEF ServerIsPrefix
<1>2. QED
  BY <1>1, IInvAlways, PTL

\* A ref the server has set names a commit whose objects, down to the trees of
\* its parents, are all there (flush_git, reachable_objects).
THEOREM RefsAlwaysComplete == Spec => []RefsComplete
<1>1. IInv => RefsComplete
  BY DEF IInv
<1>2. QED
  BY <1>1, IInvAlways, PTL

-----------------------------------------------------------------------------
\* The journal of events is a copied file.

\* The events of E, which are of journal j, as Arrived lists them.
Part(j, E) == [i \in 1 .. Cardinality(E) |-> IF i \in E THEN j[i] ELSE [kind |-> "gap", run |-> 0]]

\* When they are the first n, they are the journal's beginning.
LEMMA PartIs ==
  ASSUME NEW j \in Seq(Events), NEW n \in 0 .. Len(j)
  PROVE  Part(j, 1 .. n) = SubSeq(j, 1, n) /\ Len(Part(j, 1 .. n)) = n
<1> DEFINE s   == Part(j, 1 .. n)
           gap == [kind |-> "gap", run |-> 0]
<1>1. Len(j) \in Nat /\ n \in Nat /\ n <= Len(j) /\ \A i \in 1 .. Len(j) : j[i] \in Events
  BY LenProperties
<1>2. Cardinality(1 .. n) = n
  BY <1>1, FS_Interval
<1>3. s = [i \in 1 .. n |-> IF i \in 1 .. n THEN j[i] ELSE gap]
  BY <1>2, Zenon DEF Part
<1> HIDE DEF s, gap
<1>4. ASSUME NEW i \in 1 .. n PROVE i \in 1 .. Len(j) /\ s[i] = j[i] /\ j[i] \in Events
  <2>1. i \in 1 .. Len(j)
    BY ONLY <1>1, i \in 1 .. n
  <2>2. s[i] = IF i \in 1 .. n THEN j[i] ELSE gap
    BY <1>3, Zenon
  <2>3. QED
    BY <1>1, <2>1, <2>2, Zenon
<1>5. DOMAIN s = 1 .. n /\ s = [i \in DOMAIN s |-> s[i]]
  BY <1>3, Zenon
<1>6. s \in Seq(Events) /\ Len(s) = n
  <2>1. s \in [1 .. n -> Events]
    BY ONLY <1>4, <1>5
  <2>2. s \in Seq(Events)
    <3>1. [1 .. n -> Events] \in {[1 .. l -> Events] : l \in Nat}
      BY <1>1, Zenon
    <3>2. QED
      BY <2>1, <3>1, SeqDef, Zenon
  <2>3. Len(s) \in Nat /\ DOMAIN s = 1 .. Len(s)
    BY <2>2, LenProperties
  <2>4. \A l \in Nat : Cardinality(1 .. l) = l
    BY FS_Interval
  <2>5. QED
    BY <1>2, <1>5, <2>2, <2>3, <2>4, Zenon
<1>7. /\ SubSeq(j, 1, n) \in Seq(Events) /\ Len(SubSeq(j, 1, n)) = n
      /\ \A i \in 1 .. n : SubSeq(j, 1, n)[i] = j[i]
  BY <1>1, SubSeqProperties
<1>8. s = SubSeq(j, 1, n)
  BY ONLY <1>4, <1>6, <1>7, SeqEqual
<1>9. QED
  BY <1>6, <1>8, Zenon DEF s

\* What each step does to the events: the spool's steps add one to its journal
\* and leave the rest alone, and the server loses none.
LEMMA EventsGrow ==
  ASSUME IInv, [Next]_vars
  PROVE  \/ /\ server' = server /\ saved' = saved
            /\ journal' = journal \/ \E e \in Events : journal' = Append(journal, e)
         \/ journal' = journal /\ server.events \subseteq server'.events
<1>1. server \in Held
  BY TypeParts DEF IInv
<1>2. ASSUME NEW r \in Runs,
             Commit(r) \/ Start(r) \/ LogMetric(r) \/ Finish(r) \/ Perish(r) \/ Janitor(r)
      PROVE  /\ server' = server /\ saved' = saved
             /\ journal' = journal \/ \E e \in Events : journal' = Append(journal, e)
  <2>1. \A k \in Kinds : [kind |-> k, run |-> r] \in Events
    BY DEF Events
  <2>2. /\ server' = server /\ saved' = saved
        /\ journal' = journal \/ \E k \in Kinds : journal' = Append(journal, [kind |-> k, run |-> r])
    BY <1>2 DEF Commit, Start, LogMetric, Finish, Perish, Janitor, Log, OnSpool, Kinds
  <2>3. QED
    BY <2>1, <2>2
<1>3. ASSUME NEW a \in Artifacts, NEW torn \in BOOLEAN, LogArtifact(a, torn)
      PROVE  server' = server /\ saved' = saved /\ journal' = journal
  BY <1>3 DEF LogArtifact, OnSpool
<1>4. CASE OnServer
  <2>1. journal' = journal /\ (server' = server \/ server' = [server EXCEPT !.abandoned = @ \cup {1}])
    BY <1>4 DEF OnServer, Stream, ServerJanitor, StreamRead, StreamLook, spool
  <2>2. QED
    BY <1>1, <2>1 DEF Held
<1>5. ASSUME NEW c \in Clients, Flush(c) \/ Restart(c)
      PROVE  journal' = journal /\ server.events \subseteq server'.events
  <2>1. journal' = journal
    BY <1>5 DEF Flush, Restart, ReadEvents, PostEvents, AskMissing, PushObjects, GitDone, PutArtifact,
                ArtifactsDone, ShipMetrics, PostHeartbeats, Fails, spool
  <2>2. \A i, k \in Nat : server.events \subseteq IngestEvents(i, k).events
    BY <1>1 DEF IngestEvents, Held
  <2>3. \A S : server.events \subseteq ImportObjects(S).events
    BY <1>1 DEF ImportObjects, Held
  <2>4. \A r, S : server.events \subseteq IngestGit(r, S).events
    BY <1>1 DEF IngestGit, ImportObjects, Held
  <2>5. \A a : server.events \subseteq IngestArtifact(a).events
    BY <1>1 DEF IngestArtifact, Held
  <2>6. \A R : server.events \subseteq IngestHeartbeat(R).events
    BY <1>1 DEF IngestHeartbeat, Held
  <2>7. CASE server' = server
    BY <2>1, <2>7
  <2>8. CASE PostEvents(c)
    <3>1. flush[c].pos \in Nat
      BY TypeParts DEF IInv, Hands
    <3>2. \E i, k : server' = IngestEvents(i, k)
      BY <2>8 DEF PostEvents, Fails
    <3>3. \A i, k : server.events \subseteq IngestEvents(i, k).events
      BY <1>1 DEF IngestEvents, Held
    <3>4. QED
      BY <2>1, <3>2, <3>3
  <2>9. CASE PushObjects(c)
    BY <2>1, <2>3, <2>4, <2>9 DEF PushObjects, Fails
  <2>10. CASE PutArtifact(c)
    BY <2>1, <2>5, <2>10 DEF PutArtifact, Fails
  <2>11. CASE ShipMetrics(c)
    <3>1. \E f : server' = [server EXCEPT !.size = f]
      BY <2>11 DEF ShipMetrics, Fails
    <3>2. QED
      BY <1>1, <2>1, <3>1 DEF Held
  <2>12. CASE PostHeartbeats(c)
    BY <2>1, <2>6, <2>12 DEF PostHeartbeats
  <2>13. CASE ReadEvents(c) \/ (\E r \in refs \ cursor[c].refs : AskMissing(c, r)) \/ GitDone(c)
               \/ ArtifactsDone(c) \/ Restart(c)
    BY <2>7, <2>13 DEF ReadEvents, AskMissing, GitDone, ArtifactsDone, Restart, Fails
  <2>14. QED
    BY <1>5, <2>8, <2>9, <2>10, <2>11, <2>12, <2>13 DEF Flush
<1>6. CASE UNCHANGED vars
  BY <1>6 DEF vars, spool
<1>7. QED
  BY <1>2, <1>3, <1>4, <1>5, <1>6 DEF Next, OnTheSpool

\* Every step is a step of the copied file, or none.
LEMMA CopiedStep ==
  ASSUME IInv, IInv', [Next]_vars
  PROVE  [Copied!Next]_(Copied!vars)
<1>1. /\ journal \in Seq(Events) /\ journal' \in Seq(Events)
      /\ Len(journal) \in Nat /\ Len(journal') \in Nat
  BY LenProperties DEF IInv, TypeOK
<1>2. PICK n \in 0 .. Len(journal) : server.events = 1 .. n
  BY DEF IInv, Prefix
<1>3. PICK m \in 0 .. Len(journal') : server'.events = 1 .. m
  BY DEF IInv, Prefix
<1>4. Arrived = SubSeq(journal, 1, n) /\ Len(Arrived) = n
  <2>1. Arrived = Part(journal, 1 .. n)
    BY <1>2, Zenon DEF Arrived, Part
  <2>2. QED
    BY <1>1, <2>1, PartIs
<1>5. Arrived' = SubSeq(journal', 1, m) /\ Len(Arrived') = m
  <2>1. Arrived' = Part(journal', 1 .. m)
    BY <1>3, Zenon DEF Arrived, Part
  <2>2. QED
    BY <1>1, <2>1, PartIs
<1>6. CASE server' = server /\ saved' = saved /\ \E e \in Events : journal' = Append(journal, e)
  <2>1. PICK e \in Events : journal' = Append(journal, e)
    BY <1>6
  <2>2. \A i \in 1 .. n : journal'[i] = journal[i]
    BY <1>1, <1>2, <2>1, AppendProperties
  <2>3. Arrived' = Arrived
    BY <1>2, <1>6, <2>2 DEF Arrived
  <2>4. QED
    BY <1>6, <2>3 DEF Copied!Next, Copied!Write
<1>7. CASE journal' = journal /\ server.events \subseteq server'.events
  <2>1. n \in Nat /\ m \in Nat /\ n <= m /\ m <= Len(journal)
    BY <1>1, <1>2, <1>3, <1>7
  <2>2. saved'.events \in 0 .. m
    <3>1. saved'.events \in Nat /\ 1 .. saved'.events \subseteq 1 .. m
      BY <1>3 DEF IInv, TypeOK, Cursors, AckedIsThere
    <3>2. QED
      BY <2>1, <3>1
  <2>3. CASE m = n
    <3>1. Arrived' = Arrived
      BY <1>4, <1>5, <1>7, <2>3
    <3>2. QED
      BY <1>4, <1>7, <2>2, <2>3, <3>1 DEF Copied!Next, Copied!Ack
  <2>4. CASE m # n
    <3>1. m \in Len(Arrived) + 1 .. Len(journal)
      BY <1>4, <2>1, <2>4
    <3>2. Arrived' = SubSeq(journal, 1, m)
      BY <1>5, <1>7
    <3>3. QED
      BY <1>7, <2>2, <3>1, <3>2 DEF Copied!Next, Copied!Ship
  <2>5. QED
    BY <2>3, <2>4
<1>8. CASE server' = server /\ saved' = saved /\ journal' = journal
  BY <1>8 DEF Arrived, Copied!vars
<1>9. QED
  BY <1>6, <1>7, <1>8, EventsGrow

\* However many clients flush one spool, from whichever old cursors, and
\* whatever requests fail half way: the server's events are at every step a copy
\* of the journal as far as it goes, which never shrinks, and sync_state.json
\* never says that more of them were shipped (flush_events).
THEOREM EventsAreCopied == Spec => IsCopiedFile
<1>1. Init => Copied!Init
  <2> SUFFICES ASSUME Init PROVE Copied!Init
    OBVIOUS
  <2>1. journal = <<>> /\ saved.events = 0 /\ server.events = {}
    BY DEF Init, NoCursors
  <2>2. <<>> \in Seq(Events) /\ Len(<<>>) = 0 /\ {} = 1 .. 0
    OBVIOUS
  <2>3. Arrived = <<>>
    <3>1. Cardinality(server.events) = 0
      BY <2>1, FS_EmptySet
    <3>2. QED
      BY <3>1 DEF Arrived
  <2>4. QED
    BY <2>1, <2>3 DEF Copied!Init
<1>2. IInv /\ IInv' /\ [Next]_vars => [Copied!Next]_(Copied!vars)
  BY CopiedStep
<1>3. QED
  BY <1>1, <1>2, IInvInit, IInvNext, PTL DEF Spec, IsCopiedFile, Copied!Spec
=============================================================================
