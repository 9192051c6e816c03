---------------------------- MODULE MetricProofs ----------------------------
(***************************************************************************)
(* Theorems about MetricSync, for any number of flushers, any chunk size   *)
(* and any bounds.                                                         *)
(***************************************************************************)
EXTENDS MetricSync, WellFoundedInduction, SequenceTheorems, TLAPS

USE SyncAssumption

-----------------------------------------------------------------------------
\* Why NeverInterleaves and AckedIsStored hold: what every request and every
\* reply on its way says of the two files.

\* A request carries whole lines of the spool, from the offset it names.
Sound(r) ==
  /\ r.data # <<>>
  /\ r.from + Len(r.data) <= Len(spool)
  /\ \A i \in DOMAIN r.data : r.data[i] = r.from + i
  /\ spool[r.from + Len(r.data)]

\* A server nobody logs into holds the spool's own prefix.
Straight == strays = 0 => Matches(server)

\* An ack, or a conflict that lets the flusher resume, tells it of units the
\* server holds.
ReplyTrue(f) ==
  \A a \in reply[f] :
    IF a.ok THEN Holds(server, asked[f].from + Len(asked[f].data))
            ELSE Matches(a.file) => Holds(server, Len(a.file))

IInv ==
  /\ TypeOK
  /\ \A r \in late : Sound(r)
  /\ \A f \in Flushers : pc[f] = "wait" => Sound(asked[f]) /\ asked[f].from = cursor[f]
  /\ \A f \in Flushers : pc[f] # "wait" => reply[f] = {}
  /\ NeverInterleaves
  /\ Straight
  /\ AckedIsStored
  /\ restores = 0 => /\ \A r \in late : Holds(server, r.from)
                     /\ \A f \in Flushers : ReplyTrue(f)

-----------------------------------------------------------------------------
\* Every non-empty set of naturals has a least element.
LEMMA LeastElement ==
  ASSUME NEW S \in SUBSET Nat, S # {}
  PROVE  \E x \in S : \A y \in S : x <= y
<1> DEFINE R == OpToRel(<, Nat)
<1>1. PICK x \in S : \A y \in S : <<y, x>> \notin R
  <2>1. IsWellFoundedOn(R, Nat)
    BY NatLessThanWellFounded
  <2> HIDE DEF R
  <2>2. QED
    BY <2>1, WFMin
<1>2. \A y \in S : ~(y < x)
  BY <1>1 DEF OpToRel
<1>3. QED
  BY <1>2

\* The largest element of a bounded set, which PostChunk cuts a chunk at.
LEMMA LargestElement ==
  ASSUME NEW n \in Nat, NEW S \in SUBSET (1 .. n), S # {}
  PROVE  Largest(S) \in S /\ \A j \in S : j <= Largest(S)
<1> DEFINE T == {n - i : i \in S}
<1>1. T \in SUBSET Nat /\ T # {}
  <2>1. \A i \in S : i \in 1 .. n
    OBVIOUS
  <2>2. \A i \in S : n - i \in Nat
    BY <2>1
  <2>3. T \in SUBSET Nat
    BY <2>2
  <2>4. T # {}
    OBVIOUS
  <2>5. QED
    BY <2>3, <2>4
<1>2. PICK x \in T : \A y \in T : x <= y
  <2> HIDE DEF T
  <2> QED BY <1>1, LeastElement
<1>3. PICK i \in S : x = n - i
  BY <1>2
<1>4. \A j \in S : j <= i
  <2>1. ASSUME NEW j \in S PROVE j <= i
    <3>1. n - j \in T
      OBVIOUS
    <3>2. n - i <= n - j
      BY <3>1, <1>2, <1>3
    <3>3. i \in Int /\ j \in Int /\ n \in Int
      OBVIOUS
    <3>4. QED
      BY <3>2, <3>3
  <2>2. QED
    BY <2>1
<1>5. QED
  BY <1>4 DEF Largest

\* A slice of the spool is a sequence of positions.
LEMMA SliceType ==
  ASSUME NEW a \in Nat, NEW b \in Nat, a <= b
  PROVE  /\ Slice(a, b) \in Seq(Nat)
         /\ Len(Slice(a, b)) = b - a
         /\ \A i \in 1 .. b - a : Slice(a, b)[i] = a + i
<1>1. Slice(a, b) \in [1 .. b - a -> Nat]
  BY DEF Slice
<1>2. b - a \in Nat
  OBVIOUS
<1>3. Slice(a, b) \in Seq(Nat)
  BY <1>1, <1>2, SeqDef
<1>4. QED
  BY <1>1, <1>2, <1>3, LenProperties DEF Slice

-----------------------------------------------------------------------------
\* Type correctness.

\* Two empty files and idle flushers are well typed.
LEMMA TypeInit == Init => TypeOK
<1> SUFFICES ASSUME Init PROVE TypeOK
  OBVIOUS
<1>1. <<>> \in Seq(BOOLEAN) /\ <<>> \in Seq(Nat)
  BY EmptySeq
<1>2. NoRequest \in Request
  BY <1>1 DEF NoRequest, Request
<1>3. QED
  BY <1>1, <1>2 DEF Init, TypeOK

\* What a flusher has in hand is well typed, whatever it turns to.
LocalOK ==
  /\ pc \in [Flushers -> {"idle", "read", "wait", "save"}]
  /\ cursor \in [Flushers -> Nat] /\ size \in [Flushers -> Nat]
  /\ asked \in [Flushers -> Request]
  /\ reply \in [Flushers -> SUBSET Response]

\* A flush that ends or raises leaves its flusher well typed.
LEMMA LeaveType ==
  ASSUME TypeOK, NEW f \in Flushers, Leave(f), cursor' \in [Flushers -> Nat]
  PROVE  LocalOK'
<1>1. NoRequest \in Request
  BY EmptySeq DEF NoRequest, Request
<1>2. QED
  BY <1>1 DEF TypeOK, LocalOK, Leave, Goto

\* What the server appends to its file is a sequence of positions.
LEMMA StoreType ==
  ASSUME TypeOK, NEW r \in Request, Store(r)
  PROVE  server' \in Seq(Nat)
<1>1. server \in Seq(Nat) /\ r.data \in Seq(Nat)
  BY DEF TypeOK, Request
<1>2. Append(r.data, 0) \in Seq(Nat)
  BY <1>1, AppendProperties
<1>3. Appended(r) \in Seq(Nat)
  BY <1>1, <1>2 DEF Appended
<1>4. server \o Appended(r) \in Seq(Nat)
  BY <1>1, <1>3, ConcatProperties
<1>5. QED
  BY <1>1, <1>4 DEF Store

\* The request PostChunk builds: from the cursor to the end of a line.
LEMMA ChunkType ==
  ASSUME TypeOK, NEW f \in Flushers, NEW end \in Nat, end <= Len(spool),
         LineEnds(cursor[f], end) # {}
  PROVE  LET last == Largest(LineEnds(cursor[f], end)) IN
         /\ last \in Nat /\ cursor[f] < last /\ last <= Len(spool) /\ spool[last]
         /\ Slice(cursor[f], last) \in Seq(Nat)
         /\ Len(Slice(cursor[f], last)) = last - cursor[f]
         /\ \A i \in 1 .. last - cursor[f] : Slice(cursor[f], last)[i] = cursor[f] + i
<1> DEFINE last == Largest(LineEnds(cursor[f], end))
<1>1. cursor[f] \in Nat
  BY DEF TypeOK
<1>2. LineEnds(cursor[f], end) \in SUBSET (1 .. end)
  BY <1>1 DEF LineEnds
<1>3. last \in LineEnds(cursor[f], end)
  BY <1>2, LargestElement
<1>4. last \in cursor[f] + 1 .. end /\ spool[last]
  BY <1>3 DEF LineEnds
<1>5. Len(spool) \in Nat
  BY LenProperties DEF TypeOK
<1>6. last \in Nat /\ cursor[f] < last /\ last <= Len(spool) /\ cursor[f] <= last
  BY <1>1, <1>4, <1>5
<1> HIDE DEF last
<1>7. QED
  BY <1>1, <1>4, <1>6, SliceType DEF last

\* Every step of either side keeps the types, action by action.
LEMMA TypeNext == TypeOK /\ [Next]_vars => TypeOK'
<1> SUFFICES ASSUME TypeOK, [Next]_vars PROVE TypeOK'
  OBVIOUS
<1>1. spool \in Seq(BOOLEAN) /\ server \in Seq(Nat) /\ Len(spool) \in Nat /\ Len(server) \in Nat
  BY LenProperties DEF TypeOK
<1>2. CASE AppendMetric
  <2>1. spool' \in Seq(BOOLEAN)
    BY <1>1, <1>2, AppendProperties DEF AppendMetric
  <2>2. QED
    BY <1>2, <2>1 DEF AppendMetric, TypeOK, local, budget
<1>3. CASE LoseState
  BY <1>3 DEF LoseState, TypeOK, local
<1>4. CASE Stray
  <2>1. server' \in Seq(Nat)
    BY <1>1, <1>4, AppendProperties DEF Stray
  <2>2. QED
    BY <1>4, <2>1 DEF Stray, TypeOK, local
<1>5. CASE Restore
  <2>1. server' \in Seq(Nat)
    BY <1>1, <1>5, SubSeqProperties, ElementOfSeq DEF Restore
  <2>2. QED
    BY <1>5, <2>1 DEF Restore, TypeOK, local
<1>6. ASSUME NEW f \in Flushers, BeginFlush(f) PROVE TypeOK'
  BY <1>1, <1>6 DEF BeginFlush, Goto, TypeOK, files, budget
<1>7. ASSUME NEW f \in Flushers, PostChunk(f) PROVE TypeOK'
  <2> DEFINE end == IF cursor[f] + Chunk < Len(spool) THEN cursor[f] + Chunk ELSE Len(spool)
             ends == LineEnds(cursor[f], end)
  <2>1. end \in Nat /\ end <= Len(spool)
    BY <1>1 DEF TypeOK
  <2>2. LocalOK'
    <3>1. CASE ends = {}
      BY <1>7, <3>1, LeaveType DEF PostChunk, TypeOK
    <3>2. CASE ends # {}
      <4>1. Slice(cursor[f], Largest(ends)) \in Seq(Nat)
        <5> HIDE DEF end
        <5> QED BY <2>1, <3>2, ChunkType
      <4>2. [from |-> cursor[f], data |-> Slice(cursor[f], Largest(ends))] \in Request
        BY <4>1 DEF Request, TypeOK
      <4>3. QED
        BY <1>7, <3>2, <4>2 DEF PostChunk, Goto, LocalOK, TypeOK
    <3>3. QED
      BY <3>1, <3>2
  <2>3. QED
    BY <1>7, <2>2 DEF PostChunk, LocalOK, TypeOK, files, budget
<1>8. ASSUME NEW f \in Flushers, Receive(f) PROVE TypeOK'
  <2> DEFINE Moved(a) == /\ cursor' = [cursor EXCEPT ![f] =
                              IF a.ok THEN @ + Len(asked[f].data) ELSE Len(a.file)]
                         /\ pc' = [pc EXCEPT ![f] = "save"]
                         /\ asked' = [asked EXCEPT ![f] = NoRequest]
                         /\ reply' = [reply EXCEPT ![f] = {}]
                         /\ size' = size
  <2>1. PICK a \in reply[f] : Moved(a) \/ (Leave(f) /\ UNCHANGED cursor)
    BY <1>8 DEF Receive, Goto
  <2>2. a \in Response /\ asked[f] \in Request
    BY DEF TypeOK
  <2>3. Len(a.file) \in Nat /\ Len(asked[f].data) \in Nat /\ cursor[f] \in Nat
    BY <2>2, LenProperties DEF Response, Request, TypeOK
  <2>4. NoRequest \in Request
    BY EmptySeq DEF NoRequest, Request
  <2>5. LocalOK'
    <3>1. CASE Leave(f) /\ UNCHANGED cursor
      BY <3>1, LeaveType DEF TypeOK
    <3>2. CASE Moved(a)
      <4>1. cursor' \in [Flushers -> Nat]
        <5>1. (IF a.ok THEN cursor[f] + Len(asked[f].data) ELSE Len(a.file)) \in Nat
          BY <2>3
        <5>2. QED
          BY <5>1, <3>2 DEF TypeOK
      <4>2. QED
        BY <2>4, <3>2, <4>1 DEF TypeOK, LocalOK
    <3>3. QED
      BY <2>1, <3>1, <3>2
  <2>6. QED
    BY <1>8, <2>5 DEF Receive, LocalOK, TypeOK, files, budget
<1>9. ASSUME NEW f \in Flushers, SaveState(f) PROVE TypeOK'
  <2>1. LocalOK'
    <3>1. CASE cursor[f] < size[f]
      BY <1>9, <3>1 DEF SaveState, Goto, LocalOK, TypeOK
    <3>2. CASE ~(cursor[f] < size[f])
      BY <1>9, <3>2, LeaveType DEF SaveState, TypeOK
    <3>3. QED
      BY <3>1, <3>2
  <2>2. QED
    BY <1>9, <2>1 DEF SaveState, LocalOK, TypeOK, budget
<1>10. ASSUME NEW f \in Flushers, GiveUp(f) PROVE TypeOK'
  <2>1. LocalOK'
    BY <1>10, LeaveType DEF GiveUp, TypeOK
  <2>2. QED
    BY <1>10, <2>1 DEF GiveUp, Abandon, LocalOK, TypeOK, files, budget
<1>11. ASSUME NEW f \in Flushers, Restart(f) PROVE TypeOK'
  <2>1. LocalOK'
    BY <1>11, LeaveType DEF Restart, TypeOK
  <2>2. QED
    BY <1>11, <2>1 DEF Restart, Abandon, LocalOK, TypeOK, files
<1>12. ASSUME NEW f \in Flushers, Serve(f) PROVE TypeOK'
  <2>1. asked[f] \in Request
    BY DEF TypeOK
  <2>2. server' \in Seq(Nat)
    BY <1>12, <2>1, StoreType DEF Serve
  <2>3. Verdict(asked[f]) \in Response
    BY <1>1, EmptySeq DEF Verdict, Response
  <2>4. QED
    BY <1>12, <2>1, <2>2, <2>3 DEF Serve, TypeOK, budget
<1>13. ASSUME NEW r \in late, Arrive(r) PROVE TypeOK'
  <2>1. r \in Request
    BY DEF TypeOK
  <2>2. server' \in Seq(Nat)
    BY <1>13, <2>1, StoreType DEF Arrive
  <2>3. QED
    BY <1>13, <2>2 DEF Arrive, TypeOK, local, budget
<1>14. ASSUME NEW r \in late, CutShort(r) PROVE TypeOK'
  <2>1. r.data \in Seq(Nat)
    BY DEF TypeOK, Request
  <2>2. PICK n \in 1 .. Len(r.data) - 1 : server' = server \o SubSeq(r.data, 1, n)
    BY <1>14 DEF CutShort
  <2>3. SubSeq(r.data, 1, n) \in Seq(Nat)
    BY <2>1, LenProperties, SubSeqProperties, ElementOfSeq
  <2>4. server' \in Seq(Nat)
    BY <1>1, <2>2, <2>3, ConcatProperties
  <2>5. QED
    BY <1>14, <2>4 DEF CutShort, TypeOK, local, budget
<1>15. CASE UNCHANGED vars
  BY <1>15 DEF vars, files, local, budget, TypeOK
<1>16. QED
  BY <1>2, <1>3, <1>4, <1>5, <1>6, <1>7, <1>8, <1>9, <1>10, <1>11, <1>12, <1>13,
     <1>14, <1>15 DEF Next

\* Every reachable state is well typed.
THEOREM MetricTypes == Spec => []TypeOK
BY TypeInit, TypeNext, PTL DEF Spec

-----------------------------------------------------------------------------
\* Safety of the server's file and of the cursors.

\* The server's file keeps what it has and may go on.
Grown == /\ Len(server) <= Len(server')
         /\ \A i \in 1 .. Len(server) : server'[i] = server[i]

\* What the server held it still holds when its file has grown.
LEMMA HoldsKept ==
  ASSUME TypeOK, TypeOK', Grown, NEW n \in Nat, Holds(server, n)
  PROVE  Holds(server', n)
<1>1. /\ DOMAIN server = 1 .. Len(server) /\ Len(server) \in Nat
      /\ DOMAIN server' = 1 .. Len(server') /\ Len(server') \in Nat
  BY LenProperties DEF TypeOK
<1>2. QED
  BY <1>1 DEF Holds, Grown

\* What is on its way in the spool stays true of a longer spool.
LEMMA SoundKept ==
  ASSUME TypeOK, AppendMetric, NEW r \in Request, Sound(r)
  PROVE  Sound(r)'
<1>1. PICK ends \in BOOLEAN : spool' = Append(spool, ends)
  BY DEF AppendMetric
<1>2. spool \in Seq(BOOLEAN) /\ r.from \in Nat /\ r.data \in Seq(Nat)
  BY DEF TypeOK, Request
<1>3. /\ Len(spool) \in Nat /\ Len(spool') = Len(spool) + 1
      /\ \A i \in 1 .. Len(spool) : spool'[i] = spool[i]
  BY <1>1, <1>2, AppendProperties, LenProperties
<1>4. Len(r.data) \in Nat /\ r.data # <<>> => Len(r.data) > 0
  BY <1>2, LenProperties, EmptySeq
<1>5. r.from + Len(r.data) \in 1 .. Len(spool)
  BY <1>2, <1>3, <1>4 DEF Sound
<1>6. QED
  BY <1>3, <1>5 DEF Sound

\* A part d of a sound request appended at the very size it names continues
\* the spool's prefix.
LEMMA Continues ==
  ASSUME TypeOK, TypeOK', NEW r \in Request, Sound(r), r.from = Len(server),
         NEW d \in Seq(Nat), Len(d) <= Len(r.data),
         \A i \in 1 .. Len(d) : d[i] = r.from + i,
         server' = server \o d, UNCHANGED <<spool, strays, restores>>,
         NeverInterleaves, Straight, restores = 0 => Holds(server, r.from)
  PROVE  /\ Grown /\ NeverInterleaves' /\ Straight'
         /\ restores = 0 => Holds(server', r.from + Len(d))
<1>1. /\ server \in Seq(Nat) /\ Len(server) \in Nat /\ DOMAIN server = 1 .. Len(server)
      /\ server' \in Seq(Nat) /\ DOMAIN server' = 1 .. Len(server')
      /\ Len(d) \in Nat /\ Len(spool) \in Nat /\ r.data \in Seq(Nat) /\ Len(r.data) \in Nat
  BY LenProperties DEF TypeOK, Request
<1>2. /\ Len(server') = Len(server) + Len(d)
      /\ \A i \in 1 .. Len(server) + Len(d) :
           server'[i] = IF i <= Len(server) THEN server[i] ELSE d[i - Len(server)]
  BY <1>1, ConcatProperties
<1>3. Grown
  BY <1>1, <1>2 DEF Grown
<1>4. ASSUME NEW i \in Len(server) + 1 .. Len(server') PROVE server'[i] = i /\ i <= Len(spool)
  <2>1. i - Len(server) \in 1 .. Len(d)
    BY <1>1, <1>2
  <2>2. server'[i] = d[i - Len(server)]
    BY <1>1, <1>2
  <2>3. d[i - Len(server)] = r.from + (i - Len(server))
    BY <2>1
  <2>4. i <= r.from + Len(r.data)
    BY <1>1, <1>2
  <2>5. QED
    BY <1>1, <2>2, <2>3, <2>4 DEF Sound
<1>5. ASSUME Matches(server), NEW i \in DOMAIN server' PROVE server'[i] = i
  <2>1. CASE i <= Len(server)
    BY <1>1, <1>2, <1>5, <2>1 DEF Matches
  <2>2. CASE i > Len(server)
    BY <1>1, <1>4, <2>2
  <2>3. QED
    BY <1>1, <2>1, <2>2
<1>6. restores = 0 => Matches(server)
  BY <1>1 DEF Holds, Matches
<1>7. Straight'
  BY <1>5 DEF Straight, Matches
<1>8. restores = 0 => Holds(server', r.from + Len(d))
  BY <1>1, <1>2, <1>5, <1>6 DEF Holds
<1>9. NeverInterleaves'
  <2>1. SUFFICES ASSUME strays = 0 \/ restores = 0, NEW i \in DOMAIN server'
                 PROVE  server'[i] = i /\ i <= Len(spool) /\ server'[i] # 0
    BY DEF NeverInterleaves
  <2>2. Matches(server)
    BY <1>6, <2>1 DEF Straight
  <2>3. server'[i] = i /\ server'[i] # 0
    BY <1>1, <1>5, <2>2
  <2>4. i <= Len(spool)
    <3>1. CASE i <= Len(server)
      BY <1>1, <1>2, <2>1, <2>3, <3>1 DEF NeverInterleaves
    <3>2. CASE i > Len(server)
      BY <1>1, <1>4, <3>2
    <3>3. QED
      BY <1>1, <3>1, <3>2
  <2>5. QED
    BY <2>3, <2>4
<1>10. QED
  BY <1>3, <1>7, <1>8, <1>9

\* append_metrics_chunk on a sound request: appended at its own offset or not
\* at all.
LEMMA StoreKeeps ==
  ASSUME TypeOK, TypeOK', NEW r \in Request, Sound(r), Store(r),
         UNCHANGED <<spool, strays, restores>>,
         NeverInterleaves, Straight, restores = 0 => Holds(server, r.from)
  PROVE  /\ Grown /\ NeverInterleaves' /\ Straight'
         /\ (restores = 0 /\ r.from = Len(server)) => Holds(server', r.from + Len(r.data))
<1>1. CASE r.from = Len(server)
  <2>1. r.data \in Seq(Nat) /\ Len(r.data) \in Nat /\ DOMAIN r.data = 1 .. Len(r.data)
    BY LenProperties DEF Request
  <2>2. Len(r.data) \in DOMAIN r.data
    BY <2>1, EmptySeq DEF Sound
  <2>3. Appended(r) = r.data
    BY <2>2 DEF Appended, Sound
  <2>4. server' = server \o r.data
    BY <1>1, <2>3 DEF Store
  <2>5. \A i \in 1 .. Len(r.data) : r.data[i] = r.from + i
    BY <2>1 DEF Sound
  <2>6. Len(r.data) <= Len(r.data)
    BY <2>1
  <2>7. /\ Grown /\ NeverInterleaves' /\ Straight'
        /\ restores = 0 => Holds(server', r.from + Len(r.data))
    BY <1>1, <2>1, <2>4, <2>5, <2>6, Continues
  <2>8. QED
    BY <2>7
<1>2. CASE r.from # Len(server)
  <2>1. server' = server
    BY <1>2 DEF Store
  <2>2. Len(server) \in Nat
    BY LenProperties DEF TypeOK
  <2>3. QED
    BY <1>2, <2>1, <2>2 DEF Grown, NeverInterleaves, Straight, Matches
<1>3. QED
  BY <1>1, <1>2

\* Empty files agree, and nothing is on its way.
LEMMA IInvInit == Init => IInv
<1> SUFFICES ASSUME Init PROVE IInv
  OBVIOUS
<1>1. TypeOK
  BY TypeInit
<1>2. DOMAIN server = {} /\ \A n : n = 0 => 1 .. n = {}
  <2>1. server = <<>>
    BY DEF Init
  <2>2. QED
    BY <2>1
<1>3. NeverInterleaves /\ Straight
  BY <1>2 DEF NeverInterleaves, Straight, Matches
<1>4. Holds(server, saved) /\ \A f \in Flushers : Holds(server, cursor[f])
  BY <1>2 DEF Init, Holds
<1>5. QED
  BY <1>1, <1>3, <1>4 DEF Init, IInv, AckedIsStored, ReplyTrue

\* The requests that are late after a step were late, or waited for, before it.
LateKnown ==
  \A r \in late' : r \in late \/ \E f \in Flushers : pc[f] = "wait" /\ r = asked[f]

\* What a step may do to a flusher: nothing, take it out of its wait with a
\* cursor the server backs, or send it off with a sound request.
Untouched(g) == /\ pc'[g] = pc[g] /\ cursor'[g] = cursor[g]
                /\ asked'[g] = asked[g] /\ reply'[g] = reply[g]
Backed(g)    == /\ pc'[g] # "wait" /\ reply'[g] = {}
                /\ restores = 0 => Holds(server, cursor'[g])
SentOff(g)   == /\ cursor'[g] = cursor[g] /\ reply'[g] = {}
                /\ Sound(asked'[g]) /\ asked'[g].from = cursor[g]

\* Steps that leave both files alone.
LEMMA FilesAlone ==
  ASSUME IInv, TypeOK', UNCHANGED <<spool, server, strays, restores>>, LateKnown,
         restores = 0 => Holds(server, saved'),
         \A g \in Flushers : Untouched(g) \/ Backed(g) \/ SentOff(g)
  PROVE  IInv'
<1>1. \A r \in late' : Sound(r) /\ (restores = 0 => Holds(server, r.from))
  BY DEF IInv, LateKnown, AckedIsStored
<1>2. \A r \in late' : Sound(r)' /\ (restores' = 0 => Holds(server, r.from)')
  BY <1>1 DEF Sound, Holds
<1>3. ASSUME NEW g \in Flushers
      PROVE  /\ pc'[g] = "wait" => Sound(asked'[g]) /\ asked'[g].from = cursor'[g]
             /\ pc'[g] # "wait" => reply'[g] = {}
             /\ restores = 0 => Holds(server, cursor'[g]) /\ ReplyTrue(g)'
  <2>1. CASE Untouched(g)
    BY <2>1 DEF IInv, Untouched, AckedIsStored, ReplyTrue, Holds, Matches
  <2>2. CASE Backed(g)
    BY <2>2 DEF Backed, ReplyTrue
  <2>3. CASE SentOff(g)
    BY <2>3 DEF IInv, SentOff, AckedIsStored, ReplyTrue
  <2>4. QED
    BY <2>1, <2>2, <2>3
<1>4. \A g \in Flushers : (pc[g] = "wait" => Sound(asked[g]) /\ asked[g].from = cursor[g])'
  BY <1>3 DEF Sound
<1>5. NeverInterleaves' /\ Straight'
  BY DEF IInv, NeverInterleaves, Straight, Matches
<1>6. AckedIsStored'
  BY <1>3 DEF AckedIsStored, Holds
<1>7. QED
  BY <1>2, <1>3, <1>4, <1>5, <1>6 DEF IInv

\* Steps of the server: its file grows.
LEMMA FileGrown ==
  ASSUME IInv, TypeOK', UNCHANGED <<spool, saved, pc, cursor, asked, restores>>,
         Grown, NeverInterleaves', Straight', LateKnown,
         \A g \in Flushers : \/ reply'[g] = reply[g]
                             \/ pc[g] = "wait" /\ (restores = 0 => ReplyTrue(g)')
  PROVE  IInv'
<1>1. TypeOK
  BY DEF IInv
<1>2. \A n \in Nat : Holds(server, n) => Holds(server', n)
  BY <1>1, HoldsKept
<1>3. \A r \in late' : Sound(r) /\ r.from \in Nat /\ (restores = 0 => Holds(server, r.from))
  BY <1>1 DEF IInv, LateKnown, AckedIsStored, TypeOK, Request
<1>4. \A r \in late' : Sound(r)' /\ (restores' = 0 => Holds(server, r.from)')
  <2>1. \A r \in late' : Sound(r)'
    BY <1>3 DEF Sound
  <2>2. \A r \in late' : restores = 0 => Holds(server', r.from)
    BY <1>2, <1>3
  <2>3. QED
    BY <2>1, <2>2 DEF Holds
<1>5. AckedIsStored'
  <2>1. saved \in Nat /\ \A g \in Flushers : cursor[g] \in Nat
    BY <1>1 DEF TypeOK
  <2>2. restores = 0 => Holds(server', saved) /\ \A g \in Flushers : Holds(server', cursor[g])
    BY <1>2, <2>1 DEF IInv, AckedIsStored
  <2>3. QED
    BY <2>2 DEF AckedIsStored, Holds
<1>6. ASSUME NEW g \in Flushers, restores = 0, pc[g] # "wait" \/ reply'[g] = reply[g]
      PROVE  ReplyTrue(g)'
  <2>1. reply'[g] = reply[g] /\ reply[g] \subseteq Response /\ asked[g] \in Request
    BY <1>1, <1>6 DEF TypeOK
  <2>2. SUFFICES ASSUME NEW a \in reply[g]
                 PROVE  IF a.ok THEN Holds(server', asked[g].from + Len(asked[g].data))
                                ELSE Matches(a.file) => Holds(server', Len(a.file))
    BY <2>1 DEF ReplyTrue, Holds, Matches
  <2>3. asked[g].from + Len(asked[g].data) \in Nat /\ Len(a.file) \in Nat
    BY <2>1, LenProperties DEF Request, Response
  <2>4. ReplyTrue(g)
    BY <1>6 DEF IInv
  <2>5. QED
    BY <1>2, <2>3, <2>4 DEF ReplyTrue
<1>7. \A g \in Flushers : (pc[g] = "wait" => Sound(asked[g]) /\ asked[g].from = cursor[g])'
  BY DEF IInv, Sound
<1>8. \A g \in Flushers : (pc[g] # "wait" => reply[g] = {})'
  BY DEF IInv
<1>9. restores' = 0 => \A g \in Flushers : ReplyTrue(g)'
  BY <1>6
<1>10. QED
  BY <1>4, <1>5, <1>7, <1>8, <1>9 DEF IInv

\* A flush that ends, and the flushers that had no part in it.
LEMMA LeaveBacked ==
  ASSUME IInv, NEW f \in Flushers, Leave(f),
         \A g \in Flushers \ {f} : cursor'[g] = cursor[g],
         restores = 0 => Holds(server, cursor'[f])
  PROVE  \A g \in Flushers : Untouched(g) \/ Backed(g)
BY DEF IInv, TypeOK, Leave, Goto, Untouched, Backed

\* The strengthened invariant is inductive: one step per action, each reduced to
\* one of the two lemmas above.
LEMMA IInvNext == IInv /\ [Next]_vars => IInv'
<1> SUFFICES ASSUME IInv, [Next]_vars PROVE IInv'
  OBVIOUS
<1>1. TypeOK /\ TypeOK'
  BY TypeNext DEF IInv
<1>2. /\ Len(server) \in Nat /\ DOMAIN server = 1 .. Len(server) /\ server \in Seq(Nat)
      /\ \A g \in Flushers : cursor[g] \in Nat
      /\ restores = 0 => Holds(server, saved) /\ \A g \in Flushers : Holds(server, cursor[g])
  BY <1>1, LenProperties DEF TypeOK, IInv, AckedIsStored
<1>3. CASE AppendMetric
  <2>1. PICK ends \in BOOLEAN : spool' = Append(spool, ends)
    BY <1>3 DEF AppendMetric
  <2>2. Len(spool) \in Nat /\ Len(spool') = Len(spool) + 1
    BY <1>1, <2>1, AppendProperties, LenProperties DEF TypeOK
  <2>3. /\ \A r \in late : Sound(r)'
        /\ \A f \in Flushers : pc[f] = "wait" => Sound(asked[f])'
    <3>1. \A r \in late : Sound(r)'
      BY <1>1, <1>3, SoundKept DEF IInv, TypeOK
    <3>2. ASSUME NEW f \in Flushers, pc[f] = "wait" PROVE Sound(asked[f])'
      <4>1. asked[f] \in Request /\ Sound(asked[f])
        BY <1>1, <3>2 DEF IInv, TypeOK
      <4>2. UNCHANGED asked
        BY <1>3 DEF AppendMetric, local
      <4>3. Len(spool) + 1 = Len(spool') /\ asked[f].from \in Nat /\ Len(asked[f].data) \in Nat \ {0}
        BY <2>2, <4>1, LenProperties, EmptySeq DEF Request, Sound
      <4>4. asked[f].from + Len(asked[f].data) \in 1 .. Len(spool)
        BY <2>2, <4>1, <4>3 DEF Sound
      <4>5. \A i \in 1 .. Len(spool) : spool'[i] = spool[i]
        BY <1>1, <2>1, AppendProperties DEF TypeOK
      <4>6. QED
        BY <4>1, <4>2, <4>3, <4>4, <4>5, <2>2 DEF Sound
    <3>3. QED
      BY <3>1, <3>2
  <2>4. NeverInterleaves'
    BY <1>1, <1>3, <1>2, <2>2 DEF IInv, NeverInterleaves, AppendMetric, budget, TypeOK
  <2>5. UNCHANGED <<server, saved, pc, cursor, asked, reply, late, strays, restores>>
    BY <1>3 DEF AppendMetric, local, budget
  <2>6. Straight' /\ AckedIsStored'
    BY <2>5 DEF IInv, Straight, Matches, AckedIsStored, Holds
  <2>7. restores' = 0 => (\A r \in late : Holds(server, r.from))' /\ \A f \in Flushers : ReplyTrue(f)'
    BY <2>5 DEF IInv, ReplyTrue, Holds, Matches
  <2>8. \A f \in Flushers : (pc[f] = "wait" => Sound(asked[f]) /\ asked[f].from = cursor[f])'
    BY <2>3, <2>5 DEF IInv
  <2>9. QED
    BY <1>1, <2>3, <2>4, <2>5, <2>6, <2>7, <2>8 DEF IInv
<1>4. CASE LoseState
  <2>1. Holds(server, saved')
    BY <1>4 DEF LoseState, Holds
  <2>2. \A g \in Flushers : Untouched(g)
    BY <1>4 DEF LoseState, local, Untouched
  <2>3. QED
    BY <1>1, <1>4, <2>1, <2>2, FilesAlone DEF LoseState, local, LateKnown
<1>5. CASE Stray
  <2>1. server' = Append(server, 0) /\ strays' = strays + 1
    BY <1>5 DEF Stray
  <2>2. /\ Len(server') = Len(server) + 1 /\ server'[Len(server) + 1] = 0
        /\ \A i \in 1 .. Len(server) : server'[i] = server[i]
        /\ DOMAIN server' = 1 .. Len(server')
    BY <1>1, <1>2, <2>1, AppendProperties, LenProperties DEF TypeOK
  <2>3. Grown
    BY <1>2, <2>2 DEF Grown
  <2>4. strays' # 0
    BY <1>1, <2>1 DEF TypeOK
  <2>5. UNCHANGED <<spool, saved, local, late, restores>>
    BY <1>5 DEF Stray
  <2>6. NeverInterleaves'
    <3>1. SUFFICES ASSUME restores = 0, NEW i \in 1 .. Len(server) + 1
                   PROVE  /\ server'[i] # 0 => server'[i] = i /\ i <= Len(spool)
                          /\ server'[i] = 0 => \A j \in 1 .. Len(server) + 1 :
                                                 j > i => server'[j] = 0
      BY <2>2, <2>4, <2>5 DEF NeverInterleaves
    <3>2. \A k \in 1 .. Len(server) :
             /\ server[k] # 0 => server[k] = k /\ k <= Len(spool)
             /\ server[k] = 0 => \A j \in 1 .. Len(server) : j > k => server[j] = 0
      BY <1>2, <3>1 DEF IInv, NeverInterleaves
    <3>3. \A k \in 1 .. Len(server) + 1 : k \in 1 .. Len(server) \/ k = Len(server) + 1
      BY <1>2
    <3>4. CASE i \in 1 .. Len(server)
      BY <1>2, <2>2, <3>2, <3>3, <3>4
    <3>5. CASE i = Len(server) + 1
      BY <1>2, <2>2, <3>3, <3>5
    <3>6. QED
      BY <3>3, <3>4, <3>5
  <2>7. Straight'
    BY <2>4 DEF Straight
  <2>8. UNCHANGED <<spool, saved, pc, cursor, asked, restores>> /\ LateKnown
    BY <2>5 DEF local, LateKnown
  <2>9. \A g \in Flushers : reply'[g] = reply[g]
    BY <2>5 DEF local
  <2>10. QED
    BY <1>1, <2>3, <2>6, <2>7, <2>8, <2>9, FileGrown
<1>6. CASE Restore
  <2>1. PICK n \in 0 .. Len(server) : server' = SubSeq(server, 1, n)
    BY <1>6 DEF Restore
  <2>2. /\ DOMAIN server' = 1 .. n /\ \A i \in 1 .. n : server'[i] = server[i]
    BY <1>2, <1>1, <2>1, SubSeqProperties, LenProperties, ElementOfSeq DEF TypeOK
  <2>3. restores' # 0
    BY <1>1, <1>6 DEF TypeOK, Restore
  <2>4. UNCHANGED <<spool, saved, local, late, strays>>
    BY <1>6 DEF Restore
  <2>5. Straight'
    BY <1>2, <2>2, <2>4 DEF IInv, Straight, Matches
  <2>6. NeverInterleaves'
    BY <1>2, <2>2, <2>3, <2>4 DEF IInv, NeverInterleaves
  <2>7. \A r \in late : Sound(r)'
    BY <2>4 DEF IInv, Sound
  <2>8. \A f \in Flushers : (pc[f] = "wait" => Sound(asked[f]) /\ asked[f].from = cursor[f])'
    BY <2>4 DEF IInv, Sound, local
  <2>9. QED
    BY <1>1, <2>3, <2>4, <2>5, <2>6, <2>7, <2>8 DEF IInv, AckedIsStored, local
<1>7. ASSUME NEW f \in Flushers, BeginFlush(f) PROVE IInv'
  <2>1. \A g \in Flushers : Untouched(g) \/ Backed(g)
    BY <1>1, <1>7, <1>2 DEF BeginFlush, Goto, Untouched, Backed, IInv, TypeOK
  <2>2. QED
    BY <1>1, <1>7, <1>2, <2>1, FilesAlone DEF BeginFlush, files, budget, LateKnown
<1>8. ASSUME NEW f \in Flushers, PostChunk(f) PROVE IInv'
  <2> DEFINE end == IF cursor[f] + Chunk < Len(spool) THEN cursor[f] + Chunk ELSE Len(spool)
             ends == LineEnds(cursor[f], end)
             last == Largest(ends)
             r == [from |-> cursor[f], data |-> Slice(cursor[f], last)]
  <2>1. end \in Nat /\ end <= Len(spool)
    BY <1>1, LenProperties DEF TypeOK
  <2>2. \A g \in Flushers : Untouched(g) \/ Backed(g) \/ SentOff(g)
    <3>1. CASE ends = {}
      BY <1>8, <1>2, <3>1, LeaveBacked DEF PostChunk
    <3>2. CASE ends # {}
      <4>1. asked' = [asked EXCEPT ![f] = r] /\ pc' = [pc EXCEPT ![f] = "wait"]
        BY <1>8, <3>2 DEF PostChunk, Goto
      <4>2. /\ last \in Nat /\ cursor[f] < last /\ last <= Len(spool) /\ spool[last]
            /\ r.data \in Seq(Nat) /\ Len(r.data) = last - cursor[f]
            /\ \A i \in 1 .. last - cursor[f] : r.data[i] = cursor[f] + i
        <5> HIDE DEF end
        <5> QED BY <1>1, <2>1, <3>2, ChunkType
      <4>3. DOMAIN r.data = 1 .. Len(r.data) /\ r.data # <<>>
        BY <1>2, <4>2, LenProperties, EmptySeq
      <4>4. Sound(r) /\ r.from = cursor[f]
        <5>1. r.from = cursor[f] /\ r.from \in Nat /\ r.from + Len(r.data) = last
          BY <1>2, <4>2
        <5>2. r.data # <<>> /\ \A i \in DOMAIN r.data : r.data[i] = r.from + i
          BY <4>2, <4>3, <5>1
        <5> HIDE DEF r, last
        <5>3. QED
          BY <4>2, <5>1, <5>2 DEF Sound
      <4>5. SentOff(f)
        BY <1>1, <1>8, <3>2, <4>1, <4>4 DEF SentOff, PostChunk, IInv, TypeOK
      <4>6. \A g \in Flushers \ {f} : Untouched(g)
        BY <1>1, <1>8, <3>2, <4>1 DEF Untouched, PostChunk, TypeOK
      <4>7. QED
        BY <4>5, <4>6
    <3>3. QED
      BY <3>1, <3>2
  <2>3. UNCHANGED <<spool, server, saved, strays, restores, late>>
    BY <1>8 DEF PostChunk, files, budget
  <2>4. QED
    BY <1>1, <1>2, <2>2, <2>3, FilesAlone DEF LateKnown
<1>9. ASSUME NEW f \in Flushers, Receive(f) PROVE IInv'
  <2>1. PICK a \in reply[f] :
           \/ /\ a.ok \/ Matches(a.file)
              /\ cursor' = [cursor EXCEPT ![f] =
                              IF a.ok THEN @ + Len(asked[f].data) ELSE Len(a.file)]
              /\ pc' = [pc EXCEPT ![f] = "save"]
              /\ asked' = [asked EXCEPT ![f] = NoRequest]
              /\ reply' = [reply EXCEPT ![f] = {}]
           \/ Leave(f) /\ UNCHANGED cursor
    BY <1>9 DEF Receive, Goto
  <2>2. pc[f] = "wait" /\ UNCHANGED <<spool, server, saved, strays, restores, late>>
    BY <1>9 DEF Receive, files, budget
  <2>3. asked[f].from = cursor[f] /\ (restores = 0 => ReplyTrue(f))
    BY <2>2 DEF IInv
  <2>4. \A g \in Flushers : Untouched(g) \/ Backed(g)
    <3>1. CASE Leave(f) /\ UNCHANGED cursor
      BY <1>2, <3>1, LeaveBacked
    <3>2. CASE /\ a.ok \/ Matches(a.file)
               /\ cursor' = [cursor EXCEPT ![f] =
                               IF a.ok THEN @ + Len(asked[f].data) ELSE Len(a.file)]
               /\ pc' = [pc EXCEPT ![f] = "save"]
               /\ asked' = [asked EXCEPT ![f] = NoRequest]
               /\ reply' = [reply EXCEPT ![f] = {}]
      <4>1. pc'[f] = "save" /\ reply'[f] = {}
        BY <1>1, <3>2 DEF TypeOK
      <4>2. cursor'[f] = IF a.ok THEN cursor[f] + Len(asked[f].data) ELSE Len(a.file)
        BY <1>1, <3>2 DEF TypeOK
      <4>3. restores = 0 => Holds(server, cursor'[f])
        BY <2>3, <3>2, <4>2 DEF ReplyTrue
      <4>4. \A g \in Flushers \ {f} : Untouched(g)
        BY <1>1, <3>2 DEF Untouched, TypeOK
      <4>5. QED
        BY <4>1, <4>3, <4>4 DEF Backed
    <3>3. QED
      BY <2>1, <3>1, <3>2
  <2>5. QED
    BY <1>1, <1>2, <2>2, <2>4, FilesAlone DEF LateKnown
<1>10. ASSUME NEW f \in Flushers, SaveState(f) PROVE IInv'
  <2>1. UNCHANGED <<spool, server, strays, restores, late, cursor>> /\ saved' = cursor[f]
    BY <1>10 DEF SaveState, budget
  <2>2. \A g \in Flushers : Untouched(g) \/ Backed(g)
    <3>1. CASE Leave(f)
      BY <1>2, <2>1, <3>1, LeaveBacked
    <3>2. CASE pc[f] = "save" /\ pc' = [pc EXCEPT ![f] = "read"] /\ UNCHANGED <<asked, reply>>
      BY <1>1, <1>2, <2>1, <3>2 DEF Untouched, Backed, IInv, TypeOK
    <3>3. QED
      BY <1>10, <3>1, <3>2 DEF SaveState, Goto
  <2>3. QED
    BY <1>1, <1>2, <2>1, <2>2, FilesAlone DEF LateKnown
<1>11. ASSUME NEW f \in Flushers, GiveUp(f) PROVE IInv'
  <2>1. UNCHANGED <<spool, server, saved, strays, restores, cursor>> /\ Abandon(f) /\ Leave(f)
    BY <1>11 DEF GiveUp, files, budget
  <2>2. \A g \in Flushers : Untouched(g) \/ Backed(g)
    BY <1>2, <2>1, LeaveBacked
  <2>3. LateKnown
    BY <2>1 DEF LateKnown, Abandon
  <2>4. QED
    BY <1>1, <1>2, <2>1, <2>2, <2>3, FilesAlone
<1>12. ASSUME NEW f \in Flushers, Restart(f) PROVE IInv'
  <2>1. /\ UNCHANGED <<spool, server, saved, strays, restores>> /\ Abandon(f) /\ Leave(f)
        /\ cursor' = [cursor EXCEPT ![f] = saved]
    BY <1>12 DEF Restart, files
  <2>2. cursor'[f] = saved /\ \A g \in Flushers \ {f} : cursor'[g] = cursor[g]
    BY <1>1, <2>1 DEF TypeOK
  <2>3. \A g \in Flushers : Untouched(g) \/ Backed(g)
    BY <1>2, <2>1, <2>2, LeaveBacked
  <2>4. LateKnown
    BY <2>1 DEF LateKnown, Abandon
  <2>5. QED
    BY <1>1, <1>2, <2>1, <2>3, <2>4, FilesAlone
<1>13. ASSUME NEW f \in Flushers, Serve(f) PROVE IInv'
  <2> DEFINE r == asked[f]
             n == r.from + Len(r.data)
  <2>1. /\ pc[f] = "wait" /\ Store(r) /\ late' = late \cup {r}
        /\ reply' = [reply EXCEPT ![f] = {Verdict(r)}]
        /\ UNCHANGED <<spool, saved, pc, cursor, asked, strays, restores>>
    BY <1>13 DEF Serve, budget
  <2>2. r \in Request /\ Sound(r) /\ (restores = 0 => Holds(server, r.from))
    BY <1>1, <1>2, <2>1 DEF IInv, TypeOK
  <2>3. /\ Grown /\ NeverInterleaves' /\ Straight'
        /\ (restores = 0 /\ r.from = Len(server)) => Holds(server', n)
    <3> HIDE DEF r
    <3>1. NeverInterleaves /\ Straight
      BY DEF IInv
    <3>2. QED
      BY <1>1, <2>1, <2>2, <3>1, StoreKeeps
  <2>4. reply'[f] = {Verdict(r)} /\ \A g \in Flushers \ {f} : reply'[g] = reply[g]
    BY <1>1, <2>1 DEF TypeOK
  <2>5. ASSUME restores = 0 PROVE ReplyTrue(f)'
    <3>1. CASE r.from = Len(server)
      <4>1. reply'[f] = {[ok |-> TRUE, file |-> <<>>]}
        BY <2>4, <3>1 DEF Verdict
      <4>2. Holds(server', n)
        BY <2>3, <2>5, <3>1
      <4>3. asked' = asked
        BY <2>1
      <4>4. QED
        BY <4>1, <4>2, <4>3 DEF ReplyTrue, Holds
    <3>2. CASE r.from # Len(server)
      <4>1. reply'[f] = {[ok |-> FALSE, file |-> server]} /\ server' = server
        BY <2>1, <2>4, <3>2 DEF Verdict, Store
      <4>2. Matches(server) => Holds(server', Len(server))
        BY <1>2, <4>1 DEF Matches, Holds
      <4>3. QED
        BY <4>1, <4>2 DEF ReplyTrue, Holds, Matches
    <3>3. QED
      BY <3>1, <3>2
  <2>6. LateKnown
    BY <2>1 DEF LateKnown
  <2>7. \A g \in Flushers : \/ reply'[g] = reply[g]
                            \/ pc[g] = "wait" /\ (restores = 0 => ReplyTrue(g)')
    <3> HIDE DEF r
    <3>1. ASSUME NEW g \in Flushers
          PROVE  \/ reply'[g] = reply[g]
                 \/ pc[g] = "wait" /\ (restores = 0 => ReplyTrue(g)')
      <4>1. CASE g = f
        BY <2>1, <2>5, <4>1
      <4>2. CASE g # f
        BY <2>4, <4>2
      <4>3. QED
        BY <4>1, <4>2
    <3>2. QED
      BY <3>1
  <2>8. UNCHANGED <<spool, saved, pc, cursor, asked, restores>>
    BY <2>1
  <2>9. Grown /\ NeverInterleaves' /\ Straight'
    BY <2>3
  <2>10. QED
    BY <1>1, <2>6, <2>7, <2>8, <2>9, FileGrown
<1>14. ASSUME NEW r \in late, Arrive(r) PROVE IInv'
  <2>1. Store(r) /\ UNCHANGED <<spool, saved, pc, cursor, asked, reply, late, strays, restores>>
    BY <1>14 DEF Arrive, local, budget
  <2>2. /\ r \in Request /\ Sound(r) /\ (restores = 0 => Holds(server, r.from))
        /\ NeverInterleaves /\ Straight
    BY <1>1 DEF IInv, TypeOK
  <2>3. Grown /\ NeverInterleaves' /\ Straight'
    BY <1>1, <2>1, <2>2, StoreKeeps
  <2>4. /\ UNCHANGED <<spool, saved, pc, cursor, asked, restores>> /\ LateKnown
        /\ \A g \in Flushers : reply'[g] = reply[g]
    BY <2>1 DEF LateKnown
  <2>5. QED
    BY <1>1, <2>3, <2>4, FileGrown
<1>15. ASSUME NEW r \in late, CutShort(r) PROVE IInv'
  <2>1. PICK n \in 1 .. Len(r.data) - 1 : server' = server \o SubSeq(r.data, 1, n)
    BY <1>15 DEF CutShort
  <2>2. /\ r.from = Len(server)
        /\ UNCHANGED <<spool, saved, pc, cursor, asked, reply, late, strays, restores>>
    BY <1>15 DEF CutShort, local, budget
  <2>3. /\ r \in Request /\ Sound(r) /\ (restores = 0 => Holds(server, r.from))
        /\ NeverInterleaves /\ Straight
    BY <1>1 DEF IInv, TypeOK
  <2>4. r.data \in Seq(Nat) /\ Len(r.data) \in Nat /\ DOMAIN r.data = 1 .. Len(r.data)
    BY <2>3, LenProperties DEF Request
  <2> DEFINE d == SubSeq(r.data, 1, n)
  <2>5. /\ d \in Seq(Nat) /\ Len(d) = n /\ n <= Len(r.data)
        /\ \A i \in 1 .. n : d[i] = r.data[i]
    BY <2>4, SubSeqProperties, ElementOfSeq
  <2>6. Len(d) <= Len(r.data) /\ \A i \in 1 .. Len(d) : d[i] = r.from + i
    <3>1. \A i \in 1 .. Len(r.data) : r.data[i] = r.from + i
      BY <2>3, <2>4 DEF Sound
    <3>2. n \in Nat /\ \A i \in 1 .. n : i \in 1 .. Len(r.data)
      BY <2>4
    <3> HIDE DEF d
    <3>3. QED
      BY <2>5, <3>1, <3>2
  <2>7. server' = server \o d
    BY <2>1
  <2> HIDE DEF d
  <2>8. UNCHANGED <<spool, strays, restores>>
    BY <2>2
  <2>9. d \in Seq(Nat)
    BY <2>5
  <2>10. Grown /\ NeverInterleaves' /\ Straight'
    BY <1>1, <2>2, <2>3, <2>6, <2>7, <2>8, <2>9, Continues
  <2>11. /\ UNCHANGED <<spool, saved, pc, cursor, asked, restores>> /\ LateKnown
         /\ \A g \in Flushers : reply'[g] = reply[g]
    BY <2>2 DEF LateKnown
  <2>12. QED
    BY <1>1, <2>10, <2>11, FileGrown
<1>16. CASE UNCHANGED vars
  <2>1. UNCHANGED <<spool, server, saved, pc, cursor, asked, reply, late, strays, restores>>
    BY <1>16 DEF vars, files, local, budget
  <2>2. \A g \in Flushers : Untouched(g)
    BY <2>1 DEF Untouched
  <2>3. QED
    BY <1>1, <1>2, <2>1, <2>2, FilesAlone DEF LateKnown
<1>17. QED
  BY <1>3, <1>4, <1>5, <1>6, <1>7, <1>8, <1>9, <1>10, <1>11, <1>12, <1>13, <1>14,
     <1>15, <1>16 DEF Next

\* NeverInterleaves: however requests are lost, late, repeated or cut short,
\* the server's file is a prefix of the spool's (store.py:195-198).
THEOREM NeverInterleavesAlways == Spec => []NeverInterleaves
<1>1. IInv => NeverInterleaves
  BY DEF IInv
<1>2. QED
  BY <1>1, IInvInit, IInvNext, PTL DEF Spec

\* AckedIsStored: no cursor, in hand or on disk, is ever ahead of what the
\* server holds (sync.py:6-8).
THEOREM AckedIsStoredAlways == Spec => []AckedIsStored
<1>1. IInv => AckedIsStored
  BY DEF IInv
<1>2. QED
  BY <1>1, IInvInit, IInvNext, PTL DEF Spec

-----------------------------------------------------------------------------
\* The refinement: a copy that nobody else writes to is a copied file.

\* A server nobody logs into and nobody restores stays one.
SoleWriter == strays = 0 /\ restores = 0

\* The first n units of the spool.
LEMMA SliceFromStart ==
  ASSUME NEW n \in Nat
  PROVE  Slice(0, n) \in Seq(Nat) /\ Len(Slice(0, n)) = n /\ \A i \in 1 .. n : Slice(0, n)[i] = i
<1> DEFINE s == Slice(0, n)
<1>1. 0 \in Nat /\ 0 <= n /\ n - 0 = n
  OBVIOUS
<1>2. s \in Seq(Nat) /\ Len(s) = n - 0 /\ \A i \in 1 .. n - 0 : s[i] = 0 + i
  BY <1>1, SliceType
<1> HIDE DEF s
<1>3. \A i \in 1 .. n : s[i] = i
  BY <1>1, <1>2
<1>4. QED
  BY <1>1, <1>2, <1>3 DEF s

\* The part of the spool that has been written, as the copied file has it.
LEMMA WrittenType ==
  ASSUME TypeOK
  PROVE  /\ Slice(0, Len(spool)) \in Seq(Nat)
         /\ Len(Slice(0, Len(spool))) = Len(spool)
         /\ \A i \in 1 .. Len(spool) : Slice(0, Len(spool))[i] = i
<1>1. Len(spool) \in Nat
  BY LenProperties DEF TypeOK
<1>2. QED
  BY <1>1, SliceFromStart

\* The first units of the spool are a part of what has been written.
LEMMA PrefixOfWritten ==
  ASSUME TypeOK, NEW n \in 0 .. Len(spool), NEW s \in Seq(Nat), Len(s) = n, Matches(s)
  PROVE  s = SubSeq(Slice(0, Len(spool)), 1, n)
<1> DEFINE w == Slice(0, Len(spool))
           p == SubSeq(w, 1, n)
<1>1. w \in Seq(Nat) /\ Len(w) = Len(spool) /\ \A i \in 1 .. Len(spool) : w[i] = i
  BY WrittenType
<1>2. Len(spool) \in Nat /\ n \in Nat
  BY LenProperties DEF TypeOK
<1> HIDE DEF w
<1>3. p \in Seq(Nat) /\ Len(p) = n /\ \A i \in 1 .. n : p[i] = i
  <2>1. 1 \in 1 .. Len(w) + 1 /\ n \in 0 .. Len(w) /\ 1 <= n + 1
    BY <1>1, <1>2
  <2>2. /\ p \in Seq(Nat)
        /\ Len(p) = n - 1 + 1
        /\ \A i \in 1 .. n - 1 + 1 : p[i] = w[1 + i - 1]
    BY <1>1, <1>2, <2>1, SubSeqProperties
  <2>3. n - 1 + 1 = n /\ \A i \in 1 .. n : 1 + i - 1 = i /\ i \in 1 .. Len(spool)
    BY <1>2
  <2>4. QED
    BY <1>1, <2>2, <2>3
<1>4. \A i \in 1 .. n : s[i] = i
  BY <1>2, LenProperties DEF Matches
<1> HIDE DEF p
<1>5. s = p
  BY <1>2, <1>3, <1>4, SeqEqual
<1>6. QED
  BY <1>5 DEF p, w

\* A line, or a part of one, is written.
LEMMA WriteStep ==
  ASSUME IInv, AppendMetric
  PROVE  Copied!Write
<1>1. spool \in Seq(BOOLEAN) /\ Len(spool) \in Nat /\ Len(spool) < MaxSpool
  BY LenProperties DEF IInv, TypeOK, AppendMetric
<1>2. PICK b \in BOOLEAN : spool' = Append(spool, b)
  BY DEF AppendMetric
<1>3. Len(spool') = Len(spool) + 1
  BY <1>1, <1>2, AppendProperties
<1> DEFINE w == Slice(0, Len(spool))
           v == Slice(0, Len(spool) + 1)
           n == Len(spool) + 1
<1>4. w \in Seq(Nat) /\ Len(w) = Len(spool) /\ \A i \in 1 .. Len(spool) : w[i] = i
  BY WrittenType DEF IInv
<1>5. v \in Seq(Nat) /\ Len(v) = n /\ \A i \in 1 .. n : v[i] = i
  <2>1. n \in Nat
    BY <1>1
  <2>2. QED
    BY <2>1, SliceFromStart
<1> HIDE DEF w, v
<1>6. v = Append(w, n)
  <2>1. n \in Nat
    BY <1>1
  <2>2. /\ Append(w, n) \in Seq(Nat) /\ Len(Append(w, n)) = n
        /\ \A i \in 1 .. Len(spool) : Append(w, n)[i] = w[i]
        /\ Append(w, n)[n] = n
    BY <1>1, <1>4, <2>1, AppendProperties
  <2>3. \A i \in 1 .. n : Append(w, n)[i] = v[i]
    BY <1>1, <1>4, <1>5, <2>2
  <2> QED
    BY <1>5, <2>1, <2>2, <2>3, SeqEqual
<1>7. n \in 1 .. MaxSpool
  BY <1>1, SyncAssumption
<1>8. Slice(0, Len(spool))' = Append(Slice(0, Len(spool)), n)
  BY <1>3, <1>6 DEF w, v, Slice
<1>9. server' = server /\ saved' = saved
  BY DEF AppendMetric
<1>10. QED
  BY <1>7, <1>8, <1>9 DEF Copied!Write

\* The server's file grows: by a part of the spool, since both what it was and
\* what it is hold the spool's prefix.
LEMMA ShipStep ==
  ASSUME IInv, IInv', SoleWriter, SoleWriter', spool' = spool, saved' = saved,
         Len(server) <= Len(server')
  PROVE  [Copied!Ship]_(Copied!vars)
<1>1. /\ spool \in Seq(BOOLEAN) /\ server \in Seq(Nat) /\ server' \in Seq(Nat)
      /\ Len(server) \in Nat /\ Len(server') \in Nat /\ Len(spool) \in Nat
  BY LenProperties DEF IInv, TypeOK
<1>2. Matches(server) /\ Matches(server')
  BY DEF IInv, Straight, SoleWriter, Matches
<1>3. Len(server') <= Len(spool)
  <2>1. CASE Len(server') = 0
    BY <1>1, <2>1
  <2>2. CASE Len(server') # 0
    <3>1. Len(server') \in DOMAIN server'
      BY <1>1, <2>2, LenProperties
    <3>2. server'[Len(server')] = Len(server') /\ Len(server') # 0
      BY <1>2, <2>2, <3>1 DEF Matches
    <3>3. server'[Len(server')] <= Len(spool)
      <4>1. NeverInterleaves' /\ strays' = 0
        BY DEF IInv, SoleWriter
      <4>2. \A i \in DOMAIN server' : server'[i] # 0 => i <= Len(spool')
        BY <4>1 DEF NeverInterleaves
      <4>3. QED
        BY <3>1, <3>2, <4>2
    <3>4. QED
      BY <3>2, <3>3
  <2>3. QED
    BY <2>1, <2>2
<1>4. server' = SubSeq(Slice(0, Len(spool)), 1, Len(server'))
  <2>1. Len(server') \in 0 .. Len(spool)
    BY <1>1, <1>3
  <2>2. QED
    BY <1>1, <1>2, <2>1, PrefixOfWritten DEF IInv
<1>5. Slice(0, Len(spool))' = Slice(0, Len(spool))
  BY DEF Slice
<1>6. Len(Slice(0, Len(spool))) = Len(spool)
  BY WrittenType DEF IInv
<1>7. CASE Len(server') = Len(server)
  <2>1. server' = server
    <3>1. \A i \in 1 .. Len(server) : server[i] = server'[i]
      BY <1>1, <1>2, <1>7, LenProperties DEF Matches
    <3>2. QED
      BY <1>1, <1>7, <3>1, SeqEqual
  <2>2. QED
    BY <1>5, <2>1 DEF Copied!vars
<1>8. CASE Len(server') # Len(server)
  <2>1. Len(server') \in Len(server) + 1 .. Len(Slice(0, Len(spool)))
    BY <1>1, <1>3, <1>6, <1>8
  <2>2. QED
    BY <1>4, <1>5, <2>1 DEF Copied!Ship
<1>9. QED
  BY <1>7, <1>8

\* A cursor is saved, or lost: it says no more than the server holds.
LEMMA AckStep ==
  ASSUME IInv, IInv', SoleWriter, SoleWriter', spool' = spool, server' = server
  PROVE  Copied!Ack
<1>1. server \in Seq(Nat) /\ Len(server) \in Nat /\ saved' \in Nat
  BY LenProperties DEF IInv, TypeOK
<1>2. Holds(server, saved)'
  BY DEF IInv, AckedIsStored, SoleWriter
<1>3. \A i \in 1 .. saved' : i \in DOMAIN server
  BY <1>2 DEF Holds
<1>4. saved' <= Len(server)
  <2>1. CASE saved' = 0
    BY <1>1, <2>1
  <2>2. CASE saved' # 0
    <3>1. saved' \in DOMAIN server
      BY <1>1, <1>3, <2>2
    <3>2. QED
      BY <1>1, <3>1, LenProperties
  <2>3. QED
    BY <2>1, <2>2
<1>5. Slice(0, Len(spool))' = Slice(0, Len(spool))
  BY DEF Slice
<1>6. QED
  BY <1>1, <1>4, <1>5 DEF Copied!Ack

\* A chunk that is stored makes the file longer, or leaves it alone.
LEMMA StoreGrows ==
  ASSUME TypeOK, NEW r \in Request, Store(r)
  PROVE  Len(server) <= Len(server')
<1>1. server \in Seq(Nat) /\ r.data \in Seq(Nat) /\ Len(server) \in Nat
  BY LenProperties DEF TypeOK, Request
<1>2. Appended(r) \in Seq(Nat)
  BY <1>1, AppendProperties DEF Appended
<1>3. Len(server \o Appended(r)) = Len(server) + Len(Appended(r)) /\ Len(Appended(r)) \in Nat
  BY <1>1, <1>2, ConcatProperties, LenProperties
<1>4. QED
  BY <1>1, <1>3 DEF Store

LEMMA CutShortGrows ==
  ASSUME TypeOK, NEW r \in Request, CutShort(r)
  PROVE  Len(server) <= Len(server')
<1>1. server \in Seq(Nat) /\ r.data \in Seq(Nat) /\ Len(server) \in Nat /\ Len(r.data) \in Nat
  BY LenProperties DEF TypeOK, Request
<1>2. PICK n \in 1 .. Len(r.data) - 1 : server' = server \o SubSeq(r.data, 1, n)
  BY DEF CutShort
<1> DEFINE d == SubSeq(r.data, 1, n)
<1>3. d \in Seq(Nat)
  BY <1>1, SubSeqProperties
<1> HIDE DEF d
<1>4. Len(server \o d) = Len(server) + Len(d) /\ Len(d) \in Nat
  BY <1>1, <1>3, ConcatProperties, LenProperties
<1>5. QED
  BY <1>1, <1>2, <1>4 DEF d

\* Every step of either side is a step of the copied file, or none.
LEMMA CopiedStep ==
  ASSUME IInv, IInv', SoleWriter, SoleWriter', [Next]_vars
  PROVE  [Copied!Next]_(Copied!vars)
<1>1. TypeOK
  BY DEF IInv
<1>2. CASE AppendMetric
  BY <1>2, WriteStep DEF Copied!Next
<1>3. CASE spool' = spool /\ server' = server
  BY <1>3, AckStep DEF Copied!Next
<1>4. CASE spool' = spool /\ saved' = saved /\ Len(server) <= Len(server')
  BY <1>4, ShipStep DEF Copied!Next
<1>5. ASSUME Stray \/ Restore PROVE FALSE
  <2>1. strays' = strays + 1 \/ restores' = restores + 1
    BY <1>5 DEF Stray, Restore
  <2>2. QED
    BY <2>1 DEF SoleWriter
<1>6. CASE LoseState
  BY <1>3, <1>6 DEF LoseState
<1>7. ASSUME NEW f \in Flushers,
             BeginFlush(f) \/ PostChunk(f) \/ Receive(f) \/ SaveState(f) \/ GiveUp(f) \/ Restart(f)
      PROVE  spool' = spool /\ server' = server
  BY <1>7 DEF BeginFlush, PostChunk, Receive, SaveState, GiveUp, Restart, files
<1>8. ASSUME NEW f \in Flushers, Serve(f)
      PROVE  spool' = spool /\ saved' = saved /\ Len(server) <= Len(server')
  <2>1. asked[f] \in Request /\ Store(asked[f])
    BY <1>1, <1>8 DEF Serve, TypeOK
  <2>2. QED
    BY <1>1, <1>8, <2>1, StoreGrows DEF Serve
<1>9. ASSUME NEW r \in late, Arrive(r) \/ CutShort(r)
      PROVE  spool' = spool /\ saved' = saved /\ Len(server) <= Len(server')
  <2>1. r \in Request
    BY <1>1 DEF TypeOK
  <2>2. QED
    BY <1>1, <1>9, <2>1, StoreGrows, CutShortGrows DEF Arrive, CutShort
<1>10. CASE UNCHANGED vars
  BY <1>3, <1>10 DEF vars, files
<1>11. QED
  BY <1>2, <1>3, <1>4, <1>5, <1>6, <1>7, <1>8, <1>9, <1>10 DEF Next

\* As long as nobody logs into the server's copy and nobody puts back an older
\* one, metric sync implements the copied file, however many requests are lost,
\* late or repeated and whoever dies: the server's file is a prefix of the
\* spool's at every step, never shrinks and never changes behind a reader, and
\* the cursor on disk never says more than it holds (sync.py:1-9).
THEOREM ImplementsCopiedFile ==
  ASSUME MaxStrays = 0, MaxRestores = 0
  PROVE  Spec => IsCopiedFile
<1>1. Init => Copied!Init /\ SoleWriter
  <2> SUFFICES ASSUME Init PROVE Copied!Init /\ SoleWriter
    OBVIOUS
  <2>1. Slice(0, Len(spool)) = <<>>
    <3>1. Len(spool) = 0
      BY DEF Init
    <3>2. Slice(0, 0) \in Seq(Nat) /\ Len(Slice(0, 0)) = 0
      BY SliceFromStart
    <3>3. Slice(0, 0) = <<>>
      BY <3>2, EmptySeq
    <3>4. QED
      BY <3>1, <3>3
  <2>2. QED
    BY <2>1 DEF Init, Copied!Init, SoleWriter
<1>2. SoleWriter /\ [Next]_vars => SoleWriter'
  <2> SUFFICES ASSUME SoleWriter, [Next]_vars PROVE SoleWriter'
    OBVIOUS
  <2>1. ~Stray /\ ~Restore
    BY DEF Stray, Restore, SoleWriter
  <2>2. strays' = strays /\ restores' = restores
    BY <2>1 DEF Next, AppendMetric, LoseState, BeginFlush, PostChunk, Receive, SaveState,
                GiveUp, Restart, Serve, Arrive, CutShort, budget, vars
  <2>3. QED
    BY <2>2 DEF SoleWriter
<1>3. IInv /\ IInv' /\ SoleWriter /\ SoleWriter' /\ [Next]_vars => [Copied!Next]_(Copied!vars)
  BY CopiedStep
<1>4. Init => IInv
  BY IInvInit
<1>5. IInv /\ [Next]_vars => IInv'
  BY IInvNext
<1>6. QED
  BY <1>1, <1>2, <1>3, <1>4, <1>5, PTL DEF Spec, IsCopiedFile, Copied!Spec
=============================================================================
