----------------------------- MODULE CopiedFile -----------------------------
(***************************************************************************)
(* What a flush promises of a file that grows, whatever the network and    *)
(* the processes do: the server's copy is at all times a prefix of the     *)
(* spool's file and never shrinks, and the cursor on disk never runs ahead *)
(* of what the copy holds (src/mlparty/sync.py:1-9).  It is said of one    *)
(* run's metrics.jsonl and of the journal of events.                       *)
(***************************************************************************)
EXTENDS Integers, Sequences

CONSTANT Units      \* the contents a unit of the file may have

VARIABLES file, copy, acked

vars == <<file, copy, acked>>

Init == file = <<>> /\ copy = <<>> /\ acked = 0

Write == /\ \E u \in Units : file' = Append(file, u)
         /\ UNCHANGED <<copy, acked>>

\* The cursor may be saved with the reply.
Ship == /\ \E n \in Len(copy) + 1 .. Len(file) :
             copy' = SubSeq(file, 1, n) /\ acked' \in {acked} \cup 0 .. n
        /\ UNCHANGED file

Ack == /\ acked' \in 0 .. Len(copy)
       /\ UNCHANGED <<file, copy>>

Next == Write \/ Ship \/ Ack
Spec == Init /\ [][Next]_vars
=============================================================================
