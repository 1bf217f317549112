----------------------------- MODULE ByteQueue -----------------------------
(***************************************************************************)
(* What the cache streams of common/Utils.pas promise: the bytes put into  *)
(* the stream come out of it, in order, none invented, none twice.  A byte *)
(* is its number in the stream.  How far the output is behind the input is *)
(* left open.                                                              *)
(***************************************************************************)
EXTENDS Integers, Sequences

VARIABLES
  sent,       \* bytes put in so far: 0 .. sent - 1
  delivered   \* the bytes that have come out, in order

Bytes(first, n) == [j \in 1 .. n |-> first + j - 1]

Init == sent = 0 /\ delivered = <<>>

Next ==
  /\ sent' \in Nat /\ sent' >= sent
  /\ \E n \in 0 .. sent' - Len(delivered) :
       delivered' = delivered \o Bytes(Len(delivered), n)

Spec == Init /\ [][Next]_<<sent, delivered>>

=============================================================================
