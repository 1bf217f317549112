----------------------------- MODULE MatchChain -----------------------------
(***************************************************************************)
(* What the hash chains of preflate promise (src/contrib/preflate,         *)
(* PreflateHashChainExt): of the positions that were put into the chains,  *)
(* those within the window of the current position.  A call of the         *)
(* predictor enters every position it passes, or the first one alone.      *)
(***************************************************************************)
EXTENDS Integers, Sequences

CONSTANTS
  Byte,     \* the bytes of the input
  Window    \* the largest distance of a reference (2^15)

VARIABLES
  input,    \* the uncompressed data
  pos,      \* the position in it
  nodes     \* the positions of the chains that are still in the window

vars == <<input, pos, nodes>>

\* The last two positions of the input have no three bytes and no hash.
Hashable(in, q) == q + 2 < Len(in)

InWindow(set, at) == {q \in set : at - q <= Window}

Init ==
  /\ input \in Seq(Byte)
  /\ pos = 0
  /\ nodes = {}

(***************************************************************************)
(* All the positions of the next n bytes enter the chains, or the first    *)
(* one alone when the n bytes are skipped.                                 *)
(***************************************************************************)
Advance(n, new) ==
  /\ pos + n <= Len(input)
  /\ pos' = pos + n
  /\ nodes' = InWindow(nodes \cup {q \in new : Hashable(input, q)}, pos + n)
  /\ UNCHANGED input

Next ==
  \E n \in 1..(Len(input) - pos) :
    \/ Advance(n, pos..(pos + n - 1))
    \/ Advance(n, {pos})

Spec == Init /\ [][Next]_vars
=============================================================================
