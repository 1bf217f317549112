----------------------------- MODULE MCContainer -----------------------------
(***************************************************************************)
(* Container on inputs of up to 14 bytes that repeat themselves, in chunks *)
(* of 2 bytes, with every choice of up to four (or five) streams that      *)
(* overlap, cross into the next chunk, repeat others or are not confirmed. *)
(***************************************************************************)
EXTENDS Container

Str(found, pos, old, new, ok) ==
  [found |-> found, pos |-> pos, old |-> old, new |-> new, ok |-> ok]

Lists(candidates, n) ==
  {s \in UNION {[1 .. k -> candidates] : k \in 0 .. n} :
     \A i \in 2 .. Len(s) : s[i - 1] # s[i] /\ s[i - 1].pos <= s[i].pos}

Mixed == <<1, 2, 3, 1, 2, 3, 1, 2, 1, 2, 3, 3, 1, 2>>
MixedStreams ==
  {Str(0, 0, 2, 1, TRUE), Str(0, 0, 3, 2, TRUE), Str(1, 1, 2, 4, FALSE), Str(2, 3, 3, 2, TRUE),
   Str(3, 3, 2, 2, TRUE), Str(5, 6, 3, 1, TRUE), Str(8, 8, 4, 2, TRUE), Str(6, 6, 2, 1, TRUE), Str(8, 8, 3, 5, TRUE),
   Str(10, 10, 1, 1, TRUE), Str(11, 12, 2, 1, TRUE)}

\* Pairs of equal streams of two, one and three bytes, each over before the
\* next begins, and one that comes again at the end.
Pairs == <<1, 2, 1, 2, 5, 5, 3, 3, 4, 3, 3, 4, 1, 2>>
PairStreams ==
  {Str(0, 0, 2, 1, TRUE), Str(2, 2, 2, 3, TRUE), Str(4, 4, 1, 1, TRUE), Str(5, 5, 1, 1, TRUE),
   Str(6, 6, 2, 2, TRUE), Str(6, 6, 3, 3, TRUE), Str(9, 9, 2, 1, TRUE), Str(9, 9, 3, 1, TRUE),
   Str(12, 12, 2, 4, TRUE)}

MCFiles ==
  {[bytes |-> Mixed, streams |-> s] : s \in Lists(MixedStreams, 4)}
    \cup {[bytes |-> Pairs, streams |-> s] : s \in Lists(PairStreams, 5)}
    \cup {[bytes |-> <<>>, streams |-> <<>>]}

MCInputSizes == {0, 1, 5, 6, 9, 13, 14}
==============================================================================
