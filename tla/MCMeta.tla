------------------------------- MODULE MCMeta --------------------------------
(* Streams of blocks of these sizes for MetaBlocks; the last one may break   *)
(* off, and one of them may be more than the predictors manage.             *)
EXTENDS MetaBlocks

Sizes == {0, 1, 3, 5}
SizeSeqs == UNION {[1..n -> Sizes] : n \in 1..4}
Stream(sizes, bad, odd, pad, extra) ==
  [blocks |-> [i \in DOMAIN sizes |->
                 [type |-> (i + sizes[i]) % 3, size |-> sizes[i], ok |-> i # bad, fits |-> i # odd]],
   pad |-> pad, extra |-> extra]
MCStreams ==
  {Stream(s, 0, 0, Len(s) + s[1], FALSE) : s \in SizeSeqs}
  \cup {Stream(s, Len(s), 0, 0, FALSE) : s \in {s \in SizeSeqs : Len(s) = 3}}
  \cup {Stream(s, 0, odd, 0, FALSE) : s \in {s \in SizeSeqs : Len(s) = 3}, odd \in 1..3}
  \cup {Stream(<<1>>, 0, 0, 0, TRUE)}

MCParameters ==
  {[level |-> 6, mem |-> 8, window |-> 15, zlib |-> TRUE, far |-> FALSE, start |-> FALSE, depth |-> 0],
   [level |-> 3, mem |-> 9, window |-> 12, zlib |-> FALSE, far |-> TRUE, start |-> FALSE, depth |-> 5]}
MCRange == <<0, 9>>
MCRepRange == <<MCRange, MCRange, MCRange>>
=============================================================================
