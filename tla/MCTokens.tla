------------------------------ MODULE MCTokens ------------------------------
EXTENDS TokenPredictor
CONSTANTS a, b, N
Byte == {a, b}
HashDef == [t \in Byte \X Byte \X Byte |-> IF t[1] = t[2] /\ t[2] = t[3] THEN t[1] ELSE b]
Slow == [maxChain |-> 4, nice |-> 4, good |-> 4, lazy |-> 4, fast |-> FALSE, zlib |-> TRUE,
         depth |-> 2, veryFar |-> FALSE, toStart |-> FALSE, last |-> TRUE, offset |-> 0]
Fast == [Slow EXCEPT !.fast = TRUE, !.lazy = 3, !.good = 3]
Other == [Slow EXCEPT !.zlib = FALSE, !.depth = 1, !.veryFar = TRUE, !.toStart = TRUE,
                      !.last = FALSE]
Short == [Slow EXCEPT !.good = 3, !.nice = 5, !.toStart = TRUE]

\* All data of N bytes without context; and data behind a context: in which a
\* match is followed by a longer one (a lazy match), in which a shorter match
\* is nearer than the longest one, and in which the run before a run is just
\* out of the reach of all but the first hop.
Whole == [input : {<<a>> \o s : s \in [1..(N - 1) -> Byte]}, config : {Slow, Fast, Other, Short}]
Behind(offset, inputs) ==
  [input : inputs, config : {[c EXCEPT !.offset = offset] : c \in {Slow, Fast, Other, Short}}]
LazyMatch == {<<a, a, b, b, b, a, b, b, a, b, b>>, <<a, b, a, a, a, b, a, a, b, a, a>>}
FarMatch == {<<a, a, b, a, a, b, a, b, a, a, b>>, <<a, a, b, a, b, a, a, b, a, b, b>>}
FarRun == {<<b, a, a, a, b, b, b, a, a, a, b>>}
MCCases == Whole \cup Behind(5, LazyMatch) \cup Behind(6, FarMatch \cup FarRun)
=============================================================================
