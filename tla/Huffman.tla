------------------------------- MODULE Huffman -------------------------------
(***************************************************************************)
(* The canonical Huffman codes of preflate's support/huffman files.  A     *)
(* tree is the sequence of the lengths of its codes, that of symbol s at   *)
(* s + 1; a symbol of length 0 has no code.  All trees of preflate fit the *)
(* first table of the decoder, so looking a code up is finding the one the *)
(* next bits start with.                                                   *)
(***************************************************************************)
EXTENDS BitStream

Longest(lengths) == Max(ToSet(lengths))
Count(lengths, l) == Cardinality({i \in DOMAIN lengths : lengths[i] = l})

\* The first code of each length.
NextCode(lengths) ==
  LET c[l \in 0..Longest(lengths)] ==
        IF l <= 1 THEN 0 ELSE 2 * (c[l - 1] + Count(lengths, l - 1))
  IN c

\* countSymbols: no holes, or one symbol in all.  A tree with one code and
\* unused symbols is refused.
Buildable(lengths) ==
  /\ lengths # <<>>
  /\ Longest(lengths) > 0
  /\ \/ Len(lengths) = 1
     \/ LET m == Longest(lengths) IN NextCode(lengths)[m] + Count(lengths, m) = 2^m

Code(lengths, symbol) ==
  LET l == lengths[symbol + 1]
  IN NextCode(lengths)[l] + Count(SubSeq(lengths, 1, symbol), l)

\* The bits of the code of a symbol, the first one to be sent first.
CodeBits(lengths, symbol) ==
  LET l == lengths[symbol + 1]
  IN IF l = 0 THEN <<>> ELSE Reverse(BitsOf(Code(lengths, symbol), l))

Encode(w, lengths, symbol) ==
  Put(w, NumberOf(CodeBits(lengths, symbol)), lengths[symbol + 1])

\* Bits that are no code (a tree of one symbol has some) give symbol 0 and
\* are not consumed.
Decode(r, lengths) ==
  LET Hits(s) == {i \in DOMAIN lengths :
                    /\ lengths[i] > 0
                    /\ BitsOf(Peek(s, lengths[i]), lengths[i]) = CodeBits(lengths, i - 1)}
      Hit(s, hits) ==
        IF hits = {} THEN [value |-> 0, reader |-> s]
        ELSE With(CHOOSE i \in hits : TRUE,
                  LAMBDA i : [value |-> i - 1, reader |-> Skip(s, lengths[i])])
  IN With(Filled(r, Longest(lengths)), LAMBDA s : Hit(s, Hits(s)))
=============================================================================
