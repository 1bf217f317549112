----------------------------- MODULE MCChecker ------------------------------
(* Streams for PreflateChecker: all short ones, and those of blocks with    *)
(* trees of their own.  Items are <<literal>> or <<length, distance>>, with  *)
(* a third element if the longest match is sent by the last code but one.   *)
EXTENDS PreflateChecker

IsLiteral(item) == Len(item) = 1
TokensOf(items) ==
  [i \in DOMAIN items |-> IF IsLiteral(items[i]) THEN Literal
                          ELSE Reference(items[i][1], items[i][2], Len(items[i]) = 3)]
DataOf(items) ==
  FoldLeft(LAMBDA d, item : IF IsLiteral(item) THEN Append(d, item[1]) ELSE Copied(d, item[2], item[1]),
           <<>>, items)

\* The codes of the lengths: each on its own, or runs of them as zlib sends
\* them, with those of the two trees apart or together.
RECURSIVE RunCodes(_, _)
RunCodes(lengths, s) ==
  LET type == PredictCodeType(lengths, s.p, s.count1, s.first)
      n == PredictCodeData(lengths, s.p, type, s.count1)
  IN IF s.count1 = 0 THEN <<>>
     ELSE (IF type = 0 THEN <<n>> ELSE <<Rep(type), n>>)
          \o RunCodes(lengths, Passed(s, IF type = 0 THEN 1 ELSE n))

CodesIn(style, lit, dist) ==
  CASE style = "plain" -> lit \o dist
    [] style = "apart" -> RunCodes(lit \o dist, Place(1, Len(lit), Len(dist), TRUE))
    [] style = "together" -> RunCodes(lit \o dist, Place(1, Len(lit) + Len(dist), 0, TRUE))

\* A dynamic block; a tree is the best one if none is given.
DynamicBlock(items, style, lit, dist, own) ==
  LET c == TokenCounts(TokensOf(items), DataOf(items), 0, NoTokenCounts)
      l == IF lit = <<>> THEN Prefix(LitTree(c).lengths, LitTree(c).size) ELSE lit
      d == IF dist = <<>> THEN Prefix(DistTree(c).lengths, DistTree(c).size) ELSE dist
      codes == CodesIn(style, l, d)
      best == PredictedCodeTree(CodeCounts(codes, NoCodeCounts))
      sent == IF own = <<>> THEN Prefix(best.sent, best.size) ELSE own
  IN [EmptyBlock EXCEPT !.type = "dynamic", !.nlen = Len(l), !.ndist = Len(d), !.ncode = Len(sent),
        !.codes = sent \o codes, !.tokens = TokensOf(items), !.size = Len(DataOf(items))]

StaticBlock(items) ==
  [EmptyBlock EXCEPT !.type = "static", !.tokens = TokensOf(items), !.size = Len(DataOf(items))]

Items == {<<>>, <<<<0>>>>, <<<<1>>, <<0>>, <<2, 1>>>>, <<<<0>>, <<4, 1, 1>>, <<1>>, <<3, 4>>>>,
          <<<<0>>, <<0>>, <<0>>, <<1>>, <<2, 1>>, <<3, 2>>, <<4, 3>>, <<0>>, <<0>>, <<1>>, <<0>>, <<0>>, <<0>>>>}
FlatCodes == <<3, 3, 3, 3, 3, 3, 2>>
OwnTrees == {<< <<2, 2, 3, 3, 3, 3>>, <<1, 2, 2>> >>, << <<1, 3, 3, 3, 3>>, <<2, 2, 1>> >>,
             << <<3, 3, 3, 3, 2, 2>>, <<1, 1>> >>, << <<>>, <<>> >>}

\* A tree has a code for all that is counted.
Covers(tree, freq) ==
  tree # <<>> => \A i \in DOMAIN freq : freq[i] > 0 => i <= Len(tree) /\ tree[i] > 0
Fits(items, t) ==
  LET c == TokenCounts(TokensOf(items), DataOf(items), 0, NoTokenCounts)
  IN Covers(t[1], c.lit) /\ Covers(t[2], c.dist)

DynamicBlocks ==
  UNION {{[block |-> DynamicBlock(items, style, t[1], t[2], own), data |-> DataOf(items)] :
            style \in {"plain", "apart", "together"}, t \in {t \in OwnTrees : Fits(items, t)},
            own \in {<<>>, FlatCodes}} : items \in Items}
StaticBlocks == {[block |-> StaticBlock(items), data |-> DataOf(items)] : items \in Items}

\* The bytes of some blocks with some bits behind the last one.
RECURSIVE Written(_, _, _)
Written(bs, w, tail) ==
  LET b == bs[1]
      g == WriteBlock(w, b.block, Len(bs) = 1, b.data, 0)
  IN IF bs = <<>> THEN Flush(Put(w, tail, ByteBits - 1)).written
     ELSE IF ~g.ok THEN <<>>
     ELSE Written(Tail(bs), g.writer, tail)

\* Two blocks with an aligned stored one, or nothing, between them.
StoredBlock(bytes) ==
  [block |-> [EmptyBlock EXCEPT !.size = Len(bytes), !.pad = 0, !.padBits = 0], data |-> bytes]
Sample == {[block |-> DynamicBlock(items, "together", t[1], t[2], FlatCodes), data |-> DataOf(items)] :
             items \in {items \in Items : Len(items) = 3}, t \in {t \in OwnTrees : t[1] # <<>>}}
          \cup {b \in StaticBlocks : Len(b.data) \in {0, 4}}
MCStreams ==
  {<<a, b, c>> : a \in 0..15, b \in 0..15, c \in 0..15}
  \cup {Written(<<b>>, Writer, tail) : b \in DynamicBlocks \cup StaticBlocks, tail \in {0, 5}}
  \cup {Written(<<a, b>>, Writer, 0) : a \in StaticBlocks, b \in Sample}
  \cup {Front(Written(<<b>>, Writer, 0)) : b \in DynamicBlocks}
  \cup {<<1, 0, 12, 3>>}   \* a stored block of no bytes that starts after three bits
  \cup {Written(<<a, StoredBlock(<<1, 0>>), b>>, Writer, 0) : a \in Sample, b \in Sample}

Guess(kind, ref, value) == Prediction(kind, ref, value)
MCOwnCodes ==
  {<<Guess("eob wrong", 0, 0)>>,
   <<Guess("literal wrong", 0, 1), Guess("length", 3, 9), Guess("distance only", 0, 6),
     Guess("irregular", 0, 1), Guess("reference wrong", 0, 0), Guess("length", 5, 4),
     Guess("distance after length", 0, 1), Guess("eob wrong", 0, 1), Guess("bits", 3, 5)>>}

MCParameters ==
  {[level |-> 6, mem |-> 8, window |-> 15, zlib |-> TRUE, far |-> FALSE, start |-> FALSE, depth |-> 0],
   [level |-> 3, mem |-> 9, window |-> 12, zlib |-> FALSE, far |-> TRUE, start |-> FALSE, depth |-> 5]}

MCLenBase == <<0, 1, 2>>
MCLenExtra == <<0, 1, 0>>
MCDistBase == <<0, 1, 2>>
MCDistExtra == <<0, 0, 1>>
MCStaticLit == <<2, 3, 3, 3, 3, 3, 4, 4>>
MCStaticDist == <<2, 2, 2, 2>>
MCTCOrder == <<4, 5, 6, 0, 2, 1, 3>>
MCRepMin == <<2, 2, 4>>
MCRepExtra == <<1, 1, 2>>
MCHeadBits == <<2, 2, 2>>
MCLenRange == <<2, 9>>
MCHopRange == <<0, 9>>
=============================================================================
