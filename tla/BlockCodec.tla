----------------------------- MODULE BlockCodec ------------------------------
(***************************************************************************)
(* Reading a deflate block into a record of its tokens and writing it back *)
(* bit by bit (preflate_block_decoder.cpp, preflate_block_reencoder.cpp).  *)
(* The constants are the tables of the format, so that a small alphabet    *)
(* has every kind of symbol: literals, the end of block, length codes with *)
(* and without extra bits, distances, the three repeats of a code tree.    *)
(***************************************************************************)
EXTENDS Huffman

CONSTANTS
  LitCount,               \* literals (256); the end of block is symbol LitCount
  MinMatch,               \* the shortest reference (3)
  LenBase, LenExtra,      \* of the length codes (29)
  DistBase, DistExtra,    \* of the distance codes (30)
  StaticLit, StaticDist,  \* the trees of a static block (288 and 32 symbols)
  MaxBits,                \* the longest code of a tree (15)
  TCBits,                 \* the bits of a length of the code tree (3)
  TCOrder,                \* the order those lengths are sent in
  TCMin,                  \* at least so many of them are (4)
  RepMin, RepExtra,       \* of the repeats 16, 17, 18
  HeadBits,               \* of nlen, ndist and ncode (5, 5, 4)
  SizeBits                \* of the size of a stored block (16)

NonLen == LitCount + 1
LenCodes == Len(LenBase)
DistCodes == Len(DistBase)
MaxMatch == MinMatch + LenBase[LenCodes]
Rep(k) == MaxBits + k     \* RepLast is Rep(1), the runs of zero are Rep(2) and Rep(3)

\* The code of a length, and of a distance.
LCode(len) == Max({c \in 0..LenCodes - 1 : LenBase[c + 1] <= len - MinMatch})
DCode(dist) == Max({c \in 0..DistCodes - 1 : DistBase[c + 1] <= dist - 1})

Literal == [len |-> 1, dist |-> 0, irregular |-> FALSE]
Reference(len, dist, irregular) == [len |-> len, dist |-> dist, irregular |-> irregular]

\* What a block is made of; a field that its type has no use for is left empty.
EmptyBlock == [type |-> "stored", size |-> 0, pad |-> 0, padBits |-> 0,
               nlen |-> 0, ndist |-> 0, ncode |-> 0, codes |-> <<>>, tokens |-> <<>>]

\* isEqual (preflate_token.cpp): the size of a stored block and the flag of a
\* token are not compared.
SameBlock(a, b) ==
  /\ a.type = b.type
  /\ a.type = "dynamic" => <<a.nlen, a.ndist, a.ncode, a.codes>> = <<b.nlen, b.ndist, b.ncode, b.codes>>
  /\ a.type # "stored" =>
       /\ Len(a.tokens) = Len(b.tokens)
       /\ \A i \in DOMAIN a.tokens : a.tokens[i].len = b.tokens[i].len /\ a.tokens[i].dist = b.tokens[i].dist

-----------------------------------------------------------------------------
\* The lengths that the codes of a code tree stand for: a length, or a repeat
\* and its count.
RECURSIVE Unpacked(_, _)
Unpacked(codes, lengths) ==
  IF codes = <<>> THEN lengths
  ELSE IF codes[1] <= MaxBits THEN Unpacked(Tail(codes), Append(lengths, codes[1]))
  ELSE LET tocopy == IF codes[1] = Rep(1) THEN Last(lengths) ELSE 0
       IN Unpacked(Drop(codes, 2), lengths \o [i \in 1..codes[2] |-> tocopy])

\* The lengths of the code tree, which are sent in the order of TCOrder.
CodeTree(sent) ==
  [s \in 1..Len(TCOrder) |->
     LET at == {i \in DOMAIN sent : TCOrder[i] = s - 1}
     IN IF at = {} THEN 0 ELSE sent[CHOOSE i \in at : TRUE]]

\* The literal and the distance tree of a dynamic block.
LitLengths(b) == Prefix(Unpacked(Drop(b.codes, b.ncode), <<>>), b.nlen)
DistLengths(b) == Drop(Unpacked(Drop(b.codes, b.ncode), <<>>), b.nlen)
Trees(b) ==
  IF b.type = "dynamic" THEN [lit |-> LitLengths(b), dist |-> DistLengths(b)]
  ELSE [lit |-> StaticLit, dist |-> StaticDist]

-----------------------------------------------------------------------------
(***************************************************************************)
(* The block decoder.  ReadBlock returns whether the block was accepted,   *)
(* the block, whether it is the last, the output and the reader after it.  *)
(***************************************************************************)
Refused(r, out) == [ok |-> FALSE, block |-> EmptyBlock, last |-> FALSE, out |-> out, reader |-> r]

\* The codes of the trees, up to n lengths.
RECURSIVE ReadCodes(_, _, _, _, _)
ReadCodes(r, tree, n, codes, lengths) ==
  IF Len(lengths) >= n THEN [ok |-> TRUE, codes |-> codes, lengths |-> lengths, reader |-> r]
  ELSE
    LET bad == [ok |-> FALSE, codes |-> codes, lengths |-> lengths, reader |-> r]
        tocopy(k) == IF k = 1 THEN Last(lengths) ELSE 0
        \* the lengths of a code: itself, or those that the k-th repeat stands for
        Lengths(g, k) ==
          IF k <= 0 THEN [codes |-> <<g.value>>, lengths |-> <<g.value>>, reader |-> g.reader]
          ELSE With(Get(g.reader, RepExtra[k]), LAMBDA h :
                 [codes |-> <<g.value, RepMin[k] + h.value>>, reader |-> h.reader,
                  lengths |-> [i \in 1..RepMin[k] + h.value |-> tocopy(k)]])
    IN With(Decode(r, tree), LAMBDA g :
         IF g.value = Rep(1) /\ lengths = <<>> THEN bad
         ELSE With(Lengths(g, g.value - MaxBits), LAMBDA new :
                IF Len(lengths) + Len(new.lengths) > n THEN bad
                ELSE ReadCodes(new.reader, tree, n, codes \o new.codes, lengths \o new.lengths)))

ReadDynamicTables(r) ==
  LET bad == [ok |-> FALSE]
      Tables(b, c, lit, dist) ==
        IF lit[NonLen] # 0 /\ Buildable(lit) /\ Buildable(dist)
        THEN [ok |-> TRUE, reader |-> c.reader, lit |-> lit, dist |-> dist,
              block |-> [b EXCEPT !.codes = c.codes]]
        ELSE bad
      Read(b, sent) ==
        With(CodeTree(sent.value), LAMBDA tree :
          IF ~Buildable(tree) THEN bad
          ELSE With(ReadCodes(sent.reader, tree, b.nlen + b.ndist, sent.value, <<>>), LAMBDA c :
                 IF c.ok THEN Tables(b, c, Prefix(c.lengths, b.nlen), Drop(c.lengths, b.nlen))
                 ELSE bad))
  IN With(GetAll(r, HeadBits), LAMBDA head :
       With([EmptyBlock EXCEPT !.type = "dynamic", !.nlen = NonLen + head.value[1],
                               !.ndist = 1 + head.value[2], !.ncode = TCMin + head.value[3]], LAMBDA b :
         IF b.nlen > NonLen + LenCodes \/ b.ndist > DistCodes THEN bad
         ELSE Read(b, GetAll(head.reader, [i \in 1..b.ncode |-> TCBits]))))

Copied(out, dist, len) ==
  FoldLeft(LAMBDA o, i : Append(o, o[Len(o) - dist + 1]), out, [i \in 1..len |-> i])

\* The length that the code lcode begins, and the distance behind it.
ReadLength(r, lcode) ==
  [Get(r, LenExtra[lcode + 1]) EXCEPT !.value = MinMatch + LenBase[lcode + 1] + @]
ReadDist(r, tree) ==
  With(Decode(r, tree), LAMBDA d :
    IF d.value >= DistCodes THEN [ok |-> FALSE]
    ELSE With(Get(d.reader, DistExtra[d.value + 1]), LAMBDA extra :
           [ok |-> TRUE, value |-> 1 + DistBase[d.value + 1] + extra.value, reader |-> extra.reader]))

ReadReference(r, lcode, tree) ==
  LET irregular(len) == len = MaxMatch /\ lcode # LenCodes - 1
  IN IF lcode >= LenCodes THEN [ok |-> FALSE]
     ELSE With(ReadLength(r, lcode), LAMBDA len : With(ReadDist(len.reader, tree), LAMBDA d :
            IF ~d.ok THEN d
            ELSE [d EXCEPT !.value = Reference(len.value, @, irregular(len.value))]))

RECURSIVE ReadTokens(_, _, _, _)
ReadTokens(r, out, trees, tokens) ==
  LET failed == [ok |-> FALSE, tokens |-> tokens, out |-> out, reader |-> r]
      Referred(g) ==
        IF ~g.ok \/ g.value.dist > Len(out) THEN failed
        ELSE ReadTokens(g.reader, Copied(out, g.value.dist, g.value.len), trees, Append(tokens, g.value))
  IN IF AtEnd(r) THEN failed
     ELSE With(Decode(r, trees.lit), LAMBDA g :
            IF g.value < LitCount
            THEN ReadTokens(g.reader, Append(out, g.value), trees, Append(tokens, Literal))
            ELSE IF g.value = LitCount
            THEN [ok |-> TRUE, tokens |-> tokens, out |-> out, reader |-> g.reader]
            ELSE Referred(ReadReference(g.reader, g.value - NonLen, trees.dist)))

\* The bits that are skipped before the size of a stored block are counted
\* from the bits read so far, not from those that are left of the byte.
ReadStored(r, out) ==
  LET padBits == r.total % ByteBits
      \* the padding, the size and its complement
      Copy(head, len) ==
        With(CopyBytes(head.reader, len), LAMBDA bytes :
          IF len + head.value[3] # 2^SizeBits - 1 \/ Len(bytes.value) # len THEN Refused(r, out)
          ELSE [ok |-> TRUE, last |-> FALSE, out |-> out \o bytes.value, reader |-> bytes.reader,
                block |-> [EmptyBlock EXCEPT !.size = len, !.pad = head.value[1], !.padBits = padBits]])
  IN With(GetAll(r, <<padBits, SizeBits, SizeBits>>), LAMBDA head : Copy(head, head.value[2]))

ReadTables(r, mode) ==
  IF mode = 1
  THEN [ok |-> TRUE, reader |-> r, lit |-> StaticLit, dist |-> StaticDist,
        block |-> [EmptyBlock EXCEPT !.type = "static"]]
  ELSE ReadDynamicTables(r)

ReadHuffman(r, out, mode) ==
  With(ReadTables(r, mode), LAMBDA tables :
    IF ~tables.ok THEN Refused(r, out)
    ELSE With(ReadTokens(tables.reader, out, tables, <<>>), LAMBDA t :
           IF ~t.ok THEN Refused(t.reader, t.out)
           ELSE [ok |-> TRUE, last |-> FALSE, out |-> t.out, reader |-> t.reader,
                 block |-> [tables.block EXCEPT !.tokens = t.tokens, !.size = Len(t.out) - Len(out)]]))

ReadBlock(r, out) ==
  With(GetAll(r, <<1, 2>>), LAMBDA head :
    IF AtEnd(r) \/ head.value[2] = 3 THEN Refused(r, out)
    ELSE [(IF head.value[2] = 0 THEN ReadStored(head.reader, out)
           ELSE ReadHuffman(head.reader, out, head.value[2])) EXCEPT !.last = (head.value[1] = 1)])

-----------------------------------------------------------------------------
(***************************************************************************)
(* The block re-encoder.  Each step returns the writer and whether all     *)
(* went well; the data are those of the blocks, at is the place in them.   *)
(***************************************************************************)
RECURSIVE WriteCodes(_, _, _, _, _)
WriteCodes(w, tree, codes, n, maxo) ==
  LET bad == [ok |-> FALSE, writer |-> w]
      code == codes[1]
      k == code - MaxBits
  IN IF codes = <<>> THEN [ok |-> n = maxo, writer |-> w]
     ELSE IF code > Rep(3) THEN bad
     ELSE With(Encode(w, tree, code), LAMBDA v :
            IF k <= 0
            THEN IF n >= maxo THEN bad ELSE WriteCodes(v, tree, Tail(codes), n + 1, maxo)
            ELSE IF Len(codes) = 1 \/ (k = 1 /\ n = 0) \/ n + codes[2] > maxo THEN bad
            ELSE WriteCodes(Put(v, codes[2] - RepMin[k], RepExtra[k]), tree, Drop(codes, 2),
                            n + codes[2], maxo))

WriteDynamicTables(w, b) ==
  LET sent == Prefix(b.codes, b.ncode)
      ranges == /\ b.ncode \in TCMin..Len(TCOrder)
                /\ Len(b.codes) >= b.ncode
                /\ b.nlen \in NonLen..NonLen + LenCodes
                /\ b.ndist \in 1..DistCodes
      Good(lit, dist) == lit[NonLen] # 0 /\ Buildable(lit) /\ Buildable(dist)
      Write(v, tree) ==
        IF ~Buildable(tree) THEN [ok |-> FALSE, writer |-> v]
        ELSE [WriteCodes(v, tree, Drop(b.codes, b.ncode), 0, b.nlen + b.ndist)
                EXCEPT !.ok = @ /\ Good(LitLengths(b), DistLengths(b))]
  IN With(PutAll(w, <<b.nlen - NonLen, b.ndist - 1, b.ncode - TCMin>>, HeadBits), LAMBDA head :
       IF ~ranges THEN [ok |-> FALSE, writer |-> head]
       ELSE Write(PutAll(head, sent, [i \in DOMAIN sent |-> TCBits]), CodeTree(sent)))

\* A longest match that was sent with the last code but one is sent so again.
WriteLength(w, lit, t) ==
  LET c == LCode(t.len)
  IN IF t.irregular
     THEN Put(Encode(w, lit, NonLen + LenCodes - 2), 2^LenExtra[LenCodes - 1] - 1, LenExtra[LenCodes - 1])
     ELSE Put(Encode(w, lit, NonLen + c), t.len - MinMatch - LenBase[c + 1], LenExtra[c + 1])

WriteDist(w, dist, t) ==
  LET c == DCode(t.dist)
  IN Put(Encode(w, dist, c), t.dist - 1 - DistBase[c + 1], DistExtra[c + 1])

RECURSIVE WriteTokens(_, _, _, _, _)
WriteTokens(w, trees, tokens, data, at) ==
  IF tokens = <<>> THEN [ok |-> TRUE, writer |-> Encode(w, trees.lit, LitCount), at |-> at]
  ELSE LET t == tokens[1]
       IN IF t.len # 1
          THEN WriteTokens(WriteDist(WriteLength(w, trees.lit, t), trees.dist, t), trees,
                           Tail(tokens), data, at + t.len)
          ELSE IF at >= Len(data) THEN [ok |-> FALSE, writer |-> w, at |-> at]
          ELSE WriteTokens(Encode(w, trees.lit, data[at + 1]), trees, Tail(tokens), data, at + 1)

WriteStored(w, b, data, at) ==
  With(PutAll(FillByte(Put(w, b.pad, b.padBits)), <<b.size, 2^SizeBits - 1 - b.size>>, <<SizeBits, SizeBits>>),
       LAMBDA v :
    IF at + b.size > Len(data) THEN [ok |-> FALSE, writer |-> v, at |-> at]
    ELSE [ok |-> TRUE, writer |-> PutBytes(v, SubSeq(data, at + 1, at + b.size)), at |-> at + b.size])

WriteBlock(w, b, last, data, at) ==
  LET mode == CASE b.type = "stored" -> 0 [] b.type = "static" -> 1 [] b.type = "dynamic" -> 2
      Tables(head) ==
        IF b.type = "dynamic" THEN WriteDynamicTables(head, b) ELSE [ok |-> TRUE, writer |-> head]
      Rest(tables) ==
        IF ~tables.ok THEN [ok |-> FALSE, writer |-> tables.writer, at |-> at]
        ELSE WriteTokens(tables.writer, Trees(b), b.tokens, data, at)
  IN With(PutAll(w, <<IF last THEN 1 ELSE 0, mode>>, <<1, 2>>), LAMBDA head :
       IF b.type = "stored" THEN WriteStored(head, b, data, at) ELSE Rest(Tables(head)))
=============================================================================
