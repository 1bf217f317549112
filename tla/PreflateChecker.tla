-------------------------- MODULE PreflateChecker ---------------------------
(***************************************************************************)
(* preflate's way of a deflate stream and back, in the steps of            *)
(* preflate_checker.cpp (one meta block): the blocks are read, their       *)
(* trees are predicted and the differences counted, models are made of the *)
(* counts, the codes are written with them, the models and the codes are   *)
(* read again, the trees rebuilt and the blocks written bit by bit.        *)
(*   The token predictor is the module TokenPredictor: here the codes it   *)
(* makes for a block are any of OwnCodes, and it gives the tokens back if  *)
(* it is given back its codes.                                             *)
(***************************************************************************)
EXTENDS TreePredictor

CONSTANTS
  Streams,              \* the compressed streams, as sequences of bytes
  OwnCodes,             \* what the token predictor may write for a block
  Parameters,           \* the parameters that may be estimated
  MetaByteBits, MetaBufSize, MetaPreExtra, MetaWordBits,   \* of the stream of the codes
  CoderBits, ScaleBits, ShareBits, DeriveShift,
  TCClamp, LDClamp, LenClamp, HopClamp, LenRange, HopRange

Dynamic == 1
TypeNumber(b) == CASE b.type = "stored" -> 0 [] b.type = "dynamic" -> Dynamic [] b.type = "static" -> 2

M == INSTANCE MetaCodec WITH
       ByteBits <- MetaByteBits, BufSize <- MetaBufSize,
       PreExtra <- MetaPreExtra, WordBits <- MetaWordBits,
       TCRange <- <<0, CodeMaxBits>>, LDRange <- <<0, MaxBits>>,
       RepRange <- [k \in 1..3 |-> <<RepMin[k], RepMost(k)>>]

VARIABLES
  phase,
  stream,     \* the compressed bytes
  reader,     \* the bit stream over them
  data,       \* the uncompressed bytes
  blocks,     \* the blocks
  rest,       \* the bits after the last block up to the end of its byte
  treePos,    \* the place of the tree predictor in the data
  results,    \* for each block its analysis and its codes
  counts,
  coded,      \* how many blocks have been encoded
  block,      \* the parameters and the models of the meta block, and its size
  coder,      \* the arithmetic coder
  meta,       \* the reconstruction data
  opened,     \* what was read of its head
  restored,   \* the blocks that were rebuilt
  writer,
  at          \* the place in the data of the writer

vars == <<phase, stream, reader, data, blocks, rest, treePos, results, counts, coded, block,
          coder, meta, opened, restored, writer, at>>

None == <<>>

Init ==
  /\ phase = "unpack"
  /\ stream \in Streams
  /\ reader = Reader(stream)
  /\ data = <<>> /\ blocks = <<>> /\ rest = <<>>
  /\ treePos = 0 /\ results = <<>> /\ counts = M!NoCounts /\ coded = 0
  /\ block = None /\ coder = None /\ meta = <<>> /\ opened = None
  /\ restored = <<>> /\ writer = Writer /\ at = 0

-----------------------------------------------------------------------------
BitsLeft(r) == (ByteBits - (r.total % ByteBits)) % ByteBits

\* A slip: what is left of the last byte is taken for zeroes.
UnpackBlockNoRest ==
  /\ phase = "unpack"
  /\ \E g \in {ReadBlock(reader, data)} :
       IF ~g.ok
       THEN /\ phase' = "refused"
            /\ UNCHANGED <<reader, data, blocks, rest>>
       ELSE \E left \in {Get(g.reader, BitsLeft(g.reader))} :
              /\ data' = g.out
              /\ blocks' = Append(blocks, g.block)
              /\ reader' = IF g.last THEN left.reader ELSE g.reader
              /\ rest' = IF g.last THEN <<0>> ELSE rest
              /\ phase' = IF g.last THEN "predict" ELSE phase
  /\ UNCHANGED <<stream, treePos, results, counts, block, coder, meta, opened, restored, writer, at, coded>>

\* One block is read; after the last one what is left of its byte is kept.
UnpackBlock ==
  /\ phase = "unpack"
  /\ \E g \in {ReadBlock(reader, data)} :
       IF ~g.ok
       THEN /\ phase' = "refused"
            /\ UNCHANGED <<reader, data, blocks, rest>>
       ELSE \E left \in {Get(g.reader, BitsLeft(g.reader))} :
              /\ data' = g.out
              /\ blocks' = Append(blocks, g.block)
              /\ reader' = IF g.last THEN left.reader ELSE g.reader
              /\ rest' = IF g.last THEN <<left.value>> ELSE rest
              /\ phase' = IF g.last THEN "predict" ELSE phase
  /\ UNCHANGED <<stream, treePos, results, counts, block, coder, meta, opened, restored, writer, at, coded>>

Size(bs) == FoldLeft(LAMBDA n, b : n + b.size, 0, bs)
InputEOF(i) == Size(Prefix(blocks, i)) = Len(data)

\* The codes of block i: those of its tokens, of its trees, and whether
\* another block follows when no data are left.
CodesOf(i, own, trees) ==
  LET b == blocks[i]
  IN <<Prediction("type", 0, TypeNumber(b))>>
     \o (IF b.type = "stored" THEN <<Prediction("bits", SizeBits, b.size)>> \o M!PaddingCodes(b.pad) ELSE own)
     \o trees
     \o (IF InputEOF(i) THEN <<Prediction("bits", 1, IF i = Len(blocks) THEN 0 ELSE 1)>> ELSE <<>>)

\* What is counted of the codes of the tokens; plain bits are not.
TokenTallies(codes) ==
  LET counted == SelectSeq(codes, LAMBDA c : c.kind # "bits")
  IN [i \in DOMAIN counted |-> Tally(counted[i].kind, counted[i].value - counted[i].ref)]

CountAll(c, tallies) == FoldLeft(LAMBDA s, t : M!Counted(s, t.kind, t.value), c, tallies)

PredictBlock ==
  /\ phase = "predict"
  /\ \E own \in OwnCodes :
       LET i == Len(results) + 1
           b == blocks[i]
           mine == IF b.type = "stored" THEN <<>> ELSE own
           dynamic == b.type = "dynamic"
           token == IF b.type = "stored" THEN <<Tally("padding", Wrong(b.pad # 0))>> ELSE TokenTallies(own)
           last == i = Len(blocks)
           end == IF last THEN <<Tally("padding", Wrong(rest[1] # 0))>> ELSE <<>>
       IN /\ b.type = "stored" => own = CHOOSE o \in OwnCodes : TRUE
          /\ \E analysis \in {IF dynamic THEN AnalyzeTrees(b, data, treePos) ELSE None} :
               LET trees == IF dynamic THEN TreeCodes(analysis) ELSE <<>>
                   tree == IF dynamic THEN TreeTallies(analysis) ELSE <<>>
               IN /\ results' = Append(results, [own |-> mine, analysis |-> analysis,
                                                 codes |-> CodesOf(i, mine, trees)])
                  /\ counts' = CountAll(counts, <<Tally("type", TypeNumber(b))>> \o token \o tree \o end)
                  /\ phase' = IF dynamic /\ analysis.failed THEN "failed"
                              ELSE IF last THEN "model" ELSE phase
          /\ treePos' = IF dynamic THEN Advanced(treePos, b.tokens) ELSE treePos
  /\ UNCHANGED <<stream, reader, data, blocks, rest, block, coder, meta, opened, restored, writer, at, coded>>

\* addModel, beginMetaBlockWithModel.
AddModel ==
  /\ phase = "model"
  /\ \E p \in Parameters :
       block' = [params |-> p, codec |-> M!CodecFor(counts), models |-> M!ModelsFor(counts),
                 size |-> Len(data), recon |-> <<>>]
  /\ coder' = M!Encoder
  /\ phase' = "encode"
  /\ coded' = 0
  /\ UNCHANGED <<stream, reader, data, blocks, rest, treePos, results, counts, meta, opened,
                 restored, writer, at>>

\* The codes of the next block.
EncodeBlock ==
  /\ phase = "encode"
  /\ coded < Len(results)
  /\ coder' = M!EncodeCodes(coder, block.models, results[coded + 1].codes)
  /\ coded' = coded + 1
  /\ UNCHANGED <<phase, stream, reader, data, blocks, rest, treePos, results, counts, block, meta,
                 opened, restored, writer, at>>

\* The bits after the last block, and the reconstruction data.
Finish ==
  /\ phase = "encode"
  /\ coded = Len(results)
  /\ coder' = M!EncodeCodes(coder, block.models, M!PaddingCodes(rest[1]))
  /\ block' = [block EXCEPT !.recon = M!CoderBytes(coder')]
  /\ meta' = M!Finish(<<block'>>)
  /\ phase' = "open"
  /\ UNCHANGED <<stream, reader, data, blocks, rest, treePos, results, counts, opened, restored,
                 writer, at, coded>>

\* The meta decoder and beginMetaBlock; a new tree predictor.
Open ==
  /\ phase = "open"
  /\ \E g \in {M!ReadMeta(meta, Len(data))} :
       IF ~g.ok THEN phase' = "failed" /\ UNCHANGED <<coder, opened>>
       ELSE /\ opened' = g.blocks[1]
            /\ coder' = M!Decoder(M!ReconOf(meta, opened'))
            /\ phase' = "decode"
  /\ treePos' = 0
  /\ UNCHANGED <<stream, reader, data, blocks, rest, results, counts, block, meta, restored, writer, at, coded>>

-----------------------------------------------------------------------------
Next1(c, kind, ref) == M!DecodeCode(c, opened.models, kind, ref)

\* A flag and, when it is set, a value of so many bits instead of guess.
DecodeMispredicted(c, kind, bits, base, guess) ==
  With(Next1(c, kind, 0), LAMBDA g :
    IF g.value = 0 THEN [g EXCEPT !.value = guess]
    ELSE [M!DecodeBits(g.coder, bits) EXCEPT !.value = @ + base])

\* reconstructLDTrees.
RECURSIVE ReconstructLDTrees(_, _, _, _)
ReconstructLDTrees(c, lengths, s, codes) ==
  LET Data(d, type) ==
        With(PredictCodeData(lengths, s.p, type, s.count1), LAMBDA guess :
          Next1(d, IF type = 0 THEN "length bits" ELSE "repeat",
                IF type = 0 THEN guess ELSE <<guess, type>>))
      Rebuilt(d, new, next) ==
        IF next.failed \/ Len(new) > NonLen + LenCodes + DistCodes
        THEN [failed |-> TRUE, codes |-> codes, coder |-> d]
        ELSE ReconstructLDTrees(d, lengths, next, new)
      Coded(type, v) ==
        Rebuilt(v.coder, codes \o (IF type = 0 THEN <<v.value>> ELSE <<Rep(type), v.value>>),
                Passed(s, IF type = 0 THEN 1 ELSE v.value))
  IN IF s.count1 + s.count2 = 0 THEN [failed |-> FALSE, codes |-> codes, coder |-> c]
     ELSE With(Next1(c, "tree type", PredictCodeType(lengths, s.p, s.count1, s.first)), LAMBDA t :
            Coded(t.value, Data(t.coder, t.value)))

\* decodeBlock of the tree predictor for a dynamic block.
ReconstructTrees(c, b, pos) ==
  LET \* the code tree
      Sent(tree, ncode) ==
        FoldLeft(LAMBDA s, i : With(Next1(s.coder, "code bits", tree.sent[i]),
                   LAMBDA g : [value |-> Append(s.value, g.value), coder |-> g.coder]),
                 [value |-> <<>>, coder |-> ncode.coder], [i \in 1..ncode.value |-> i])
      CodeTreeOf(d, tree) ==
        With(DecodeMispredicted(d, "code count wrong", HeadBits[3], TCMin, tree.size),
             LAMBDA ncode : Sent(tree, ncode))
      Rebuilt(new, ld, sent) ==
        [failed |-> FALSE, coder |-> sent.coder,
         block |-> [new EXCEPT !.ncode = Len(sent.value), !.codes = sent.value \o ld.codes]]
      Codes(new, ld) ==
        IF ld.failed THEN [failed |-> TRUE, block |-> b, coder |-> ld.coder]
        ELSE Rebuilt(new, ld, CodeTreeOf(ld.coder, PredictedCodeTree(CodeCounts(ld.codes, NoCodeCounts))))
      Read(lit, dist) ==
        With(DecodeMispredicted(c, "literal count wrong", HeadBits[1], NonLen, lit.size), LAMBDA nlen :
          With(DecodeMispredicted(nlen.coder, "distance count wrong", HeadBits[2], 0, dist.size), LAMBDA ndist :
            Codes([b EXCEPT !.nlen = nlen.value, !.ndist = ndist.value],
                  ReconstructLDTrees(ndist.coder, Predicted(lit, dist, nlen.value),
                                     Place(1, nlen.value, ndist.value, TRUE), <<>>))))
  IN With(TokenCounts(b.tokens, data, pos, NoTokenCounts), LAMBDA n : Read(LitTree(n), DistTree(n)))

\* The token predictor asks for the codes it wrote, in their order; given
\* other ones it makes other tokens.
DecodeTokens(c, i) ==
  LET own == IF i > Len(results) THEN <<>> ELSE results[i].own
      Read(s, code) == With(Next1(s.coder, code.kind, code.ref), LAMBDA v :
                              [same |-> s.same /\ v.value = code.value, coder |-> v.coder])
  IN With(FoldLeft(Read, [same |-> TRUE, coder |-> c], own), LAMBDA g :
       [tokens |-> IF g.same /\ i <= Len(blocks) THEN blocks[i].tokens ELSE <<>>, coder |-> g.coder])

DecodeStored(c) ==
  With(M!DecodeBits(c, SizeBits), LAMBDA size :
    With(M!DecodePadding(size.coder, opened.models), LAMBDA pad :
      [failed |-> FALSE, coder |-> pad.coder,
       block |-> [EmptyBlock EXCEPT !.size = size.value, !.pad = pad.value, !.padBits = pad.bits]]))

DecodeHuffman(c, i, type) ==
  With(DecodeTokens(c, i), LAMBDA t :
    With([EmptyBlock EXCEPT !.type = IF type = Dynamic THEN "dynamic" ELSE "static",
                            !.tokens = t.tokens, !.size = Advanced(0, t.tokens)], LAMBDA plain :
      IF type = Dynamic THEN ReconstructTrees(t.coder, plain, treePos)
      ELSE [failed |-> FALSE, coder |-> t.coder, block |-> plain]))

\* One block and, when no data are left, whether another one follows.
DecodedBlock(i) ==
  LET Eof(g) == Size(restored) + g.block.size >= Len(data)
      More(g) ==
        IF Eof(g) THEN With(M!DecodeBits(g.coder, 1), LAMBDA m :
                         [failed |-> g.failed, block |-> g.block, more |-> m.value = 1, coder |-> m.coder])
        ELSE [failed |-> g.failed, block |-> g.block, more |-> TRUE, coder |-> g.coder]
  IN With(Next1(coder, "type", 0), LAMBDA type :
       More(IF type.value = 0 THEN DecodeStored(type.coder) ELSE DecodeHuffman(type.coder, i, type.value)))

DecodeBlock ==
  /\ phase = "decode"
  /\ LET i == Len(restored) + 1
     IN \E g \in {DecodedBlock(i)} :
          /\ restored' = Append(restored, g.block)
          /\ treePos' = IF g.block.type = "dynamic" THEN Advanced(treePos, g.block.tokens) ELSE treePos
          /\ coder' = g.coder
          /\ phase' = IF g.failed \/ i > Len(blocks) THEN "failed"
                      ELSE IF g.more THEN phase ELSE "write"
  /\ UNCHANGED <<stream, reader, data, blocks, rest, results, counts, block, meta, opened, writer, at, coded>>

\* The blocks are written, and the last bits after the last one.
WriteBlocks ==
  /\ phase = "write"
  /\ LET n == Len(restored)
         Write(s, i) == IF ~s.ok THEN s ELSE WriteBlock(s.writer, restored[i], i = n, data, s.at)
     IN \E w \in {FoldLeft(Write, [ok |-> TRUE, writer |-> writer, at |-> at], [i \in 1..n |-> i])} :
        \E pad \in {M!DecodePadding(coder, opened.models)} :
          /\ writer' = Flush(Put(w.writer, pad.value, pad.bits))
          /\ at' = w.at
          /\ coder' = pad.coder
          /\ phase' = IF w.ok THEN "done" ELSE "failed"
  /\ UNCHANGED <<stream, reader, data, blocks, rest, treePos, results, counts, block, meta, opened, restored, coded>>

Next ==
  \/ UnpackBlock \/ PredictBlock \/ AddModel \/ EncodeBlock \/ Finish \/ Open \/ DecodeBlock \/ WriteBlocks

Spec == Init /\ [][Next]_vars

-----------------------------------------------------------------------------
(***************************************************************************)
(* What makes it correct.                                                  *)
(***************************************************************************)
\* The stream holds all bits that were read of it; beyond its end there are
\* only zeroes.
Complete == reader.total <= Len(stream) * ByteBits

\* As many bits were skipped before the size of each stored block as are left
\* of a byte, which is where a block of this format goes on.
Aligned == \A i \in DOMAIN blocks : (2 * blocks[i].padBits) % ByteBits = 0

\* The checker's own test (preflate_checker.cpp:268): the stream that is
\* created is the one that was read, to the end of the byte of its last block.
Recreated == writer.written = Prefix(stream, reader.total \div ByteBits)

\* A stream that was accepted comes through - no prediction of a tree, no
\* rebuilt tree and no block that is written fails - and comes back bit by
\* bit, whatever its trees were built like, in which codes they were sent and
\* how its last byte is filled up.
StreamBack ==
  /\ phase # "failed"
  /\ phase = "done" /\ Complete /\ Aligned => Recreated

\* When the decoder stops it has all blocks, neither fewer nor more, with the
\* trees and the tokens they were read with (preflate_checker.cpp:184-245).
BlocksBack ==
  phase \in {"write", "done"} =>
    /\ Len(restored) = Len(blocks)
    /\ \A i \in DOMAIN blocks : SameBlock(restored[i], blocks[i])
    /\ Size(restored) = Len(data)

\* The head of the reconstruction data gives back the models the codes were
\* written with and the parameters (isEqualTo, preflate_checker.cpp:153); of
\* parameters like zlib's own only the usual ones are sent.
ModelsBack ==
  phase = "decode" =>
    /\ M!SameModels(opened.models, block.models)
    /\ <<opened.params.level, opened.params.mem, opened.params.window>>
         = <<block.params.level, block.params.mem, block.params.window>>
    /\ opened.params.zlib = block.params.zlib
    /\ ~M!Perfect(block.codec, block.params) => opened.params = block.params
    /\ opened.size = Len(data)

\* Whatever is written with a model was counted for it: it has a share of
\* the interval, or the model knows nothing else.
HasShare(m, item) ==
  LET i == CHOOSE i \in DOMAIN m.ids : m.ids[i] = item
  IN IF m.fixed THEN i = Len(m.ids) ELSE m.bounds[i] < m.bounds[i + 1]
Covered(models, code) ==
  CASE code.kind = "bits" -> TRUE
    [] code.kind = "tree type" -> HasShare(models.types[code.ref], code.value)
    [] code.kind \notin {"bits", "tree type"} /\ M!ShapeOf(code.kind).n > 0 ->
         HasShare(models.models[code.kind], code.value)
    [] OTHER ->
         LET ref == IF code.kind = "repeat" THEN code.ref[1] ELSE code.ref
             m == models.models[code.kind]
             side == IF code.value > ref THEN m.pos ELSE m.neg
             size == IF code.value > ref THEN code.value - ref ELSE ref - code.value
         IN /\ HasShare(m.sign, M!Sign(code.value - ref))
            /\ size > 0 => HasShare(side, Lesser(size, Len(side.ids)) - 1)
CodesCounted ==
  phase = "encode" =>
    \A i \in DOMAIN results : \A k \in DOMAIN results[i].codes :
      Covered(block.models, results[i].codes[k])

\* The best cost of a prefix code: the sum of the weights that are joined.
RECURSIVE BestCost(_)
BestCost(weights) ==
  LET Sum(s) == s[1] + s[2]
  IN IF Len(weights) < 2 THEN 0
     ELSE With(SortSeq(weights, LAMBDA x, y : x < y),
               LAMBDA s : Sum(s) + BestCost(Append(Drop(s, 2), Sum(s))))

\* A tree built for these counts is a complete prefix code with no code too
\* long and one for every symbol that is needed; no code is cheaper unless
\* some had to be shortened.
GoodTree(freq, most) ==
  LET free == BitLengths(freq, Len(freq), 0).lengths
      weights == SelectSeq(freq, LAMBDA f : f > 0)
      Cost(t) == FoldLeft(LAMBDA a, i : a + freq[i] * t[i], 0, [i \in DOMAIN freq |-> i])
  IN \A t \in {BitLengths(freq, most, 0).lengths} :
       /\ Buildable(t)
       /\ \A i \in DOMAIN freq : t[i] <= most /\ (freq[i] > 0 => t[i] > 0)
       /\ Len(weights) > 1 /\ Longest(free) <= most => Cost(t) = BestCost(weights)

\* The trees that are predicted for the next block.
TreesRight ==
  phase = "predict" =>
    LET b == blocks[Len(results) + 1]
    IN b.type = "dynamic" =>
         \A c \in {TokenCounts(b.tokens, data, treePos, NoTokenCounts)} :
           \A tree \in {<<c.lit, MaxBits>>, <<c.dist, MaxBits>>,
                        <<CodeCounts(Drop(b.codes, b.ncode), NoCodeCounts), CodeMaxBits>>} :
             GoodTree(tree[1], tree[2])

=============================================================================
