------------------------------ MODULE MetaCodec ------------------------------
(***************************************************************************)
(* The file of the reconstruction data (PreflateMetaEncoder,               *)
(* PreflateMetaDecoder): a head with the parameters, the models and the    *)
(* sizes of the meta blocks, then their codes one after the other.  The    *)
(* sizes of the last one are what is left.                                 *)
(***************************************************************************)
EXTENDS PredictionModel

Flags(b) == IF b THEN 1 ELSE 0

\* Nothing but the parameters has to be sent of a stream like zlib's own.
Perfect(codec, params) == (\A g \in 1..3 : codec.full[g]) /\ params.zlib

ModelBytes(codec, models) == CoderBytes(WriteModels(EncodeCodec(Encoder, codec), codec, models))

PutModel(w, block) ==
  LET p == block.params
      perfect == Perfect(block.codec, p)
      far == <<Flags(p.far), Flags(p.start)>>
      own == <<Flags(p.zlib)>> \o (IF p.zlib THEN <<>> ELSE far) \o <<p.depth>>
      widths == IF p.zlib THEN <<1, 4>> ELSE <<1, 1, 1, 4>>
  IN With(PutAll(w, <<Flags(~perfect), p.level, p.mem, p.window - 8>>, <<1, 4, 4, 3>>), LAMBDA head :
       IF perfect THEN head
       ELSE With(ModelBytes(block.codec, block.models), LAMBDA bytes :
              PutBytes(PutVLI(PutAll(head, own, widths), Len(bytes)), bytes)))

PutBlock(w, blocks, i) ==
  With(PutModel(IF i > 1 THEN Put(w, 3, 2) ELSE w, blocks[i]), LAMBDA model :
    IF i = Len(blocks) THEN model
    ELSE PutVLI(PutVLI(model, Len(blocks[i].recon)), blocks[i].size))

HeadBytes(blocks) ==
  LET n == Len(blocks)
      start(w) == IF n > 1 THEN PutVLI(w, n - 2) ELSE w
  IN Flush(FoldLeft(LAMBDA w, i : PutBlock(w, blocks, i),
                    start(PutAll(Writer, <<0, Flags(n > 1)>>, <<1, 1>>)), [i \in 1..n |-> i])).written

Finish(blocks) == HeadBytes(blocks) \o FlattenSeq([i \in DOMAIN blocks |-> blocks[i].recon])

-----------------------------------------------------------------------------
\* What was detected of the encoder; of zlib it is known.
GetOwn(r) ==
  With(Get(r, 1), LAMBDA z :
    IF z.value = 1 THEN [GetAll(z.reader, <<4>>) EXCEPT !.value = <<TRUE, FALSE, FALSE, @[1]>>]
    ELSE [GetAll(z.reader, <<1, 1, 4>>) EXCEPT !.value = <<FALSE, @[1] = 1, @[2] = 1, @[3]>>])

GetModels(r) ==
  LET Models(bytes) ==
        With(DecodeCodec(Decoder(bytes)), LAMBDA codec : ReadModels(codec.coder, codec.value).value)
  IN With(GetVLI(r), LAMBDA size : [CopyBytes(size.reader, size.value) EXCEPT !.value = Models(@)])

Params(head, own) ==
  [level |-> head[2], mem |-> head[3], window |-> head[4] + 8,
   zlib |-> own[1], far |-> own[2], start |-> own[3], depth |-> own[4]]

GetModel(r) ==
  With(GetAll(r, <<1, 4, 4, 3>>), LAMBDA h :
    IF h.value[1] = 0
    THEN [params |-> Params(h.value, <<TRUE, FALSE, FALSE, 0>>),
          models |-> WithDerived([k \in Kinds |-> DefaultModel(ShapeOf(k))]), reader |-> h.reader]
    ELSE With(GetOwn(h.reader), LAMBDA own : With(GetModels(own.reader), LAMBDA m :
           [params |-> Params(h.value, own.value), models |-> m.value, reader |-> m.reader])))

\* The sizes of a block that is not the last one.
GetSizes(r) ==
  With(GetVLI(r), LAMBDA recon :
    With(GetVLI(recon.reader), LAMBDA size :
      [value |-> <<recon.value, size.value>>, reader |-> size.reader]))

\* The blocks of the head, up to n of them.
RECURSIVE GetBlocks(_, _, _)
GetBlocks(r, n, blocks) ==
  LET First(s) == IF blocks = <<>> THEN [value |-> 3, reader |-> s] ELSE Get(s, 2)
      Block(m, recon, size) == [params |-> m.params, models |-> m.models, recon |-> recon, size |-> size]
  IN With(First(r), LAMBDA new :
       IF new.value # 3 THEN [ok |-> FALSE]
       ELSE With(GetModel(new.reader), LAMBDA m :
         IF Len(blocks) + 1 = n
         THEN [ok |-> TRUE, reader |-> m.reader, blocks |-> Append(blocks, Block(m, 0, 0))]
         ELSE With(GetSizes(m.reader), LAMBDA s :
           GetBlocks(s.reader, n, Append(blocks, Block(m, s.value[1], s.value[2]))))))

\* Where the codes and the data of each block start and end.
Placed(blocks, start, bytes, data) ==
  LET n == Len(blocks)
      before(i, f(_)) == Total([j \in 1..i - 1 |-> f(blocks[j])])
      reconAt(i) == start + before(i, LAMBDA b : b.recon)
      dataAt(i) == before(i, LAMBDA b : b.size)
      ok == \A i \in 1..n : reconAt(i) <= bytes /\ dataAt(i) <= data
  IN [ok |-> ok,
      blocks |-> [i \in 1..n |->
        [params |-> blocks[i].params, models |-> blocks[i].models,
         reconAt |-> reconAt(i), dataAt |-> dataAt(i),
         recon |-> IF i = n THEN bytes - reconAt(i) ELSE blocks[i].recon,
         size |-> IF i = n THEN data - dataAt(i) ELSE blocks[i].size]]]

\* The constructor of the meta decoder: data is the uncompressed size.
ReadMeta(bytes, data) ==
  LET Count(head) ==
        IF head.value[2] = 0 THEN [value |-> 1, reader |-> head.reader]
        ELSE [GetVLI(head.reader) EXCEPT !.value = @ + 2]
      Start(r) == SkipToByte(r).total \div ByteBits
  IN With(GetAll(Reader(bytes), <<1, 1>>), LAMBDA head :
       IF bytes = <<>> \/ head.value[1] = 1 THEN [ok |-> FALSE]
       ELSE With(Count(head), LAMBDA n : With(GetBlocks(n.reader, n.value, <<>>), LAMBDA g :
              IF g.ok THEN Placed(g.blocks, Start(g.reader), Len(bytes), data) ELSE [ok |-> FALSE])))

\* The bytes of the codes of a block.
ReconOf(bytes, b) == SubSeq(bytes, b.reconAt + 1, b.reconAt + b.recon)
=============================================================================
