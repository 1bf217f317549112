----------------------------- MODULE MetaBlocks ------------------------------
(***************************************************************************)
(* How preflate_decode cuts a deflate stream into meta blocks and how      *)
(* preflate_reencode puts it together again (preflate_decoder.cpp,         *)
(* preflate_reencoder.cpp), called through the library's two functions     *)
(* (preflate_wrap.cpp, dllmain.cpp).  Each meta block is predicted from    *)
(* its own data and the window before it, so both sides must look at the   *)
(* same bytes.                                                             *)
(*   Of a block only its type and size are coded here (its tokens and      *)
(* trees are those of PreflateChecker); the byte of the data at place i is *)
(* the number i.  No task runs beside another one: the limit of the queue  *)
(* is 0 in both loops.                                                     *)
(***************************************************************************)
EXTENDS MetaCodec

CONSTANTS
  Streams,       \* what is decoded: [blocks, pad, extra], the blocks being
                 \* [type, size, ok, fits]: whole or not, and whether the
                 \* predictors manage it; extra tells of bytes behind them
  Parameters,    \* the parameters that may be estimated
  Window,        \* the context of a meta block (2^15)
  MinMeta,       \* the least size of a meta block (2^18)
  DefaultMeta,   \* what the wrapper asks for
  Capacities,    \* of the buffers of the callers
  SizeBits       \* the bits of the size of a block

ASSUME WindowAssumption == Window \in Nat /\ MinMeta \in Nat /\ Window <= MinMeta

VARIABLES
  phase,
  stream, request, capacity,
  next,        \* how many blocks have been read
  held,        \* those that are in no meta block yet
  cache, cacheStart, output,    \* of the output cache, and what it has flushed
  metaStart,   \* where the next meta block starts
  metas,       \* the meta blocks of the encoder
  inputs,      \* for each its blocks, the bytes it was predicted from and where its own start
  meta,        \* the reconstruction data
  opened,      \* the meta blocks of the decoder
  kept,        \* the end of the data that were read for reencoding
  seen,        \* the bytes it is rebuilt from, and where its own start
  restored     \* for each meta block the blocks that were decoded and the padding

decoding == <<next, held, cache, cacheStart, output, metaStart, metas, inputs>>
given == <<stream, request, capacity>>
reencoding == <<opened, kept, seen, restored>>
vars == <<phase, given, decoding, meta, reencoding>>

Init ==
  /\ phase = "decode"
  /\ stream \in Streams
  /\ capacity \in Capacities
  /\ request \in {DefaultMeta, capacity}
  /\ next = 0 /\ held = <<>> /\ metaStart = 0 /\ metas = <<>> /\ inputs = <<>>
  /\ cache = <<>> /\ cacheStart = 0 /\ output = <<>>
  /\ meta = <<>> /\ opened = <<>> /\ kept = <<>> /\ seen = <<>> /\ restored = <<>>

-----------------------------------------------------------------------------
Blocks == stream.blocks
Size(bs) == FoldLeft(LAMBDA n, b : n + b.size, 0, bs)

MetaSize == Greater(request, MinMeta)
Threshold == (MetaSize * 3) \div 2

\* The blocks of a meta block: all of them at the end, else so many that the
\* size is reached.
Cut(bs, last) ==
  IF last THEN Len(bs) ELSE Min({n \in 1..Len(bs) : Size(Prefix(bs, n)) >= MetaSize})

\* cacheData: what is not in the cache would be read from elsewhere.
CacheData(bytes, from, n) ==
  [i \in 1..n |-> LET k == from - cacheStart + i IN IF k \in DOMAIN bytes THEN bytes[k] ELSE 0]

\* A slip: the window is flushed too.
FlushToNoWindow(bytes, to) == Lesser(to + Window - cacheStart, Len(bytes))

\* flushUpTo; the numbers are unsigned.
FlushTo(bytes, to) ==
  IF to < cacheStart THEN Len(bytes) ELSE Lesser(to - cacheStart, Len(bytes))

-----------------------------------------------------------------------------
(***************************************************************************)
(* A task of preflate_decode: analyze counts and encode writes the codes.  *)
(***************************************************************************)
BlockCodes(b) == <<Code("type", 0, b.type), Code("bits", SizeBits, b.size)>>

\* A slip: only behind the last block it is told that none follows.
TaskCodesEndOnly(bs, last, pad) ==
  FlattenSeq([i \in DOMAIN bs |-> BlockCodes(bs[i])])
  \o (IF last THEN <<Code("bits", 1, 0)>> \o PaddingCodes(pad) ELSE <<>>)

\* In the last meta block it is told whether another block follows when no
\* data are left.
TaskCodes(bs, last, pad) ==
  LET eof(i) == last /\ Size(Prefix(bs, i)) = Size(bs)
      more(i) == IF eof(i) THEN <<Code("bits", 1, IF i = Len(bs) THEN 0 ELSE 1)>> ELSE <<>>
  IN FlattenSeq([i \in DOMAIN bs |-> BlockCodes(bs[i]) \o more(i)])
     \o (IF last THEN PaddingCodes(pad) ELSE <<>>)

Analyze(bs, pad) ==
  FoldLeft(LAMBDA c, b : Counted(c, "type", b.type),
           Counted(NoCounts, "padding", IF pad # 0 THEN 1 ELSE 0), bs)

\* setModel, beginEncoding, encode, endEncoding.
EncodeTask(bs, last, pad, params, size) ==
  LET Made(codec, models) ==
        [params |-> params, codec |-> codec, models |-> models, size |-> size,
         recon |-> CoderBytes(EncodeCodes(Encoder, models, TaskCodes(bs, last, pad)))]
  IN With(Analyze(bs, pad), LAMBDA counts : Made(CodecFor(counts), ModelsFor(counts)))

-----------------------------------------------------------------------------
\* A block is read; when enough have been, a meta block is cut off and
\* encoded and what is before the window of the next one is flushed.  A block
\* that breaks off has put any part of its bytes into the cache by then (all
\* of them when it is refused for its size), and a task whose predictors give
\* up ends the loop before anything is flushed.
ReadBlock ==
  /\ phase = "decode"
  /\ LET b == Blocks[next + 1]
         last == next + 1 = Len(Blocks)
         all == Append(held, b)
         end == cacheStart + Len(cache)
         cached == cache \o [i \in 1..b.size |-> end + i]
         mine == Prefix(all, Cut(all, last))
         offset == IF metas = <<>> THEN 0 ELSE Window
         bytes == CacheData(cached, metaStart - offset, offset + Size(mine))
         n == FlushTo(cached, metaStart + Size(mine) - Window)
         pad == IF last THEN stream.pad ELSE 0
     IN \/ /\ ~b.ok
           /\ phase' = "broken"
           /\ \E w \in 0..b.size : cache' = Prefix(cached, Len(cache) + w)
           /\ UNCHANGED <<next, held, cacheStart, output, metaStart, metas, inputs>>
        \/ /\ b.ok
           /\ ~last /\ Size(all) < Threshold
           /\ held' = all
           /\ cache' = cached
           /\ next' = next + 1
           /\ UNCHANGED <<phase, cacheStart, output, metaStart, metas, inputs>>
        \/ /\ b.ok
           /\ last \/ Size(all) >= Threshold
           /\ \E i \in DOMAIN mine : ~mine[i].fits
           /\ phase' = "broken"
           /\ held' = Drop(all, Len(mine))
           /\ metaStart' = metaStart + Size(mine)
           /\ cache' = cached
           /\ next' = next + 1
           /\ UNCHANGED <<cacheStart, output, metas, inputs>>
        \/ /\ b.ok
           /\ last \/ Size(all) >= Threshold
           /\ \A i \in DOMAIN mine : mine[i].fits
           /\ \E p \in Parameters :
                metas' = Append(metas, EncodeTask(mine, last, pad, p, Len(bytes) - offset))
           /\ inputs' = Append(inputs, [blocks |-> mine, data |-> bytes, offset |-> offset])
           /\ held' = Drop(all, Len(mine))
           /\ metaStart' = metaStart + Size(mine)
           /\ output' = IF last THEN output ELSE output \o Prefix(cached, n)
           /\ cache' = IF last THEN cached ELSE Drop(cached, n)
           /\ cacheStart' = IF last THEN cacheStart ELSE cacheStart + n
           /\ next' = next + 1
           /\ phase' = IF last THEN "finish" ELSE phase
  /\ UNCHANGED <<given, meta, reencoding>>

\* A slip: nothing is flushed when the stream has failed.
ReturnNoFlush ==
  /\ phase \in {"finish", "broken"}
  /\ LET ok == phase = "finish"
         all == IF ok THEN output \o cache ELSE output
     IN \E bytes \in {Finish(metas)} :
          /\ output' = all
          /\ cacheStart' = cacheStart + Len(cache)
          /\ cache' = <<>>
          /\ meta' = IF ok THEN bytes ELSE meta
          /\ phase' = IF ok /\ ~stream.extra /\ Len(all) <= capacity /\ Len(bytes) <= capacity
                      THEN "open" ELSE "refused"
  /\ UNCHANGED <<given, next, held, metaStart, metas, inputs, reencoding>>

\* What is in the cache is flushed, whether it went well or not; then the
\* wrapper wants all of the stream used and the results to fit.
Return ==
  /\ phase \in {"finish", "broken"}
  /\ LET ok == phase = "finish"
         all == output \o cache
     IN \E bytes \in {Finish(metas)} :
          /\ output' = all
          /\ cacheStart' = cacheStart + Len(cache)
          /\ cache' = <<>>
          /\ meta' = IF ok THEN bytes ELSE meta
          /\ phase' = IF ok /\ ~stream.extra /\ Len(all) <= capacity /\ Len(bytes) <= capacity
                      THEN "open" ELSE "refused"
  /\ UNCHANGED <<given, next, held, metaStart, metas, inputs, reencoding>>

-----------------------------------------------------------------------------
\* The handler's meta decoder reads the head.
Open ==
  /\ phase = "open"
  /\ \E g \in {ReadMeta(meta, Len(output))} :
       IF g.ok THEN opened' = g.blocks /\ phase' = "reencode"
       ELSE phase' = "failed" /\ UNCHANGED opened
  /\ UNCHANGED <<given, decoding, meta, kept, seen, restored>>

\* decodeBlock of both predictors.
DecodeTaskBlock(c, models) ==
  With(DecodeCode(c, models, "type", 0), LAMBDA type :
    [DecodeBits(type.coder, SizeBits) EXCEPT !.value = [type |-> type.value, size |-> @]])

\* decodeAndRepredict: blocks until the data of the meta block are used up
\* and, in the last one, no other block follows.
RECURSIVE DecodeTask(_, _, _, _, _)
DecodeTask(c, models, last, left, bs) ==
  LET More(coder, rest) ==
        IF rest > 0 THEN [value |-> 1, coder |-> coder]
        ELSE IF last THEN DecodeBits(coder, 1) ELSE [value |-> 0, coder |-> coder]
  IN With(DecodeTaskBlock(c, models), LAMBDA g :
       With(More(g.coder, left - g.value.size), LAMBDA more :
         IF more.value = 1
         THEN DecodeTask(more.coder, models, last, left - g.value.size, Append(bs, g.value))
         ELSE [blocks |-> Append(bs, g.value), coder |-> more.coder]))

\* One meta block; all but the last window of the data is dropped after it.
ReencodeMeta ==
  /\ phase = "reencode"
  /\ LET j == Len(restored) + 1
         n == Len(opened)
         b == opened[j]
         bytes == kept \o SubSeq(output, b.dataAt + 1, b.dataAt + b.size)
     IN /\ \E t \in {DecodeTask(Decoder(ReconOf(meta, b)), b.models, j = n, b.size, <<>>)} :
             restored' = Append(restored, [blocks |-> t.blocks, last |-> j = n,
                                           pad |-> IF j = n THEN DecodePadding(t.coder, b.models).value ELSE 0])
        /\ seen' = Append(seen, [data |-> bytes, offset |-> Len(kept)])
        /\ kept' = IF j < n THEN Drop(bytes, Greater(Len(bytes), Window) - Window) ELSE bytes
        /\ phase' = IF j = n THEN "done" ELSE phase
  /\ UNCHANGED <<given, decoding, meta, opened>>

Next == ReadBlock \/ Return \/ Open \/ ReencodeMeta

Spec == Init /\ [][Next]_vars

-----------------------------------------------------------------------------
(***************************************************************************)
(* What makes it correct.                                                  *)
(***************************************************************************)
\* When preflate_decode returns, the caller has all data that were decoded in
\* their order, however many of them were flushed when a meta block was cut
\* off: those of all blocks that were read, of a stream that fails also the
\* bytes the block that broke off had left in the cache, and of one that is
\* accepted nothing else.
OutputWhole ==
  phase \notin {"decode", "finish", "broken"} =>
    /\ output = [i \in 1..cacheStart |-> i]
    /\ cacheStart >= Size(Prefix(Blocks, next))
    /\ phase # "refused" => cacheStart = Size(Blocks)

\* When a meta block is rebuilt, the predictors look at the bytes they were
\* made from, with the same window before the block's own: the cache still
\* had them all when the task was made, and what is kept of the data at the
\* other end is enough.
SameInput ==
  /\ \A j \in DOMAIN seen : seen[j].data = inputs[j].data /\ seen[j].offset = inputs[j].offset
  /\ phase = "done" => Len(seen) = Len(inputs)

\* Reconstruction data that were written are not refused, and all blocks come
\* back in their order, with the last bits of the stream.
BlocksBack ==
  /\ phase # "failed"
  /\ phase = "done" =>
       /\ FlattenSeq([j \in DOMAIN restored |-> restored[j].blocks])
            = [i \in DOMAIN Blocks |-> [type |-> Blocks[i].type, size |-> Blocks[i].size]]
       /\ Last(restored).pad = stream.pad
=============================================================================
