----------------------------- MODULE Container -----------------------------
(***************************************************************************)
(* The records EncData writes at depth 0 (precompressor/PrecompMain.pas),  *)
(* and DecChunk with Restore, which reads them back.  A slot of the data   *)
(* store becomes one or more blocks: headers of streams, their stored      *)
(* bytes, and the bytes of the input between them.  A stream may reach     *)
(* into the next slot; one that overlaps an earlier stream is left out; a  *)
(* block ends when its streams fill DecodeMemBlock.  A stream whose bytes  *)
(* have been written before is a reference to the first one: the encoder   *)
(* numbers streams as it writes them, the decoder as it reads them, and a  *)
(* table in front of the blocks tells it which to keep, and how often each *)
(* is copied.                                                              *)
(*                                                                         *)
(* How the streams of a block are restored by several tasks is             *)
(* DecodeBlock's subject; nested streams, resources and srep are left out. *)
(***************************************************************************)
EXTENDS DataStore, DataManager

CONSTANTS
  Files,           \* inputs: their bytes and the streams the scans find
  DecodeMemBlock,  \* memory the streams of a block may take
  MemoryParts,     \* sizes of the part of the data manager that is in memory
  FilePart         \* the size of the part that is in a file

\* The records of a stream: where it is found, where it lies, how long it is
\* and how much of it is stored, and whether it has been confirmed.
Streams == [found : Nat, pos : Nat, old : Nat, new : Nat, ok : BOOLEAN]

\* No input is longer than the file of the data manager may grow
\* (FMaxStreamSize, 2^40 - 1 in common/Utils.pas).  A stream has bytes, and is
\* found in the order of its place.  The empty input stands for none: it is the
\* setup of the tools, which scan nothing.
ASSUME ContainerAssumption ==
  /\ DecodeMemBlock \in Nat \ {0} /\ MemoryParts \subseteq Nat /\ FilePart \in Nat
  /\ \A f \in Files :
       /\ f.bytes \in Seq(Nat) /\ Len(f.bytes) \in InputSizes /\ Len(f.bytes) <= FilePart
       /\ f.streams \in Seq(Streams)
       /\ \A i \in DOMAIN f.streams :
            /\ f.streams[i].old > 0 /\ f.streams[i].new > 0
            /\ i > 1 => f.streams[i - 1].pos <= f.streams[i].pos
  /\ \E f \in Files : f.bytes = <<>>

VARIABLES
  setup,       \* the file; StoreDD > -2; several tasks decode; memory for duplicates
  info,        \* InfoStore1, sorted
  lastStream,  \* LastStream
  dd,          \* DDInfo1 with DDList1, DDInfo2, StreamCount2 and DupIdx1
  blocks,      \* the blocks written so far
  head,        \* DDList2 and DDMemSize, in front of the blocks
  dec          \* the decoder

encVars == <<info, lastStream, dd, blocks>>
allVars == <<vars, setup, encVars, head, dec>>

Content(n) == IF n < 0 THEN -1 ELSE setup.file.bytes[n + 1]

\* Length n of slot i from p on, the lookahead included.
Region(i, p, n) == [j \in 1 .. n |-> Content(mem[i * FSize + p + j - 1])]

-----------------------------------------------------------------------------
(* The scans *)

\* Scan1 and Scan2: what is found from a position in the slot, begins in it or
\* right behind it (InRange) and ends within the lookahead.
FoundIn(i, s) ==
  /\ s.found - positions[i] \in 0 .. SizeOf(i) - 1
  /\ s.pos - positions[i] \in 0 .. SizeOf(i)
  /\ s.pos + s.old - positions[i] <= size[i]

\* The entry of a stream: its checksum and what the codec has stored of it.
EntryOf(i, s) ==
  LET at == s.pos - positions[i]
      key == Region(i, at, s.old)
  IN [pos |-> at, old |-> s.old, new |-> s.new, ok |-> s.ok, key |-> key,
      data |-> [k \in 1 .. s.new |-> [of |-> key, n |-> s.new, k |-> k]]]

\* The entries of the streams that are found from slot i, in their order.
Entries(i) ==
  LET streams == setup.file.streams
      found[k \in 0 .. Len(streams)] ==
        IF k = 0 THEN <<>>
        ELSE IF FoundIn(i, streams[k]) THEN Append(found[k - 1], EntryOf(i, streams[k]))
        ELSE found[k - 1]
  IN found[Len(streams)]

-----------------------------------------------------------------------------
(* Writing a block *)

\* CheckDD: the first stream of the same bytes, or 0.
FirstOf(d, e) == IF setup.dedup THEN SelectInSeq(d.firsts, LAMBDA f : f.key = e.key) ELSE 0

\* FindOrAddDD: a stream is numbered by those before it, StreamCount2.
FindOrAdd(d, e) ==
  LET i == FirstOf(d, e)
      first == [key |-> e.key, index |-> d.streams, count |-> 0]
  IN [d EXCEPT !.streams = @ + 1,
        !.firsts = IF i = 0 THEN Append(@, first) ELSE [d.firsts EXCEPT ![i].count = @ + 1],
        !.dups = IF i = 0 THEN @ ELSE Append(@, [stream |-> d.streams, first |-> i])]

Header(d, e) ==
  LET i == FirstOf(d, e)
  IN IF i > 0 THEN [dup |-> TRUE, old |-> 0, new |-> 0, option |-> d.firsts[i].index]
     ELSE [dup |-> FALSE, old |-> e.old, new |-> e.new, option |-> 0]

\* w: what the walk over the entries of a slot has come to.
Accept(w, e) ==
  LET h == Header(w.dd, e)
      memory == w.memory + Max({h.old, h.new})
  IN [w EXCEPT !.taken = Append(@, e), !.headers = Append(@, h),
               !.last = e.pos + e.old, !.memory = memory,
               !.full = memory >= DecodeMemBlock, !.dd = FindOrAdd(@, e)]

\* A slip: streams may overlap.
WalkOverlapping(w, e) ==
  IF w.full \/ (w.taken # <<>> /\ w.memory + Max({e.old, e.new}) >= DecodeMemBlock)
  THEN [w EXCEPT !.full = TRUE, !.rest = Append(@, e)]
  ELSE IF e.ok /\ e.pos < SizeOf(slot) THEN Accept(w, e)
  ELSE w

\* The block is closed before an entry that may not fit, also when that entry
\* is one to leave out.
Walk(w, e) ==
  IF w.full \/ (w.taken # <<>> /\ w.memory + Max({e.old, e.new}) >= DecodeMemBlock)
  THEN [w EXCEPT !.full = TRUE, !.rest = Append(@, e)]
  ELSE IF e.ok /\ w.last <= e.pos /\ e.pos < SizeOf(slot) THEN Accept(w, e)
  ELSE w

WalkStart ==
  [taken |-> <<>>, rest |-> <<>>, headers |-> <<>>, last |-> lastStream,
   memory |-> 0, full |-> FALSE, dd |-> dd]

Walked ==
  LET upTo[k \in 0 .. Len(info[slot])] ==
        IF k = 0 THEN WalkStart ELSE Walk(upTo[k - 1], info[slot][k])
  IN upTo[Len(info[slot])]

\* Whether the j-th stream of the block is written, and not a reference.
IsWritten(w, j) ==
  LET i == FirstOf(w.dd, w.taken[j])
  IN i = 0 \/ w.dd.firsts[i].index = dd.written + j - 1

\* Where the bytes before the j-th stream begin.
EndBefore(w, j) ==
  IF j = 1 THEN lastStream ELSE w.taken[j - 1].pos + w.taken[j - 1].old

BlockOfWalk(w) ==
  LET n == Len(w.taken)
  IN [headers |-> w.headers,
      data |-> FlattenSeq([j \in 1 .. n |-> IF IsWritten(w, j) THEN w.taken[j].data ELSE <<>>]),
      gaps |-> [j \in 1 .. n |->
                  Region(slot, EndBefore(w, j), w.taken[j].pos - EndBefore(w, j))],
      tail |-> IF w.rest # <<>> THEN <<>>
               ELSE Region(slot, EndBefore(w, n + 1), SizeOf(slot) - EndBefore(w, n + 1))]

-----------------------------------------------------------------------------
(* EncData *)

Setups ==
  [file : Files, dedup : {TRUE}, mt : BOOLEAN, memory : MemoryParts]
    \cup [file : Files, dedup : {FALSE}, mt : BOOLEAN, memory : {0}]

EncInit ==
  /\ \/ whole = FALSE /\ setup \in Setups /\ inputSize = Len(setup.file.bytes)
     \/ whole = TRUE /\ setup = CHOOSE s \in Setups : s.file.bytes = <<>>
  /\ Init
  /\ info = [i \in Slots |-> <<>>] /\ lastStream = 0 /\ blocks = <<>>
  /\ dd = [firsts |-> <<>>, dups |-> <<>>, streams |-> 0, written |-> 0]
  /\ head = [list |-> <<>>, memory |-> 0]
  /\ dec = [next |-> 1, out |-> <<>>, index1 |-> -1, index2 |-> 1, ok |-> TRUE,
            manager |-> NewManager(<<setup.memory, FilePart>>)]

\* A round's scans, or the end of the input.
Scan ==
  /\ Scanned
  /\ info' = [i \in Slots |-> IF whole THEN <<>> ELSE Entries(i)]
  /\ UNCHANGED <<setup, lastStream, dd, blocks, head, dec>>

\* One pass of the repeat loop.  After the slot's last block it is done with.
WriteBlock ==
  /\ phase = "emit" /\ ~whole /\ SizeOf(slot) > 0
  /\ \E w \in {Walked} :
       /\ blocks' = Append(blocks, BlockOfWalk(w))
       /\ dd' = [w.dd EXCEPT !.written = @ + Len(w.taken)]
       /\ info' = [info EXCEPT ![slot] = w.rest]
       /\ IF w.rest = <<>>
          THEN lastStream' = Max({w.last - SizeOf(slot), 0}) /\ Emit
          ELSE lastStream' = w.last /\ UNCHANGED vars
  /\ UNCHANGED <<setup, head, dec>>

\* A slot without data has no block; a tool works on its slots in its own way.
PassSlot ==
  /\ Emit /\ (whole \/ SizeOf(slot) = 0)
  /\ UNCHANGED <<setup, encVars, head, dec>>

Refill ==
  /\ ReadFuture \/ EmitLoad \/ EndRound \/ ChangeInput
  /\ UNCHANGED <<setup, encVars, head, dec>>

-----------------------------------------------------------------------------
(* The end of EncData: the table of the duplicates and the memory they take *)

\* f.rooms is DDCount1, a room that is free being negative; f.place[z] is the
\* room of the z-th first stream (the code keeps it in its Size).
RoomTaken(f, n, i) ==
  IF i > 0 THEN [f EXCEPT !.rooms[i] = -@, !.place = Append(@, i)]
  ELSE [f EXCEPT !.rooms = Append(@, n), !.place = Append(@, Len(f.rooms) + 1),
                 !.memory = @ + n]

\* A slip: a room of just the right size is passed over.
TakeRoomTight(f, z) ==
  LET n == Len(dd.firsts[z].key)
  IN IF dd.firsts[z].count = 0 THEN [f EXCEPT !.place = Append(@, 0)]
     ELSE RoomTaken(f, n, SelectInSeq(f.rooms, LAMBDA r : r < 0 /\ n < -r))

TakeRoom(f, z) ==
  LET n == Len(dd.firsts[z].key)
  IN IF dd.firsts[z].count = 0 THEN [f EXCEPT !.place = Append(@, 0)]
     ELSE RoomTaken(f, n, SelectInSeq(f.rooms, LAMBDA r : r < 0 /\ n <= -r))

Copied(f, z) ==
  LET left == f.left[z] - 1
      i == f.place[z]
  IN [f EXCEPT !.left[z] = left, !.rooms[i] = IF left = 0 THEN -@ ELSE @, !.dups = @ + 1]

\* Stream i of the simulation.
Foresee(f, i) ==
  LET z == Len(f.place) + 1
      g == IF z <= Len(dd.firsts) /\ dd.firsts[z].index = i THEN TakeRoom(f, z) ELSE f
  IN IF g.dups <= Len(dd.dups) /\ dd.dups[g.dups].stream = i
     THEN Copied(g, dd.dups[g.dups].first) ELSE g

NoneForeseen ==
  [rooms |-> <<>>, place |-> <<>>, memory |-> 0, dups |-> 1,
   left |-> [z \in DOMAIN dd.firsts |-> dd.firsts[z].count]]

Foreseen ==
  LET before[i \in 0 .. dd.streams] ==
        IF i = 0 THEN NoneForeseen ELSE Foresee(before[i - 1], i - 1)
  IN before[dd.streams]

\* The first streams that come again, as they are told to the decoder.
Table ==
  LET upTo[z \in 0 .. Len(dd.firsts)] ==
        IF z = 0 THEN <<>>
        ELSE IF dd.firsts[z].count > 0
        THEN Append(upTo[z - 1], [index |-> dd.firsts[z].index, count |-> dd.firsts[z].count])
        ELSE upTo[z - 1]
  IN upTo[Len(dd.firsts)]

Finish ==
  /\ phase = "done" /\ ~whole /\ phase' = "decode"
  /\ head' = IF ~setup.dedup THEN head
             ELSE [list |-> Table, memory |-> Foreseen.memory]
  /\ UNCHANGED <<whole, inputVars, storeVars, slot, emitted, inputs, setup, encVars, dec>>

-----------------------------------------------------------------------------
(* DecChunk and Restore *)

\* Codec.Restore with the test of the checksum: all stored bytes of one stream.
IsStored(bytes, h) ==
  /\ bytes # <<>>
  /\ \A k \in DOMAIN bytes : bytes[k] = [of |-> bytes[1].of, n |-> Len(bytes), k |-> k]
  /\ Len(bytes[1].of) = h.old

\* The bytes of the j-th stream among those of the block.
StoredBytes(b, j) ==
  LET end[k \in 0 .. Len(b.headers)] == IF k = 0 THEN 0 ELSE end[k - 1] + b.headers[k].new
  IN SubSeq(b.data, end[j - 1] + 1, end[j])

\* DDIndex1 is the stream that DDList2 at DDIndex2 names.
Keeps(d) ==
  setup.dedup /\ d.index2 <= Len(head.list) /\ head.list[d.index2].index = d.index1

Adding(d, h) ==
  IF Keeps(d) THEN [d EXCEPT !.manager = AddBlock(@, d.index1, h.old, head.list[d.index2].count)]
  ELSE d

Keeping(d, bytes) ==
  IF Keeps(d) THEN [d EXCEPT !.manager = WriteToBlock(@, d.index1, bytes)] ELSE d

Writing(d, bytes) == [d EXCEPT !.out = @ \o bytes]

Copying(d, h) ==
  LET r == CopyData(d.manager, h.option)
  IN [Writing(d, r.bytes) EXCEPT !.manager = r.manager]

\* Restore without tasks: the codec writes its output in pieces.
RestoreOne(d, b, j) ==
  LET h == b.headers[j]
      bytes == StoredBytes(b, j)
      d1 == Writing(Adding([d EXCEPT !.index1 = @ + 1], h), b.gaps[j])
      out == bytes[1].of
      d2 == Keeping(Keeping(d1, SubSeq(out, 1, 1)), SubSeq(out, 2, h.old))
  IN IF h.dup THEN Copying(d1, h)
     ELSE IF ~IsStored(bytes, h) THEN [d EXCEPT !.ok = FALSE]
     ELSE [Writing(d2, out) EXCEPT !.index2 = IF Keeps(d2) THEN @ + 1 ELSE @]

\* DecChunk with tasks: what they have restored is written in order.
WriteOne(d, b, j) ==
  LET h == b.headers[j]
      bytes == StoredBytes(b, j)
      d1 == [Writing(d, b.gaps[j]) EXCEPT !.index1 = @ + 1]
      out == bytes[1].of
      d2 == Keeping(Adding(d1, h), out)
  IN IF h.dup THEN Copying(d1, h)
     ELSE IF ~IsStored(bytes, h) THEN [d EXCEPT !.ok = FALSE]
     ELSE [Writing(d2, out) EXCEPT !.index2 = IF Keeps(d2) THEN @ + 1 ELSE @]

\* One turn of DecChunk's loop.
DecodeOne(d, b, j) ==
  IF ~d.ok \/ ~d.manager.ok THEN d
  ELSE IF setup.mt /\ Len(b.headers) > 1 THEN WriteOne(d, b, j) ELSE RestoreOne(d, b, j)

Decoded(d, b) ==
  LET after[j \in 0 .. Len(b.headers)] ==
        IF j = 0 THEN d ELSE DecodeOne(after[j - 1], b, j)
  IN [Writing(after[Len(b.headers)], b.tail) EXCEPT !.next = @ + 1]

DecodeBlock ==
  /\ phase = "decode" /\ dec.ok /\ dec.manager.ok /\ dec.next <= Len(blocks)
  /\ dec' = Decoded(dec, blocks[dec.next])
  /\ UNCHANGED <<vars, setup, encVars, head>>

\* The end mark is read.
DecodeEnd ==
  /\ phase = "decode" /\ dec.next > Len(blocks) /\ phase' = "decoded"
  /\ UNCHANGED <<whole, inputVars, storeVars, slot, emitted, inputs, setup, encVars, head, dec>>

\* The end, or an exception of the decoder.
Stop ==
  /\ phase = "decoded" \/ (phase = "done" /\ whole) \/ ~dec.ok \/ ~dec.manager.ok
  /\ UNCHANGED allVars

EncNext ==
  \/ Scan \/ WriteBlock \/ PassSlot \/ Refill \/ Finish
  \/ DecodeBlock \/ DecodeEnd \/ Stop

EncSpec == EncInit /\ [][EncNext]_allVars

-----------------------------------------------------------------------------
(* Properties *)

\* decode(precomp(x)) = x: no block is refused, what is decoded is the input
\* from its first byte on, and in the end all of it; for streams that overlap,
\* cross slots, do not fit into a block or repeat earlier ones.
DecodedRight ==
  /\ dec.ok /\ dec.manager.ok
  /\ IsPrefix(dec.out, setup.file.bytes)
  /\ phase = "decoded" => dec.out = setup.file.bytes

\* The memory that the encoder foretells for the duplicates is what the
\* decoder's data manager comes to, room by room used again, and no stream
\* is still held when all has been decoded.
MemoryForetold ==
  phase = "decoded" =>
    /\ dec.manager.total = head.memory
    /\ \A i \in DOMAIN dec.manager.blocks : dec.manager.blocks[i].count = 0
=============================================================================
