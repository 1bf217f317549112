# ytool in TLA+

ytool is a precompressor for archives and game data, in Free Pascal / Delphi.
`precomp` finds compressed streams in its input, decompresses them and writes
them out with what is needed to compress them again bit by bit; `decode` does
the reverse. Its README states the one thing that matters: `decode(precomp(x))
== x`, always, bit-exact. Encoder and decoder run on threads that share arrays
of flags, counters and buffers with few locks. This directory models those
protocols, the container between encoder and decoder, and preflate, the C++
library that makes zlib streams reversible; it checks them on small instances
with TLC and proves the core of the encoder, the caches and the hash chains for
every size with TLAPS.

## 1. The system

The repository has 1334 files, of which most of `contrib/` (vendored libraries)
and the corpora are not the program. The program is `common/`,
`precompressor/`, `io/`, `dbgenerator/`, `sources/`, `imports/`, `compat/` and
`ytool.dpr`, and of `contrib/` the library `preflate/`, on which the promise for
zlib streams rests (called from `precompressor/PrecompZLib.pas` 829-835 and
944-949).

| Component | State | Operations | Interacts through | What makes it correct |
|---|---|---|---|---|
| **Encoder rounds** `PrecompMain.pas`: EncInit, EncData, EncThread, EncThreadEx, EncCallThreads, EncFree | per slot Scanned1, Scanned2, Processed, Helping, StrIdx, InfoStore1/2, MemOutput1; per task ThrIdx | scan, barrier, confirm deferred streams, claim, process, help a nested round, write a slot out, refill | flags polled by all threads, ThreadSync, the data store | a slot is written only when nobody works on it; each stream is processed once; chunks in order; it ends |
| **Task threads** `Threading.pas` | FStatus, FErrorMsg, the procedure | Update, Perform, Start, Wait, RaiseLastError, WaitForAll, IsErrored | polled status, a critical section around the procedure | a start is not lost; an error is reported once |
| **Data store** `Utils.pas`: TDataStore1 | window of chunks with lookahead, FTemp, positions, FIndex | Load, LoadEx, ChangeInput, Read, Slot, Size, Done | called by EncData and by scans of all tasks | every input byte once, in order; full lookahead |
| **Input / output caches** `Utils.pas`: TCacheReadStream, TCacheWriteStream over TStoreStream | ring, two positions, FUsedSize, FDone | Read, Write, Destroy and a task of its own | atomic counter, FSync | a FIFO of bytes; nothing lost at the end; no hang |
| **Decoder blocks** `PrecompMain.pas`: DecChunk, Restore, DecThread, DecCallThreads, DecFree | StreamCount, StreamIdx, BlockPos, Completed, MemInput | read a block, start tasks, feed, claim, restore, write in order | polled flags, ThreadSync, message of a task | what is written is right or an error is reported; it ends |
| **Container and record walk** EncData's writing loop, DecChunk's reading | header, block and stream records, literals between streams, LastStream | write and read records | a byte stream | the decoder reads what the encoder wrote, with overlaps and splits |
| **Scans and lists** Scan1, Scan2, AddStream, AddDepthStream | candidate lists per slot and per future chunk | add, defer, confirm, sort | slots, data store | a candidate is verified before use |
| **Deduplication** FindDD, FindOrAddDD, TDataManager, TPrecompVMStream | hash lists, indices, virtual memory of blocks | number, find, add, copy, drop | both ends number streams alike | same numbering, block alive until its last use |
| **Codec database** CheckDB, AddDB, resources, external patches | shared list | find, add | all tasks | readers see whole entries |
| **Stream containers** TMemoryStreamEx, TArrayStream, TBufferedStream, TListEx, TSOList | buffers, positions | read, write, seek, sort | - | equivalent to a plain byte sequence or list |
| **Child processes** TProcessStream, ExecStdio | pipes, two copying threads | read, write, wait | OS | all bytes, failure reported |
| **Codecs** zlib, lz4, zstd, lzo, oodle, media, EXE, INI, DLL | per-thread contexts | scan, process, restore one stream | libraries | restore inverts process, else the stream is refused |
| **File tools** `io/` | file lists, matches | find, erase, replace, execute, decode | data store | - |
| **Database generator, command line, bindings** | - | - | - | - |
| **preflate: match finder** hash chains, chains of runs, search | arrays of 16-bit positions with a common shift | update, skip, reshift, match, seqMatch, hopMatch | the token predictor moves it token by token | a link leads to the latest earlier position; the search sees all in reach |
| **preflate: token predictor** | position, hash chains, pending and lazy state | predict, repredict, analyse, encode, decode, count | corrections, counts | the decoder's predictions are the encoder's |
| **preflate: block and tree codec** | bit positions, trees | read, predict and write blocks and trees | bit streams | the bits come back |
| **preflate: statistical model, arithmetic coder** | counts, shares, interval | count, build, send, encode, decode | a bit stream | both ends use one model |
| **preflate: meta blocks** preflate_decode, preflate_reencode | cached data, held-back blocks, output cache | cut, flush, encode, re-encode | all of the above | same window on both sides; all bytes |
| **preflate: estimators, support streams** | - | - | - | any parameters are correct |

What is hard in it: threads that poll each other's flags with no lock; work
that a task finishes after the main thread has gone on; helpers started by
whoever holds a nested stream; errors reported through a message that anybody
may clear; ring buffers with two counters read one after the other; the last,
half-empty round; two programs far apart in time that must number, predict and
count alike, through every restart of a walk and every refill of a window. Where
each of these bites is listed, line by line, in `PROJECT.json` under `hazards`.

## 2. Modules

| Module | Models | Built on |
|---|---|---|
| `EncodeRound` | encoder rounds at depth 0 with nested rounds and helpers | - |
| `MCEncodeRound` | small instances of it | `EncodeRound` |
| `EncodeRoundProofs` | its invariant and the theorems about slots, claims and chunks, deferred streams and nested rounds | `EncodeRound`, `CommonLemmas` |
| `CommonLemmas` | what the proofs need of `%`, induction over numbers, joins and pieces of sequences, rings of any size | `CacheRing`, `TLAPS` |
| `DataStore` | TDataStore1 at the level of bytes | - |
| `ArrayStream` | TArrayStream: several streams used as one | - |
| `DataManager` | TDataManager: the decoder's blocks of streams to come again | `ArrayStream` |
| `Container` | the records of EncData and their way back through DecChunk, with deduplication | `DataStore`, `DataManager` |
| `MCContainer` | inputs and streams for it | `Container` |
| `DataStoreProofs` | the theorems about the window of the data store, as Container uses it | `Container`, `TLAPS` |
| `ContainerProofs` | the theorems about the container: what is decoded is the input, the memory foretold is the memory used | `DataStoreProofs`, `CommonLemmas` |
| `ByteQueue` | abstract: what a cache promises | - |
| `CacheRing` | the ring of bytes and the size of a portion | - |
| `CacheWrite`, `CacheRead` | the caches; each implements `ByteQueue` | `CacheRing`, `ByteQueue` |
| `CacheWriteProofs`, `CacheReadProofs` | the theorems of the caches | `CommonLemmas` |
| `DecodeBlock` | decoder blocks at depth 0 | - |
| `MCDecodeBlock` | small archives for it | `DecodeBlock` |
| `DecodeBlockProofs` | its invariant and theorems | `DecodeBlock`, `TLAPS` |
| `MatchChain` | abstract: what the hash chains promise | - |
| `HashChain` | preflate's hash chains; implements `MatchChain` | `MatchChain` |
| `SeqChain` | the chains of runs | - |
| `MatchFinder` | both, moved together over one input | `HashChain`, `SeqChain` (INSTANCE) |
| `MatchFinderProofs` | the theorems of the hash chains, the refinement, and the reach and the entries of the runs | `MatchFinder`, `CommonLemmas` |
| `PredictorState` | the searches of the token predictor | - |
| `TokenPredictor` | analysis, codes, counts and decoding of tokens | `PredictorState` |
| `BitStream`, `Huffman` | bit streams, canonical codes | - |
| `BlockCodec` | reading and writing deflate blocks | `Huffman` |
| `TreePredictor` | prediction of the trees of a block | `BlockCodec` |
| `ArithCoder`, `SubModel`, `PredictionModel` | the coder, a model, all models of a meta block | `BitStream` |
| `MetaCodec` | the file of heads, models and codes | `PredictionModel` |
| `PreflateChecker` | the way of a stream and back in one meta block | `TreePredictor`, `MetaCodec` |
| `MetaBlocks` | cutting into meta blocks and putting together | `MetaCodec` |
| `MCMatch`, `MCTokens`, `MCChecker`, `MCMeta` | small instances of these | - |

A definition whose comment begins with "Mutant" or "A slip" is a variant of the
one after it with a plausible bug: it stands there to show that a property
notices. No specification uses it. RECURSIVE operators are used only in modules
that no theorem reaches.

### EncodeRound

One action per step between two accesses to shared state. The main thread is
at `mpc`: `BeginRound` and `StartTask` (2178-2219), `SeeProcessed` and
`SeeThrIdx` (the two waits before a slot is written, 2220-2242), `Emit`,
`LoadEx`, `LastLoadEx`, `Join`, `EndOfInput`; `RaiseError` leaves the loops.
Task `t` is at `pc[t]`: `Scan1`, `PassBarrier`, `Scan2`, then GetIndex split
into its reading (`Get`) and the store of ThrIdx (`SetThrIdx`), `Claim` (the
atomic increment of StrIdx), `CallHelper` (EncCallThreads, one task at a time,
under ThreadSync), `ProcessLeaf` or `ProcessNested`, the nested EncThread
(`NestedClaim`, `NestedProcess`, `AwaitHelpers`, `NestedEnd`), `MarkProcessed`
and `Exit`. A helper (EncThreadEx) is at `hinc`, `hproc`, `hend`. `Fail` is an
exception while a stream is processed, `SetErrored` what Execute makes of it.

A chunk is its number, a stream its index in the list of its slot. `Scan1`
takes AddStream (936-1006) with it: any number of streams is accepted, and any
number up to `MaxDeferred` put off to each chunk from the scan's own to `Ahead`
further on - its own too, when the stream did not come out whole. They go into
the list of slot `c % intArray1`, which is not always the slot of the chunk:
IntArray[1] is assigned from a loop variable after its loop (1895), so it is a
variable here, chosen in `Init` from `Moduli`, which may hold NumSlots - 1 (Free
Pascal) and NumSlots (Delphi). With 0 the division raises, the codec's scan ends
and nothing is put off. `Scan2` tries only the streams of its list that start in
the slot's chunk, takes those that the codec confirms and drops the others. A
nested round is started for every stream that a codec restores (1565-1595), with
0 to `MaxNested` nested streams in it, and its owner waits for the helpers in
any case; `ProcessLeaf` is a stream at the last depth or one that no codec
restores.

The data store appears as the chunk number of each slot (`pos`, `findex`): the slots of
the last round may have none ("phantom" slots, which the code handles with
Size = 0). With `LowMem` the arrays have one cell; what the code reads beyond
them is an arbitrary value. `done` and `ndone` are history variables.

A run on one thread, where EncData calls EncThread itself, is outside this
module (`NumThreads >= 2`): nothing is concurrent there. DoScan2, which is set
for every codec that defers streams, is taken as True.

### DataStore

The window as the code keeps it (`mem`, `mpos`, `size`, `positions`, `findex`,
`temp`, `tempPos`), each byte being its number in the input. `Load` and
`LoadEx` are whole operations. `ReadFuture` is what a scan's Read does to the
store: it takes bytes from the input into FTemp. A scan is over before the
first LoadEx of the round - that is what the barrier in `EncodeRound` gives -
so the calls are sequential here. `whole` chooses between EncData's way and
that of the tools in `io/`, which use one store for many files
(`ChangeInput`). The module has actions but no Next of its own: `Container`
drives them.

### Container, DataManager, ArrayStream

EncData's walk over the streams of a slot (2272-2433), as operators on a record
of the walk: streams that overlap an earlier one are dropped, the gap before a
stream becomes literals, a stream may reach into the next slot (`LastStream` is
carried over), the block is closed when its streams reach DecodeMemBlock and
the walk starts again. Every stream kept is looked up among those written
before; a second one becomes a reference. At the end the table of duplicates
and the memory the decoder will need (a simulation of its data manager) are
written in front. Decoding reads the whole container back: blocks, streams,
references, literals, with the bytes of streams kept in `DataManager` on an
`ArrayStream` of memory and a file behind it. `DecodedRight` compares the result
with the input, at the end of every run of the encoder and for every split of
the decoder's memory.

A stream is given by where it is found, its place, its two sizes and whether it
is confirmed; the stored bytes ("new") stand for all the codec's output,
extended data included. Which task restores a stream is `DecodeBlock`'s
subject. Records of nested chunks, resources and srep are left out, and
DecodeMemBlock is positive (see section 6 for `-db0`).

### CacheRead, CacheWrite, CacheRing, ByteQueue

Both threads of a cache, one action per access to FUsedSize, FDone or the
ring. `used` is read and written atomically but the loops read it and FDone
separately, and that is kept: in `CacheRead` the wait for room (2641-2647) loads
FUsedSize (`Reload`) and then looks at FDone, which ends it even if there is room
by now (`GiveUp`), else at what was loaded (`Retry`). A `FMaxSize` below or at the buffer size, for
which the code takes other paths, is among the sizes (`maxSize` is chosen in
`Init`). At `FMaxSize = FBufferSize` the constructor of the output cache does
not create the storage that Write then uses: `WriteNil`.

### DecodeBlock

`mpc` walks through DecChunk, `pc[t]` through Restore in a task. An archive is
the sequence of its StreamCounts. The tasks claim streams by `idx`, wait until
`bpos` has passed theirs, restore and set `completed`; the main thread writes
in order, whatever is in the buffer, and `out` records it: `<<block, stream>>`
or `Wrong`. `expected` is a history: what must be written for the blocks read so
far. A task sets its message before its status (Threading.pas 263-273)
and RaiseLastError clears a message when it raises it, one task after another;
both are steps of their own, because the errors of this protocol live between
them. A nested DecChunk appears only with what it does to the messages of
others (`NestedLook`, `NestedReport`). A block of one stream is restored by the
main thread straight into the output (PrecompOutput2, 2731-2740): when it fails,
`MainRestoreError` may have put something `Wrong` there before the error is
raised, and `WrongIsReported` says that this is the one case of wrong output,
that nothing follows it and that Decode reports it.

### HashChain, MatchChain, SeqChain, MatchFinder

`HashChain` has the arrays of the code: `head`, `prev`, `chainDepth`, indexes
relative to `totalShift`. updateHash cuts its work into blocks, moves everything
down by `Delta` when the arrays come to their end and enters one position after
the other; skipHash enters the first position alone. The 16-bit sizes of the
code (window 2^15, arrays of 2^16) are the constants `Window`, `Delta`, `Low`,
`MaxBlk`, `Cap` under `SizeAssumption` and `KeptAssumption`, which the numbers of
the source satisfy.
`MatchChain` is the abstraction: a set of entered positions, of which those in
the window can be found; `ImplementsChains` is the refinement. `SeqChain` is the
index of runs of equal bytes, whose reshift can cut a run in two; `MatchFinder`
moves both, as commitToken does.

### PredictorState, TokenPredictor

The searches (`match`, `seqMatch`, hops) look at what the chains promise, not at
the arrays: the set of positions that were entered. A behaviour of
`TokenPredictor` is: an arbitrary compressor chooses tokens and blocks; the
analysis predicts each and records the difference; the records become codes and
counts; the decoder predicts again from the data it has and corrects. Both sides
use the same operators with the states the code gives them, so that a difference
in state shows. Two configurations are zlib's, two are not.

### BitStream to PreflateChecker

Words, codes and tables are those of the format with smaller numbers
(`ByteBits`, `WordBits`, code lengths of up to 3, a small alphabet that has
every kind of symbol). The checker runs over whole streams: it reads blocks of
all three types, predicts the trees, counts, builds the models with their
rounded shares, writes models and codes through the arithmetic coder, reads all
back and writes the bits. Where an operation in the code returns an error, the
operator says so and the checker gives up as the code does. A reader, a
writer and a coder are values: an operation returns the value after it, and
`With(v, F)` is F(v) with v evaluated once.

### MetaBlocks

preflate_decode's loop over a stream (blocks held back, cut at one and a half
meta block sizes, one window of decoded data kept) and preflate_reencode's over
the file of heads and codes, called through the library's two functions with
the buffer sizes of their callers. A block that breaks off has already put any
part of its bytes into the output cache, a task whose predictors give up ends the
loop before the flush that belongs to it, and in both cases the last flush
writes what is in the cache. The content of blocks is left to the checker.
No task runs beside another: the queue's limit is 0 in both calls.

## 3. Runs

| Run | Instance | Shows |
|---|---|---|
| `encode_rounds` | 2 tasks, 3 chunks (2 rounds, the last with a phantom slot), up to 2 streams per chunk, 1 deferred to each chunk up to 2 ahead, IntArray[1] = 1 and 2, 1 failure; 4.4M states | EncoderInv, SlotQuiet, ProcessedOnce, InOrder, NoStaleFuture, SafeEnd, NoLostStart |
| `encode_nested` | 2 tasks, 2 levels, 3 chunks, up to 1 stream per chunk with 0 to 2 nested streams, 1 failure; 2.0M states | NestedQuiet, EncoderInv, Terminates |
| `container` | 3 slots of 2 bytes; inputs of 0 to 14 bytes around every boundary; all choices of up to 4 of 11 streams, or 5 of 9, that overlap, cross chunks, repeat or fail; 2 files for the tools; 0.6M states | WindowRight, EmittedRight, DecodedRight, MemoryForetold |
| `cache_write` | rings of 0, 2, 3, 5 with a buffer of 2, up to 9 bytes | Fifo, Closes |
| `cache_write_tail` | ring of 5 | AllDelivered **violated** |
| `cache_read` | rings of 2, 3, 5 with a buffer of 2, 8 bytes | Fifo, CallsReturn |
| `decode_blocks` | 3 tasks, 1 level, archives of up to 2 blocks of 0 to 3 streams (5 in all) with a block of one stream only at the end, 1 failure; 5.2M states | WrongIsReported, BitExact, RestoredOnce, BlockQuiet |
| `decode_nested` | 3 tasks, 2 levels, up to 2 blocks of up to 2 streams, 1 failure or raising input | Terminates |
| `match` | window 4, arrays of 13, all inputs of 13 bytes over two letters, every way of updating and skipping | LinksRight, DepthsRight, RunsRight, ReachRight, ImplementsChains |
| `tokens` | all data of 7 bytes, and chosen data behind a context, 4 configurations, every parse into up to 2 blocks (3 tokens being the length after which a block is expected to end); 1.2M states | RoundTrip, NoLateFailure, CountsRight, SeqMatchAgrees |
| `checker` | streams of 1 to 3 blocks of every type, well formed and broken; 19k states | StreamBack, BlocksBack, ModelsBack, CodesCounted, TreesRight |
| `meta` | streams of up to 4 blocks of 4 sizes, whole, breaking off anywhere in the last block, or with a block the predictors give up on, 2 capacities; 31k states | OutputWhole, SameInput, BlocksBack |

### Why the bounds are enough

*Encoder and decoder.* Two tasks already give every pairwise race of the encoder
(main thread against task, task against task, owner against helper); three
chunks on two slots give a refill of each slot, the wrap of `findex` and a
phantom slot. With two slots both moduli occur: under 1 all streams lie in the
list of slot 0, under 2 each in that of its chunk's slot; streams may be put off
to the scan's own chunk, to another one of the round and to one of the next
round, several to one chunk by the two scans. Nested rounds do not touch the
deferred lists, so `encode_nested` defers nothing. What three tasks could add is covered by the theorems for every
property but Terminates. The decoder runs on
three tasks, so that two can compete while a third has failed or is late. Two
blocks give the hand-over from one to the next.

*Caches.* Rings of 3 and 5 with a buffer of 2 wrap at odd places; 9 bytes go
round the largest ring more than once. For Fifo the theorems say that no size
differs.

*Container.* The sizes of the inputs lie on, before and behind every chunk and
window boundary; streams of 1 to 4 bytes on chunks of 2 cross into the next one
and into the one after it; DecodeMemBlock = 5 splits blocks of two and more
streams; every stream can repeat an earlier one of its own block, of an earlier
block or both. Memory of 3 bytes before a file, or of none, makes a kept stream
cross from one to the other.

*Match finder.* Thirteen positions on arrays of 13 with a shift of 5 give
a reshift of the hash chains and two of the runs, one with bytes left to enter
and one without, entries that fall out, and runs that are cut at each
end. The theorems take these sizes away.

*Tokens and blocks.* Matches of up to 5, a lookahead of 6 and 7 free bytes give
a lazy match, a far short match, a run, a hop over several candidates and a
correction of each kind, in the second block as well as in the first. The
streams of `checker` have codes with and without extra bits, all three repeats,
trees better and worse than the predicted ones, and every place at which
reading can fail.

### What the violated run shows

`cache_write_tail` - the loop reads FUsedSize, then FDone. If the writer
publishes its last portion and sets FDone between the two, the task leaves with
bytes in the ring, and Destroy returns without them. The quotation is in
`PROJECT.json` under `findings`.

### Fairness

`FairSpec` gives weak fairness to each thread: the operating system schedules
every thread, and no step waits for a lock that its holder keeps across steps
(ThreadSync and FSync are held within one action). There is none for failures:
nothing makes a codec, a read or a write fail. In `CacheRead` fairness is on a
call of Read that has begun and on the Join of Destroy, since nobody need call
Read; in `CacheWrite` the caller does destroy the stream, as Encode does. Where
the code can wait for ever, the liveness properties say under which condition
they hold: `Closes` while the output does not fail, `CallsReturn` while the
input does not fail, `Terminates` of the decoder while Read reports the end of
the archive rather than raising (`FeedRaise`). The runs of `CacheWrite` and
`decode_nested` have these stops, so they do not check for deadlock; the
preflate runs end when their input does. The sequential modules state no
liveness.

### Refinements

`Fifo` is `ByteQueue`'s specification, on the variables `sent` and `delivered`
of each cache. `ImplementsChains` is `MatchChain`'s, on the history of entered
positions and what the arrays of `HashChain` reach from the current one. Both
are checked by TLC and proved.

## 4. Proofs

### The encoder's rounds

`EncodeRoundProofs` proves, for every NumThreads >= 2, every number of chunks,
streams, nested streams and failures, one or two levels and no LowMem:

| Theorem | Says |
|---|---|
| `Inductive` | `Spec => []IInv` |
| `TypeCorrect` | type correctness |
| `SlotIsQuiet` | a slot that is written out is touched by no task, and all its streams are processed |
| `StreamsProcessedOnce` | a stream is worked on by one task, once |
| `ChunksInOrder` | chunk records are written in the order of the input |
| `EncodeEndsSafely` | a normal end has written everything, with no task running |
| `NoStartIsLost` | a task that is started for a round is idle |
| `FutureInductive` | `Spec => []FutureInv` |
| `NothingLeftDeferred` | when a slot is written, no stream deferred to its chunk or an earlier one is left untried in the list of that chunk's own slot |
| `HelpersInductive` | `Spec => []HelpersInv` |
| `NestedRoundsAreQuiet` | a task that leaves the wait for its helpers has none left, and no nested stream is forgotten |
| `EncoderInvariant` | `Spec => []EncoderInv`, all three together |

The assumptions are the named ones of `EncodeRound` (`ThreadsAssumption`,
`DepthAssumption`, `BoundsAssumption`, `LowMemAssumption`), and `~LowMem` in
each theorem: section 6 says why.

**The argument.** SlotQuiet is not inductive: nothing in it says why a task
that picked a slot before the main thread looked at ThrIdx, and stores its
ThrIdx after that, does no harm. IInv says it in eight parts. `PickInv`: from
the store of ThrIdx until MarkProcessed the task has its slot published, and
whoever is at the end of the slot's list knows that StrIdx has passed Count.
`ScanInv`: Processed implies that StrIdx has passed Count, and a slot that has
not been confirmed has StrIdx = -1. So once the main thread has seen Processed
every claim on the slot comes too late, and a task that still holds a stream
has the slot as its ThrIdx, which the main thread waits for (`MainInv`).
`ClaimInv` and `DoneInv` make claims distinct and say that a stream that has
been claimed and is not held has been processed. `StatusInv` ties TTask's
status to the place of the task. `StoreInv` ties FIndex and the positions of
the window to the number of chunks written, through the rotation of LoadEx.
Each part has a lemma that every step preserves it, action by action.

*Deferred streams.* The lists are kept by slot, and slots are refilled one by
one while tasks still run. `FutureInv` says that every entry is in the list that
IntArray[1] gives (`Listed`) and, if that is the list of the chunk's own slot (`c %
NumSlots`), that its chunk is not behind the slot, and ahead of it once Scan2 is
over (`InTime`). Of entries in other lists nothing is said: Scan2 of that slot
does not try them, and they stay (section 6). A scan cannot defer behind a slot, because no slot is
refilled before all have been scanned (`ScanInv`, `StoreInv`); a refill cannot
step over an entry, because it comes after Scan2 of its slot and two chunks
with one remainder are a window apart (`CellsApart`).

*Nested rounds.* The flags in `AwaitHelpers` are read one by one, and a task
whose flag has been seen clear can become somebody's helper before the last is
read. `WaitInv` says that it is never the waiting task's own: only the owner
calls helpers for its nested round, and it does not while it waits. `NestedInv`
follows each claimed nested stream through the hands of the owner or a helper
until it is processed or lost with a failed helper.

IInv, FutureInv and HelpersInv together are `EncoderInv`, which both encoder
runs check.

### The caches

`CacheWriteProofs` and `CacheReadProofs` prove, for every size of the ring, of
the buffers and of the input, and every interleaving:

| Theorem | Says |
|---|---|
| `Inductive` | `Spec => []IInv` |
| `UsedSizeIsRight` | FUsedSize lags behind the positions by what is not published; the ring is never overfull; no byte in it is overwritten before it is read |
| `WritesInOrder`, `ReadsInOrder` | `Spec => Fifo`: the stream implements `ByteQueue` |

**The argument.** That the bytes between the positions are whole is not
inductive. `Placed` says where each byte is (FStorage, ring, output); `Fits`
that the portion chosen under an older FUsedSize still fits when it is copied,
because the other side only makes room; `Seen` that what the reading side has
seen of FUsedSize is still there when it uses it, because the other side only
adds. `CommonLemmas` has the arithmetic: positions less than the ring's size
apart have different cells (`CellsApart`), and up to the end of the ring
positions and cells advance together (`CellAfter`); from that it derives that a
portion put in leaves the others whole and a portion taken out is the bytes of
its positions. On the reading side FOnFull can give up and drop what it holds;
`Dropped` and `DoneBy` say that this happens only after Destroy, and that
nothing is put into the ring after it. The assumption is `SizeAssumption` of
each module.

### The decoder's blocks

`DecodeBlockProofs` proves, for every NumThreads >= 2, every set of archives and
every number of failures, with an input that may break off or raise:

| Theorem | Says |
|---|---|
| `Inductive` | `Spec => []IInv` |
| `TypeCorrect` | type correctness |
| `StreamsRestoredOnce` | a stream is held by one task, and by none after it has been completed |
| `BlocksAreQuiet` | no task is at work when DecChunk sets up the next block |
| `WrongOutputIsReported` | what is written is the beginning of what the blocks read so far stand for, but for the last thing written when a block of one stream fails: then Decode ends with an error |
| `DecodingIsBitExact` | a decoder that ends without an error has written the whole archive, in order |

The first four assume that a block of one stream comes last in its archive or
that there are two levels (`LoneBlocksLast`, MaxDepth = 2), the last two
`NothingSwallowed`: one level with such archives, or two levels without a
failure. These are not bounds of the model: what they leave out is wrong in the
code, and section 6 has the violations ("A block of one stream", "A swallowed
error"). Otherwise only the named assumptions of `DecodeBlock` are used.

**The argument.** The main thread writes a place of MemInput because it has seen
Completed, without knowing who restored it. `ClaimInv` says that numbers given
out by StreamIdx are distinct, none of them of a completed stream, and
`RestoreInv` that a completed stream has been restored after it was fed; both
hold from the start of the tasks to WaitForAll, and `QuietInv` that no task is
left over from the block before, so that the reset of StreamIdx, Completed and
BlockPos harms nobody. A task may still be on its way out through a number that
is too large; `LateInv` says that this is all that a task does in a block of one
stream. `MsgInv` and `StatusInv` follow a failure: its message is set before its
status, and while the main thread looks for a message there is one ahead of it;
so a stream that was not completed is never written (`DoneInv`). `OutInv` adds
up what has been written, or says that the last piece is what a failed codec has
left in the output and that this is the end (`Spoiled`).

### The window of the data store

`DataStoreProofs` proves of Container's specification, for every number of
slots, every size of a chunk, every input and every number of bytes that Read
takes ahead:

| Theorem | Says |
|---|---|
| `StoreInductive` | `EncSpec => []StoreInv` |
| `StoreEmitsTheInput` | the slots written out are the input in order, and in the end all of it (`EmittedRight`) |
| `StoreShowsTheWindow` | a slot that is scanned has its chunk and its lookahead (`WindowRight`) |

The only assumption is `StoreAssumption`.

**The argument.** In the middle of a round the window holds parts of two
windows, and neither property says which byte is where. `MemInv` does: up to
where LoadEx has come (`Top`) memory has the bytes of the window that begins at
`Origin`, behind it still those of the window before, which begins at `Base`.
`FillInv` says how far the input has been used: to the end of what LoadEx has
been through, and no further, whether the bytes came from the input or from
FTemp (`TempInv`). `PlaceInv` and `BehindInv` tie the positions to FIndex and
FIndex to the loop: LoadEx is one slot behind it, so the slot that is written
out has not been overwritten. `RefillIs` is the step common to LoadEx and Load.
The products of slot and chunk size are hidden behind `Off`, of which only its
growth from chunk to chunk is used.

### The container

`ContainerProofs` proves, for every input with every list of streams that the
scans may find in it (overlapping, crossing slots, refused, repeated), every
number and size of slots, every DecodeMemBlock, with deduplication and without,
with tasks in the decoder and without, for every part of the data manager that
is in memory:

| Theorem | Says |
|---|---|
| `ContainerDecodesTheInput` | `EncSpec => []DecodedRight`: decode(precomp(x)) = x; no block is refused, what is written is the beginning of the input, and in the end all of it |
| `MemoryIsForetold` | `EncSpec => []MemoryForetold`: the memory that the encoder writes into the table is what the decoder's data manager has handed out in the end, and no stream is still held |

The assumptions are `StoreAssumption` and `ContainerAssumption`. The latter
asks for a positive DecodeMemBlock (section 6 says what happens at 0), for
streams that have bytes and are listed in the order of their places, as the sorts
of the lists leave them (1310, 1714), and for inputs no longer than the file of the
data manager may become: FMaxStreamSize, 2^40 - 1 bytes (Utils.pas:114).
They need the last one because AddBlock takes new bytes at the end
whenever no free block is long enough, and all streams kept may need as many
as the input has.

**The argument.** DecodedRight says nothing before the decoder runs.
`ContainerInv`, which is inductive together with `StoreInv` of the data store,
says of each block written which bytes of the input and which streams it is
(`BlockRight`), of the blocks that they follow each other without a gap (`Chain`),
and of the encoder that block, literals carried over and slots emitted add up
(`EncodedInv`). It rests on lemmas in the order in which the data flow.

*Writing.* `WalkKeeps` follows the walk entry by entry, `WalkedIs` over a slot:
what has been taken ends where the next gap begins, whatever is dropped. The
bytes of a slot are those of the input at its place because `StoreInv` says so,
the lookahead included. A stream that is numbered is either entered as new or
recorded as a copy of an earlier one with the same bytes, and the two lists stay
in the order of the numbers (`FirstsRight`, `DupsRight`); the count of a first
stream is the number of its copies. `IsWritten` looks at the lists as they are at
the end of the walk; that it says the same as when the stream was accepted is a
lemma too. `TableRight` says that the table names the first streams that have
copies, with their number.

*Reading.* `ManagerHas` is what the decoder knows in front of stream i: a block
is in use exactly if it belongs to an earlier stream that has a copy from i on,
it holds that stream's bytes, and its count is the number of these copies. So a
block is free when its last copy has been made and not before, a block that is
given away is no longer needed, and CopyData finds the only block of its stream.
The bytes of other blocks stay because blocks do not overlap (`ManagerRight`) and
because TArrayStream's Write and Read, with their updates of positions and sizes
over two streams, are those of one array of bytes (`ByteAt`): this is the first part
of the module.

*What is foretold.* EncData walks over the same lists as the decoder, but with
numbers only: the room of each first stream, negative when it is free
(2522-2573), and the copies left of each. `AsForetold` says that in front of stream
i the rooms are the blocks of the manager with their sizes (`RoomsMatch`), that
the room noted for a first stream is the block of its bytes as long as copies
are to come (`PlacesMatch`), that the next reference is the same one (`DupsMatch`)
and that the sums of memory agree. It is kept because both sides take the
first room that is free and long enough (`FreeRoomIs`), and because a
stream that is neither on the table nor a copy changes nothing on either side. The
memory is compared only at the end, so the invariant also says that the last
block ends behind the last stream: there no copy is to come, hence no block is
in use. Without deduplication the table says 0, and the manager hands out nothing.

All recursive functions of the model (the walk, the table, the
loops of Write and Read) are shown to have solutions by `LeastNumber`.

### The hash chains

`MatchFinderProofs` proves for arrays, windows and blocks of any size under
`SizeAssumption`, and any hash function (the last theorem, `RunsAreRight`, also
needs `KeptAssumption`, see below):

| Theorem | Says |
|---|---|
| `Inductive` | `Spec => []IInv` |
| `LinksAreRight` | heads and links within the window lead to the latest earlier position with their hash |
| `DepthsAreRight` | the depth decreases by one along a link of the window |
| `ArraysImplementChains` | `Spec => ImplementsChains`: the arrays implement `MatchChain` |
| `FinderMovesChains` | `FinderSpec => Spec`: the theorems above hold where tokens move both indexes |
| `RunsReachTheWindow` | `FinderSpec => []ReachRight` |
| `RunsAreRight` | `FinderSpec => []RunsRight` |

**The argument.** LinksRight speaks of the window, and a link that leaves the
window now was made when nothing was known of where the window would be. IInv
speaks of the arrays instead: a link goes to the latest entered position with
its hash that the arrays still hold (`Live`, `Link`), and is below `Low` when
they hold none. `Room` says that indexes stay in the arrays through a block, and
`WindowHeld` that what a reshift has dropped is out of the window; with these
LinksRight follows.

**The refinement.** The abstract `nodes` are what the iterators reach. `Walk`
follows `prev` from a head until a link leaves the window; `WalkRight` says that
it passes exactly the entered positions of its hash that are in the window:
each index is a position of the hash and lower than the one before (`WalkDown`),
so the walk ends within the array, and no position can lie between two indexes
or behind the last. Then `nodes` is a set that can be computed from the history
(`NodesRight`). The end of a block is the abstract step, for which `EnteredInv`
is needed: what a block has entered is everything from its first position on.
All other steps stutter.

**The reach of the runs.** `RunsReach` says that the array of runs is filled to
its end or to that of the input, and that no move has taken it further than the
window allows. `_build` and the loop of updateSeq are recursive functions;
`BytesInOf` and `TurnsInOf` show that their equations have solutions, and
`CaughtReach` that the loop, whose number of turns the model computes, has
brought the position back into reach.

**The entries of the runs.** RunsRight says of every position what its entry is;
the proof speaks of runs instead. `RunIn(f, b, x, y)` is the run from x to y of
the bytes between the first position of the array and the last that has been
entered, `LongRuns` are those of three and more of a byte, and `Latest` says
that an index is that of the last of a set or, below `Low`, that the set is
empty. `ClosedAt` is the state between calls: every run is `Finished` (its last
two positions have no distance, the others lead to its start, the start leads to
the run of its byte before it), the head of every byte is its latest run, and
the last run may still be continued. `OpenAt` is the state in the loop of
_build, where that run is `Growing`. `BuildCloses` goes from the one to the
other and back: the first byte of a part has the four cases of the code
(`FirstByteOpens`), the later ones open a run or make it longer
(`NextByteOpens`). For _reshift, `Moved` says what the cut and the move
together do, and `MoveCloses` that the runs which are left are finished again.
Two facts make it hold. At most one run later than the cut one leads to it
(`PointerStarts`, `NextIsTurned`), so the code may stop at the first it finds.
And the byte whose head is adapted, which the code counts from the end of what
is entered, is that of the cut run only while there is more to enter; after
that it may be another, the head that is left behind is too low to be used, and
no later byte asks for it: this is why ClosedAt asks for all heads only while
bytes are missing. The position is never more than the two bytes of the
constructor ahead (`RunsInv`), so with `KeptAssumption` a move finds at least
the bytes that it keeps.

Induction over numbers is stated for sets (`LeastNumber`: a set of numbers has a
least one), because no installed prover can instantiate an operator.

### Only model-checked

Of preflate all of the token predictor, the codecs and the meta blocks; and every
liveness property (liveness under fairness is out of this prover's reach). The codecs and the models use RECURSIVE operators,
for which tlapm has no SMT backend.

## 5. Not modelled

* Of the container: records of nested chunks, resources, srep, SaveResources
  and statistics; what TDataStore1.Read returns to a scan.
* Buffers that grow while another thread reads them (MemOutput1).
* The abort path of the encoder with three tasks, where a task that WaitForAll
  has passed can be started as a helper: too many states for TLC here.
* In the decoder, helpers of a nested chunk.
* TTask's Create, Update, Perform and Destroy at the grain of its variables.
* The codec database (CheckDB, AddDB) and external patches; child processes;
  result lists of the tools in `io/`.
* The codecs: recognising or restoring a stream is one step that works or
  fails. preflate, on which zlib's restoring rests, is the exception.
* preflate's estimators: they choose the parameters with which a block is
  predicted. Every choice is correct; a bad one costs corrections. Its task
  pool, which no call uses, its memory and file streams, and its division by
  constants.
* The database generator, the command line, bindings to libraries and
  everything else that is vendored.

## 6. Known deviations

Met while modelling; the runs that pass leave them out by a stated bound or
condition.

* **LowMem** (`EncodeRound` with `LowMem = TRUE` violates NestedQuiet): the
  LowMem levels promise not to affect reversibility, but Processed and Helping
  then have one cell, while EncCallThreads indexes them by task and the owner of
  a nested round looks at one flag only: a helper may still be at work when the
  owner writes the nested streams out.
* **Read can return 0 before the end** (`CacheRead`): the mirror image of
  `cache_write_tail`. FUsedSize is read as 0, then the last portion is published
  and FDone set, and Read returns 0, which its callers take for the end.
* **The modulus of the deferred streams** (PrecompMain.pas:1895): EncInit assigns
  IntArray[1] from the variable of the loop over the slots (1881-1887) after that
  loop, when it is the last slot with Free Pascal, not their number.
  AddStream puts a stream of chunk c into the list of slot `c mod IntArray[1]`
  (996-1003), while Scan2 takes from a slot's list only what starts in the slot's
  chunk (1315), which is a chunk with `c mod NumSlots` the slot. Where the two
  differ the stream is never tried, though deferring it is meant to have it
  confirmed in a later scan. With one slot the modulus is 0 and the codec's scan
  ends with an exception that Scan1 catches (1283-1291). What is lost is
  compression: the bytes go out as literals. `Moduli` has the value, and `NoStaleFuture` and
  `FutureInv` speak of the entries for which the two agree; under NumSlots (as
  Delphi leaves it) these are all.
* **A block of one stream** (`DecodeBlock` with the archive `<<1, 1>>` violates
  BitExact): one level deep, Restore(False) starts the tasks for a block of a
  single stream, and DecChunk does not wait for them. A late one takes the only
  stream of the next such block away from the main thread. `decode_blocks` has
  such a block only at the end.
* **A swallowed error** (`DecodeBlock` with two levels and a failure violates
  BitExact): RaiseLastError of a nested chunk clears the message of another
  task. The main thread sees IsErrored but finds no message, writes the
  unrestored place, and if it was the last block nobody asks again.
  `decode_nested` checks only that it ends.
* **A cache of exactly one buffer** (`WriteNil`): at FMaxSize = FBufferSize the
  output cache does not create the storage that Write then uses.
* **`-db0`** (DecodeMemBlock = 0, which PrecompMain.pas:334 allows): when the
  first entry of a pass over a slot is dropped, the walk breaks at 2352 with no
  stream counted while entries remain; the passes that write data and gaps
  (2371-2433) then write all remaining entries behind a header that says 0
  streams. `ContainerAssumption` excludes it.
* **Stored blocks in preflate**: the block decoder checks the padding of
  `bitPos & 7` bits (preflate_block_decoder.cpp:51), the checker and the encoder
  write `(8 - bitPos) & 7` (preflate_checker.cpp:58). They agree at bit offsets 0
  and 4 only: other stored blocks are refused, and an empty one that is accepted
  there does not come back bit by bit. `StreamBack` leaves it out.
* Without consequence for the output, but not what the code means to say: the
  test against blocks of 2^31 bytes never fires (preflate_decoder.cpp:168); the
  re-encoder ignores writeBlock's result (preflate_reencoder.cpp:66); the
  library passes the output's capacity as the size of a meta block; the default
  for replaced tree codes differs between the two ends; after an overflow the
  tree predictor gives the longest codes to the most frequent symbols, which
  costs corrections.

## 7. Plan

Done: the encoder's rounds; data store; caches with their refinement and
proofs; decoder blocks; container and deduplication; preflate.

What is left, in the order of its worth:

1. `TaskLifecycle`: TTask with Create, Start, Wait, RaiseLastError and Destroy
   at the grain of its shared variables.
2. `DecodeNested`: the nested DecChunk with its helpers, composed with the
   messages of `DecodeBlock`; nested records in `Container`.
3. `PatchDB`: CheckDB and AddDB from several tasks.
4. What TDataStore1.Read returns, and MemOutput1 while it grows.
5. Theorems: an abstract chunk writer that EncodeRound implements.
