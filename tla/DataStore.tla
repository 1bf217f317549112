----------------------------- MODULE DataStore -----------------------------
(***************************************************************************)
(* TDataStore1 of common/Utils.pas, with ADynamic: a window of FSlots      *)
(* chunks of FSize bytes and one more chunk of lookahead behind them, so   *)
(* that every slot can be scanned FSize bytes past its end.  EncData       *)
(* writes slot after slot out and refills the window behind itself, one    *)
(* slot per LoadEx; the tools of io/ work on the whole window and refill   *)
(* it with Load.  Read looks beyond the window: what it takes from the     *)
(* input is kept in FTemp, and the next refills take it from there.        *)
(*                                                                         *)
(* The input is the sequence of its byte numbers; -1 stands for memory     *)
(* that no byte of this input has been written to.  The calls here are     *)
(* made by one thread: a scan that may call Read is over before the first  *)
(* LoadEx of the round.  Container composes these actions with the writing *)
(* of the records.                                                         *)
(***************************************************************************)
EXTENDS Integers, FiniteSetsExt, SequencesExt

CONSTANTS
  FSlots,       \* slots of the window
  FSize,        \* bytes in a chunk
  InputSizes,   \* the sizes the input may have
  MaxFuture,    \* bound: bytes Read takes from the input in a round
  MaxInputs     \* bound: inputs one data store is used for (io/: files)

ASSUME StoreAssumption ==
  /\ FSlots \in Nat \ {0} /\ FSize \in Nat \ {0}
  /\ InputSizes \subseteq Nat /\ MaxFuture \in Nat
  /\ MaxInputs \in Nat \ {0}

Slots == 0 .. FSlots - 1

VARIABLES
  whole,      \* refilled with Load (io/), not with LoadEx (EncData)
  inputSize,  \* the size of the input
  taken,      \* bytes taken from FInput
  temp,       \* what is in FTemp
  tempPos,    \* FTempPos
  mem,        \* FMemPtr
  mpos,       \* FMemStm.Position
  size,       \* FMemData[I].Size
  positions,  \* FPositions
  findex,     \* FIndex
  phase,      \* "scan", "emit", "load", "last", "done": where EncData is
  slot,       \* its loop variable I
  emitted,    \* the bytes of the slots written out (or worked on) so far
  inputs      \* inputs so far

inputVars == <<inputSize, taken, temp, tempPos>>
storeVars == <<mem, mpos, size, positions, findex>>
vars == <<whole, inputVars, storeVars, phase, slot, emitted, inputs>>

Bytes(first, n) == [j \in 1 .. n |-> first + j - 1]

\* FMemData[i].Size for a window that is filled up to p.
SlotSize(i, p) == Min({2 * FSize, Max({0, p - i * FSize})})

\* FMemStm.WriteBuffer at p.
Put(m, p, bytes) ==
  [a \in DOMAIN m |-> IF a - p \in 0 .. Len(bytes) - 1 THEN bytes[a - p + 1] ELSE m[a]]

-----------------------------------------------------------------------------
(* Load and LoadEx *)

\* The part of the lookahead that is in memory goes to the front.
Kept == Min({FSize, Max({0, mpos - FSlots * FSize})})

MoveToFront(m) == Put(m, 0, [j \in 1 .. Kept |-> m[FSlots * FSize + j - 1]])

\* A slip: the input is read though FTemp still has bytes.
FillFromInput(m, p, w) ==
  LET new == Min({w - p, inputSize - taken})
  IN /\ mem' = Put(m, p, Bytes(taken, new))
     /\ mpos' = p + new
     /\ taken' = taken + new
     /\ UNCHANGED <<temp, tempPos, inputSize>>

\* while FMemStm.Position < W: first what is left in FTemp, then FInput,
\* until it has nothing more.  FTemp is emptied when it is used up.
Fill(m, p, w) ==
  LET old == Min({w - p, Len(temp) - tempPos})
      new == Min({w - p - old, inputSize - taken})
  IN /\ mem' = Put(m, p, SubSeq(temp, tempPos + 1, tempPos + old) \o Bytes(taken, new))
     /\ mpos' = p + old + new
     /\ taken' = taken + new
     /\ IF tempPos + old = Len(temp) THEN temp' = <<>> /\ tempPos' = 0
        ELSE tempPos' = tempPos + old /\ UNCHANGED temp
     /\ UNCHANGED inputSize

\* Load, but for the first time: the whole window moves on.
Load ==
  /\ Fill(MoveToFront(mem), Kept, (FSlots + 1) * FSize)
  /\ positions' = [i \in Slots |-> positions[i] + FSlots * FSize]
  /\ size' = [i \in Slots |-> SlotSize(i, mpos')]
  /\ UNCHANGED findex

\* A slip: the size of the slot is set before the chunk has been read.
LoadExSizeFirst ==
  /\ LET front == findex = 0
         p == IF front THEN Kept ELSE mpos
     IN Fill(IF front THEN MoveToFront(mem) ELSE mem, p, p + FSize)
  /\ positions' = [positions EXCEPT ![findex] = @ + FSlots * FSize]
  /\ size' = [size EXCEPT ![findex] = SlotSize(findex, mpos)]
  /\ findex' = IF findex + 1 = FSlots THEN 0 ELSE findex + 1

\* LoadEx: the slot at FIndex moves on; the chunk that is read is its
\* lookahead, the next slot's own chunk.
LoadEx ==
  /\ LET front == findex = 0
         p == IF front THEN Kept ELSE mpos
     IN Fill(IF front THEN MoveToFront(mem) ELSE mem, p, p + FSize)
  /\ positions' = [positions EXCEPT ![findex] = @ + FSlots * FSize]
  /\ size' = [size EXCEPT ![findex] = SlotSize(findex, mpos')]
  /\ findex' = IF findex + 1 = FSlots THEN 0 ELSE findex + 1

Done == size[0] = 0

-----------------------------------------------------------------------------
(* EncData, or the Encode of a tool in io/ *)

Have(n) == Min({n, (FSlots + 1) * FSize})

\* The first Load of an input of n bytes.
FirstMem(n) == Put([a \in 0 .. (FSlots + 1) * FSize - 1 |-> -1], 0, Bytes(0, Have(n)))
FirstSize(n) == [i \in Slots |-> SlotSize(i, Have(n))]
FirstPositions == [i \in Slots |-> i * FSize]

\* Create, and the first Load.
Init ==
  /\ whole \in BOOLEAN /\ inputSize \in InputSizes
  /\ taken = Have(inputSize) /\ temp = <<>> /\ tempPos = 0
  /\ mem = FirstMem(inputSize) /\ mpos = Have(inputSize)
  /\ size = FirstSize(inputSize) /\ positions = FirstPositions /\ findex = 0
  /\ phase = "scan" /\ slot = 0 /\ emitted = <<>> /\ inputs = 1

\* ChangeInput and the first Load, for the next file of a tool in io/; what
\* the last file has left in memory is none of the new one's bytes.
ChangeInput ==
  /\ phase = "done" /\ whole /\ inputs < MaxInputs
  /\ inputSize' \in InputSizes
  /\ taken' = Have(inputSize') /\ UNCHANGED <<temp, tempPos>>
  /\ mem' = FirstMem(inputSize') /\ mpos' = Have(inputSize')
  /\ size' = FirstSize(inputSize') /\ positions' = FirstPositions /\ findex' = 0
  /\ phase' = "scan" /\ slot' = 0 /\ emitted' = <<>> /\ inputs' = inputs + 1
  /\ UNCHANGED whole

\* Read beyond the window, while the slots are scanned: n more bytes of the
\* input are in FTemp afterwards.
ReadFuture ==
  /\ phase = "scan" /\ ~Done /\ ~whole
  /\ \E n \in 1 .. MaxFuture :
       /\ n <= inputSize - taken /\ Len(temp) + n <= MaxFuture
       /\ temp' = temp \o Bytes(taken, n)
       /\ taken' = taken + n
  /\ UNCHANGED <<whole, inputSize, tempPos, storeVars, phase, slot, emitted, inputs>>

\* The scans are over; or there is nothing left.
Scanned ==
  /\ phase = "scan"
  /\ phase' = IF Done THEN "done" ELSE "emit"
  /\ slot' = 0
  /\ UNCHANGED <<whole, inputVars, storeVars, emitted, inputs>>

\* Size(I): without the lookahead.
SizeOf(i) == Min({FSize, size[i]})

SlotBytes(i, n) == [j \in 1 .. n |-> mem[i * FSize + j - 1]]

AfterEmit ==
  IF slot > 0 /\ ~whole THEN phase' = "load" /\ UNCHANGED slot
  ELSE IF slot + 1 < FSlots THEN slot' = slot + 1 /\ UNCHANGED phase
  ELSE phase' = "last" /\ UNCHANGED slot

\* The bytes of slot I are written out, as streams or between them.
Emit ==
  /\ phase = "emit"
  /\ emitted' = emitted \o SlotBytes(slot, SizeOf(slot))
  /\ AfterEmit
  /\ UNCHANGED <<whole, inputVars, storeVars, inputs>>

\* if I > 0 then LoadEx
EmitLoad ==
  /\ phase = "load"
  /\ LoadEx
  /\ IF slot + 1 < FSlots THEN slot' = slot + 1 /\ phase' = "emit"
     ELSE phase' = "last" /\ UNCHANGED slot
  /\ UNCHANGED <<whole, emitted, inputs>>

\* The last LoadEx of the round, or Load.
EndRound ==
  /\ phase = "last"
  /\ IF whole THEN Load ELSE LoadEx
  /\ phase' = "scan"
  /\ UNCHANGED <<whole, slot, emitted, inputs>>

-----------------------------------------------------------------------------
(* Properties *)

\* What is written out is the input, from the first byte on, without a gap or
\* a repetition, and in the end all of it.
EmittedRight ==
  /\ emitted = Bytes(0, Len(emitted))
  /\ phase = "done" => Len(emitted) = inputSize

\* When the slots are scanned, every slot has its chunk at its position and
\* the whole of the lookahead, as far as the input goes: a stream that crosses
\* into the next chunk can be found and verified.
WindowRight ==
  phase = "scan" =>
    \A i \in Slots :
      /\ size[i] = Min({2 * FSize, Max({0, inputSize - positions[i]})})
      /\ SlotBytes(i, size[i]) = Bytes(positions[i], size[i])

=============================================================================
