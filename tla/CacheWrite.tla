----------------------------- MODULE CacheWrite -----------------------------
(***************************************************************************)
(* TCacheWriteStream of common/Utils.pas: the writer fills FStorage; when  *)
(* it is full FOnFull moves it into the ring FCache, and the stream's own  *)
(* task (CacheMemory) moves it on to FOutput.  The two share FUsedSize,    *)
(* which is updated atomically, and FDone; FSync protects the bytes of the *)
(* ring.  Destroy flushes FStorage, sets FDone and waits for the task.     *)
(*                                                                         *)
(* A byte is its number in the stream.  FComp is ccNone, which is what     *)
(* EncData passes.                                                         *)
(***************************************************************************)
EXTENDS Integers, Sequences, CacheRing

CONSTANTS
  MaxSizes,      \* the sizes the ring may have (-p#)
  BufferSize,    \* FBufferSize
  NumBytes       \* bound: bytes the caller writes at most

ASSUME SizeAssumption ==
  /\ BufferSize \in Nat \ {0} /\ MaxSizes \subseteq Nat
  /\ NumBytes \in Nat

VARIABLES
  maxSize,  \* FMaxSize
  wpc,      \* where the writer is in Write, FOnFull or Destroy
  closing,  \* FOnFull runs in Destroy
  sent,     \* bytes the caller has written
  stored,   \* FStorage.Size; its bytes are the last ones of sent
  moved,    \* X in FOnFull: bytes of FStorage moved to the ring
  wi,       \* I in FOnFull
  ring,     \* FCache
  pos1, pos2, used, fdone,   \* FPosition1, FPosition2, FUsedSize, FDone
  tpc,      \* where the task is in CacheMemory
  ti,       \* I in CacheMemory
  delivered \* bytes written to FOutput

writer == <<wpc, closing, sent, stored, moved, wi, pos2>>
task == <<tpc, ti, pos1, delivered>>
vars == <<maxSize, writer, task, ring, used, fdone>>

\* Create allocates FStorage and starts the task only for a ring that is
\* larger than a buffer.
Buffered == maxSize > BufferSize

Init ==
  /\ maxSize \in MaxSizes
  /\ wpc = "write" /\ closing = FALSE /\ sent = 0 /\ stored = 0
  /\ moved = 0 /\ wi = 0 /\ ring = EmptyRing(maxSize)
  /\ pos1 = 0 /\ pos2 = 0 /\ used = 0 /\ fdone = FALSE
  /\ tpc = IF Buffered THEN "load" ELSE "exit"
  /\ ti = 0 /\ delivered = <<>>

Bytes(first, n) == [j \in 1 .. n |-> first + j - 1]

-----------------------------------------------------------------------------
(* The writer *)

\* Write with maxSize < BufferSize: straight to FOutput.
WriteThrough ==
  /\ wpc = "write" /\ maxSize < BufferSize
  /\ \E n \in 1 .. NumBytes - sent :
       sent' = sent + n /\ delivered' = delivered \o Bytes(sent, n)
  /\ UNCHANGED <<maxSize, wpc, closing, stored, moved, wi, pos2, tpc, ti, pos1, ring, used, fdone>>

\* Write when FStorage has room: TMemoryStreamEx.Write takes what fits.
Write ==
  /\ wpc = "write" /\ Buffered /\ stored < BufferSize
  /\ \E n \in 1 .. Min({BufferSize - stored, NumBytes - sent}) :
       sent' = sent + n /\ stored' = stored + n
  /\ UNCHANGED <<maxSize, wpc, closing, moved, wi, pos2, task, ring, used, fdone>>

\* Write when FStorage is full: TStoreStream.Write calls FOnFull first.
WriteFull ==
  /\ wpc = "write" /\ Buffered /\ stored = BufferSize /\ sent < NumBytes
  /\ wpc' = "wait" /\ moved' = 0
  /\ UNCHANGED <<maxSize, closing, sent, stored, wi, pos2, task, ring, used, fdone>>

\* Write calls a method of FStorage, which Create has not created.
WriteNil ==
  /\ wpc = "write" /\ maxSize = BufferSize /\ sent < NumBytes
  /\ wpc' = "crashed"
  /\ UNCHANGED <<maxSize, closing, sent, stored, moved, wi, pos2, task, ring, used, fdone>>

\* while FMaxSize - I < FBufferSize do Sleep; then I is cut to what is left
\* of FStorage and to the end of the ring.
AwaitRoom ==
  /\ wpc = "wait" /\ maxSize - used >= BufferSize
  /\ wi' = PutPortion(maxSize, pos2, stored - moved, used)
  /\ wpc' = "copy"
  /\ UNCHANGED <<maxSize, closing, sent, stored, moved, pos2, task, ring, used, fdone>>

\* Under FSync: FCache.WriteBuffer; then Inc(FPosition2, I).
CopyIn ==
  /\ wpc = "copy"
  /\ ring' = PutBytes(ring, maxSize, pos2, sent - stored + moved, wi)
  /\ moved' = moved + wi /\ pos2' = pos2 + wi
  /\ wpc' = "publish"
  /\ UNCHANGED <<maxSize, closing, sent, stored, wi, task, used, fdone>>

\* Mutant: FOnFull moves one portion only.
PublishOnce ==
  /\ wpc = "publish"
  /\ used' = used + wi
  /\ stored' = 0 /\ wpc' = IF closing THEN "setDone" ELSE "write"
  /\ UNCHANGED <<maxSize, closing, sent, moved, wi, pos2, task, ring, fdone>>

\* AtomicIncrement(FUsedSize, I), and FOnFull's loop; after it FStorage is
\* empty again.
Publish ==
  /\ wpc = "publish"
  /\ used' = used + wi
  /\ IF moved < stored THEN wpc' = "wait" /\ UNCHANGED stored
     ELSE stored' = 0 /\ wpc' = IF closing THEN "setDone" ELSE "write"
  /\ UNCHANGED <<maxSize, closing, sent, moved, wi, pos2, task, ring, fdone>>

\* Destroy: FStorage.Free calls FOnFull for what is left in it.
Destroy ==
  /\ wpc = "write"
  /\ closing' = TRUE /\ moved' = 0
  /\ wpc' = IF ~Buffered THEN "closed" ELSE IF stored > 0 THEN "wait" ELSE "setDone"
  /\ UNCHANGED <<maxSize, sent, stored, wi, pos2, task, ring, used, fdone>>

\* Mutant: Destroy forgets FDone.
SetDoneForgotten ==
  /\ wpc = "setDone"
  /\ wpc' = "join"
  /\ UNCHANGED <<maxSize, closing, sent, stored, moved, wi, pos2, task, ring, used, fdone>>

SetDone ==
  /\ wpc = "setDone"
  /\ fdone' = TRUE /\ wpc' = "join"
  /\ UNCHANGED <<maxSize, closing, sent, stored, moved, wi, pos2, task, ring, used>>

\* FTask.Wait, which a task that has failed does not hold up.
Join ==
  /\ wpc = "join" /\ tpc \in {"exit", "errored"}
  /\ wpc' = "closed"
  /\ UNCHANGED <<maxSize, closing, sent, stored, moved, wi, pos2, task, ring, used, fdone>>

Writer ==
  \/ WriteThrough \/ Write \/ WriteFull \/ WriteNil \/ AwaitRoom \/ CopyIn
  \/ Publish \/ Destroy \/ SetDone \/ Join

-----------------------------------------------------------------------------
(* The task: CacheMemory *)

\* AtomicExchange(I, FUsedSize), at the top of the loop and in the wait.
Load ==
  /\ tpc \in {"load", "reload"}
  /\ ti' = used
  /\ tpc' = IF tpc = "reload" THEN "seeDone" ELSE IF used = 0 THEN "reload" ELSE "copy"
  /\ UNCHANGED <<maxSize, writer, pos1, delivered, ring, used, fdone>>

\* if FDone then break; while I = 0
SeeDone ==
  /\ tpc = "seeDone"
  /\ tpc' = IF fdone \/ ti > 0 THEN "copy" ELSE "reload"
  /\ UNCHANGED <<maxSize, writer, ti, pos1, delivered, ring, used, fdone>>

Portion == GetPortion(maxSize, pos1, BufferSize, ti)

\* if I <= 0 then exit
Leave ==
  /\ tpc = "copy" /\ Portion <= 0
  /\ tpc' = "exit"
  /\ UNCHANGED <<maxSize, writer, ti, pos1, delivered, ring, used, fdone>>

\* Under FSync: FCache.ReadBuffer; then FOutput.WriteBuffer and
\* Inc(FPosition1, I).
CopyOut ==
  /\ tpc = "copy" /\ Portion > 0
  /\ ti' = Portion
  /\ delivered' = delivered \o GetBytes(ring, maxSize, pos1, Portion)
  /\ pos1' = pos1 + Portion
  /\ tpc' = "release"
  /\ UNCHANGED <<maxSize, writer, ring, used, fdone>>

\* FOutput.WriteBuffer raises and the task ends as errored.
OutputError ==
  /\ tpc = "copy" /\ Portion > 0
  /\ tpc' = "errored"
  /\ UNCHANGED <<maxSize, writer, ti, pos1, delivered, ring, used, fdone>>

\* AtomicDecrement(FUsedSize, I)
Release ==
  /\ tpc = "release"
  /\ used' = used - ti
  /\ tpc' = "check"
  /\ UNCHANGED <<maxSize, writer, ti, pos1, delivered, ring, fdone>>

\* if FDone and (FPosition1 = FPosition2) then break
Check ==
  /\ tpc = "check"
  /\ tpc' = IF fdone /\ pos1 = pos2 THEN "exit" ELSE "load"
  /\ UNCHANGED <<maxSize, writer, ti, pos1, delivered, ring, used, fdone>>

Task == Load \/ SeeDone \/ Leave \/ CopyOut \/ OutputError \/ Release \/ Check

Finished == wpc \in {"closed", "crashed"} /\ UNCHANGED vars

Next == Writer \/ Task \/ Finished

\* The caller destroys the stream in the end; the task's thread is run.
Fairness == WF_vars(Writer) /\ WF_vars(Task)

Spec == Init /\ [][Next]_vars
FairSpec == Spec /\ Fairness

-----------------------------------------------------------------------------
(* Properties *)

\* Only the bytes written come out, in order and once, however the ring wraps.
Queue == INSTANCE ByteQueue
Fifo == Queue!Spec

\* FUsedSize says what is in the ring: it lags behind the two positions by
\* what each side has not published yet, and the bytes it covers are whole.
UsedSizeRight ==
  /\ used = pos2 - pos1 - (IF wpc = "publish" THEN wi ELSE 0)
                        + (IF tpc = "release" THEN ti ELSE 0)
  /\ pos2 - pos1 <= maxSize
  /\ \A p \in pos1 .. pos2 - 1 : ring[p % maxSize] = p

\* Unless the output fails, Destroy returns only when all the bytes written have
\* gone to FOutput.
AllDelivered == wpc = "closed" /\ tpc # "errored" => Len(delivered) = sent

\* As long as the output does not fail, Write and Destroy return: neither side
\* waits for the other for ever.
Closes == <>(wpc \in {"closed", "crashed"} \/ tpc = "errored")

=============================================================================
