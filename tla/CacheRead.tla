----------------------------- MODULE CacheRead -----------------------------
(***************************************************************************)
(* TCacheReadStream of common/Utils.pas: the stream's own task             *)
(* (CacheMemory) reads FInput ahead into FStorage1, which FOnFull moves    *)
(* into the ring FCache when it is full; Read takes a buffer out of the    *)
(* ring into FStorage2 and serves the caller from there.  FUsedSize is     *)
(* updated atomically by both sides; FDone is set by the task at the end   *)
(* of the input and by Destroy.                                            *)
(*                                                                         *)
(* A byte is its number in the input.  FComp is ccNone, which is what      *)
(* Encode and DecChunk pass.                                               *)
(***************************************************************************)
EXTENDS Integers, Sequences, CacheRing

CONSTANTS
  MaxSizes,      \* the sizes the ring may have (-p#)
  BufferSize,    \* FBufferSize
  CopySize,      \* FBufferSize of CopyStream, which is not larger
  NumBytes       \* bytes in FInput

ASSUME SizeAssumption ==
  /\ BufferSize \in Nat \ {0} /\ MaxSizes \subseteq Nat
  /\ CopySize \in 1 .. BufferSize
  /\ NumBytes \in Nat

VARIABLES
  maxSize,  \* FMaxSize
  tpc,      \* where the task is in CacheMemory, CopyStream or FOnFull
  eof,      \* CopyStream has returned: FOnFull runs in Flush
  sent,     \* bytes taken from FInput
  pending,  \* of them, in CopyStream's buffer
  stored,   \* of them, in FStorage1, before the pending ones
  moved,    \* X in FOnFull: bytes of FStorage1 moved to the ring
  ti,       \* I in FOnFull: FUsedSize, then the portion
  ring,     \* FCache
  pos1, pos2, used, fdone,   \* FPosition1, FPosition2, FUsedSize, FDone
  rpc,      \* where the reader is in Read or Destroy
  ri,       \* I in Read
  storage2, \* the unread bytes of FStorage2
  delivered \* bytes Read has returned

task == <<tpc, eof, pending, stored, moved, ti, pos1>>
reader == <<rpc, ri, pos2, storage2, delivered>>
vars == <<maxSize, task, reader, sent, ring, used, fdone>>

\* Create starts the task only for a ring that is larger than a buffer.
Buffered == maxSize > BufferSize

Init ==
  /\ maxSize \in MaxSizes
  /\ tpc = IF Buffered THEN "input" ELSE "exit"
  /\ eof = FALSE /\ sent = 0 /\ pending = 0 /\ stored = 0 /\ moved = 0 /\ ti = 0
  /\ ring = EmptyRing(maxSize)
  /\ pos1 = 0 /\ pos2 = 0 /\ used = 0 /\ fdone = FALSE
  /\ rpc = "read" /\ ri = 0 /\ storage2 = <<>> /\ delivered = <<>>

Bytes(first, n) == [j \in 1 .. n |-> first + j - 1]

-----------------------------------------------------------------------------
(* The task: CacheMemory, CopyStream and FOnFull *)

\* CopyStream: I := AStream1.Read; at the end of the input it returns.
Input ==
  /\ tpc = "input"
  /\ IF sent < NumBytes
       THEN /\ \E n \in 1 .. CopySize :
                 n <= NumBytes - sent /\ sent' = sent + n /\ pending' = n
            /\ tpc' = "store" /\ UNCHANGED eof
       ELSE tpc' = "ended" /\ eof' = TRUE /\ UNCHANGED <<sent, pending>>
  /\ UNCHANGED <<maxSize, reader, stored, moved, ti, pos1, ring, used, fdone>>

\* FInput.Read raises: the task ends as errored and nobody sets FDone.
InputError ==
  /\ tpc = "input"
  /\ tpc' = "errored"
  /\ UNCHANGED <<maxSize, reader, sent, eof, pending, stored, moved, ti, pos1,
                 ring, used, fdone>>

\* TStoreStream.Write: a full FStorage1 is moved by FOnFull first; then it
\* takes what fits, and WriteBuffer comes back with the rest.
Store ==
  /\ tpc = "store"
  /\ IF stored = BufferSize
       THEN tpc' = "wait" /\ moved' = 0 /\ UNCHANGED <<stored, pending>>
       ELSE LET n == Min({pending, BufferSize - stored})
            IN /\ stored' = stored + n /\ pending' = pending - n
               /\ tpc' = IF n = pending THEN "callback" ELSE "store"
               /\ UNCHANGED moved
  /\ UNCHANGED <<maxSize, reader, sent, eof, ti, pos1, ring, used, fdone>>

\* FCallback: CopyStream goes on unless FDone is set.
Callback ==
  /\ tpc = "callback"
  /\ IF fdone THEN tpc' = "ended" /\ eof' = TRUE
     ELSE tpc' = "input" /\ UNCHANGED eof
  /\ UNCHANGED <<maxSize, reader, sent, pending, stored, moved, ti, pos1, ring,
                 used, fdone>>

\* if not FDone: Flush, which calls FOnFull for what is left, and FDone.
Ended ==
  /\ tpc = "ended"
  /\ moved' = 0
  /\ tpc' = IF fdone THEN "exit" ELSE IF stored > 0 THEN "wait" ELSE "setDone"
  /\ UNCHANGED <<maxSize, reader, sent, eof, pending, stored, ti, pos1, ring,
                 used, fdone>>

\* FOnFull's loop: AtomicExchange(I, FUsedSize); with room for a buffer I is
\* cut to what is left of FStorage1 and to the end of the ring.
AwaitRoom ==
  /\ tpc = "wait"
  /\ IF maxSize - used >= BufferSize
       THEN tpc' = "copy" /\ ti' = PutPortion(maxSize, pos1, stored - moved, used)
       ELSE tpc' = "full" /\ UNCHANGED ti
  /\ UNCHANGED <<maxSize, reader, sent, eof, pending, stored, moved, pos1, ring,
                 used, fdone>>

\* while FMaxSize - I < FBufferSize do: Sleep and AtomicExchange(I, FUsedSize).
Reload ==
  /\ tpc = "full"
  /\ ti' = used /\ tpc' = "retry"
  /\ UNCHANGED <<maxSize, reader, sent, eof, pending, stored, moved, pos1, ring,
                 used, fdone>>

\* FDone is not set: the test of the loop with the I that was loaded.
Retry ==
  /\ tpc = "retry" /\ ~fdone
  /\ IF maxSize - ti >= BufferSize
       THEN tpc' = "copy" /\ ti' = PutPortion(maxSize, pos1, stored - moved, ti)
       ELSE tpc' = "full" /\ UNCHANGED ti
  /\ UNCHANGED <<maxSize, reader, sent, eof, pending, stored, moved, pos1, ring,
                 used, fdone>>

AfterFull == IF eof THEN "setDone" ELSE "store"

\* Under FSync: FCache.WriteBuffer; then Inc(FPosition1, I).
CopyIn ==
  /\ tpc = "copy"
  /\ ring' = PutBytes(ring, maxSize, pos1, sent - pending - stored + moved, ti)
  /\ moved' = moved + ti /\ pos1' = pos1 + ti
  /\ tpc' = "publish"
  /\ UNCHANGED <<maxSize, reader, sent, eof, pending, stored, ti, used, fdone>>

\* AtomicIncrement(FUsedSize, I) and FOnFull's loop; after it FStorage1 is
\* empty again.
Publish ==
  /\ tpc = "publish"
  /\ used' = used + ti
  /\ IF moved < stored THEN tpc' = "wait" /\ UNCHANGED stored
     ELSE tpc' = AfterFull /\ stored' = 0
  /\ UNCHANGED <<maxSize, reader, sent, eof, pending, moved, ti, pos1, ring, fdone>>

\* Mutant: FOnFull gives up on a full ring without looking at FDone.
GiveUpAtOnce ==
  /\ tpc = "retry"
  /\ tpc' = AfterFull /\ stored' = 0
  /\ UNCHANGED <<maxSize, reader, sent, eof, pending, moved, ti, pos1, ring,
                 used, fdone>>

\* if FDone then exit, in the wait for room and even if there is some by now:
\* FStorage1 is dropped.
GiveUp ==
  /\ tpc = "retry" /\ fdone
  /\ tpc' = AfterFull /\ stored' = 0
  /\ UNCHANGED <<maxSize, reader, sent, eof, pending, moved, ti, pos1, ring,
                 used, fdone>>

\* Mutant: the end of the input is not announced.
SetDoneForgotten ==
  /\ tpc = "setDone"
  /\ tpc' = "exit"
  /\ UNCHANGED <<maxSize, reader, sent, eof, pending, stored, moved, ti, pos1,
                 ring, used, fdone>>

SetDone ==
  /\ tpc = "setDone"
  /\ fdone' = TRUE /\ tpc' = "exit"
  /\ UNCHANGED <<maxSize, reader, sent, eof, pending, stored, moved, ti, pos1,
                 ring, used>>

Task ==
  \/ Input \/ InputError \/ Store \/ Callback \/ Ended \/ AwaitRoom \/ Reload
  \/ Retry \/ CopyIn \/ Publish \/ GiveUp \/ SetDone

-----------------------------------------------------------------------------
(* The reader *)

\* Read with FMaxSize <= FBufferSize: straight from FInput.
ReadThrough ==
  /\ rpc = "read" /\ ~Buffered
  /\ \E n \in 0 .. NumBytes - sent :
       /\ n = 0 => sent = NumBytes
       /\ sent' = sent + n /\ delivered' = delivered \o Bytes(sent, n)
       /\ rpc' = IF n = 0 THEN "zero" ELSE "read"
  /\ UNCHANGED <<maxSize, task, ri, pos2, storage2, ring, used, fdone>>

\* Read with bytes in FStorage2: it returns up to Count of them.
Serve ==
  /\ rpc = "read" /\ Buffered /\ storage2 # <<>>
  /\ \E n \in 1 .. Len(storage2) :
       /\ delivered' = delivered \o SubSeq(storage2, 1, n)
       /\ storage2' = SubSeq(storage2, n + 1, Len(storage2))
  /\ UNCHANGED <<maxSize, task, rpc, ri, pos2, sent, ring, used, fdone>>

\* Read with FStorage2 used up: AtomicExchange(I, FUsedSize), before the wait
\* and in it.
Load ==
  /\ \/ rpc = "read" /\ Buffered /\ storage2 = <<>>
     \/ rpc = "reload"
  /\ ri' = used
  /\ rpc' = IF rpc = "reload" THEN "seeDone" ELSE IF used = 0 THEN "reload" ELSE "copy"
  /\ UNCHANGED <<maxSize, task, pos2, storage2, delivered, sent, ring, used, fdone>>

\* if FDone then break; while I = 0
SeeDone ==
  /\ rpc = "seeDone"
  /\ rpc' = IF fdone \/ ri > 0 THEN "copy" ELSE "reload"
  /\ UNCHANGED <<maxSize, task, ri, pos2, storage2, delivered, sent, ring, used, fdone>>

Portion == GetPortion(maxSize, pos2, BufferSize, ri)

\* if I <= 0 then exit(0): the caller takes this for the end of the input.
Nothing ==
  /\ rpc = "copy" /\ Portion <= 0
  /\ rpc' = "zero"
  /\ UNCHANGED <<maxSize, task, ri, pos2, storage2, delivered, sent, ring, used, fdone>>

\* Under FSync: FCache.ReadBuffer into FStorage2; then Inc(FPosition2, I).
CopyOut ==
  /\ rpc = "copy" /\ Portion > 0
  /\ ri' = Portion
  /\ storage2' = GetBytes(ring, maxSize, pos2, Portion)
  /\ pos2' = pos2 + Portion
  /\ rpc' = "release"
  /\ UNCHANGED <<maxSize, task, delivered, sent, ring, used, fdone>>

\* AtomicDecrement(FUsedSize, I); then Read serves from FStorage2.
Release ==
  /\ rpc = "release"
  /\ used' = used - ri
  /\ rpc' = "read"
  /\ UNCHANGED <<maxSize, task, ri, pos2, storage2, delivered, sent, ring, fdone>>

\* After a Read of 0 bytes the caller stops, or reads again as TDataStore1
\* does in its next round.
ReadAgain ==
  /\ rpc = "zero"
  /\ rpc' = "read"
  /\ UNCHANGED <<maxSize, task, ri, pos2, storage2, delivered, sent, ring, used, fdone>>

\* Destroy, between two calls of Read: FDone := True and, for a ring in use,
\* FTask.Wait.
Destroy ==
  /\ rpc \in {"read", "zero"}
  /\ fdone' = TRUE
  /\ rpc' = "join"
  /\ UNCHANGED <<maxSize, task, ri, pos2, storage2, delivered, sent, ring, used>>

Join ==
  /\ rpc = "join" /\ tpc \in {"exit", "errored"}
  /\ rpc' = "closed"
  /\ UNCHANGED <<maxSize, task, ri, pos2, storage2, delivered, sent, ring, used, fdone>>

Read ==
  \/ ReadThrough \/ Serve \/ Load \/ SeeDone \/ Nothing \/ CopyOut \/ Release

Reader == Read \/ ReadAgain \/ Destroy \/ Join

Finished == rpc = "closed" /\ UNCHANGED vars

Next == Task \/ Reader \/ Finished

\* Both threads are run; a call of Read that has begun is carried on.
Fairness == WF_vars(Task) /\ WF_vars(Read) /\ WF_vars(Join)

Spec == Init /\ [][Next]_vars
FairSpec == Spec /\ Fairness

-----------------------------------------------------------------------------
(* Properties *)

\* Read returns the bytes of the input, in order and once, however the ring
\* wraps and whenever the two sides see FUsedSize and FDone.
Queue == INSTANCE ByteQueue
Fifo == Queue!Spec

\* FUsedSize says what is in the ring: it differs from the two positions by
\* what each side has not published yet, the ring is never overfull, and the
\* bytes between the positions are those that were read ahead.
UsedSizeRight ==
  /\ used = pos1 - pos2 - (IF tpc = "publish" THEN ti ELSE 0)
                        + (IF rpc = "release" THEN ri ELSE 0)
  /\ pos1 - pos2 <= maxSize
  /\ \A p \in pos2 .. pos1 - 1 : ring[p % maxSize] = p

\* As long as the input does not fail, a call of Read that has begun returns;
\* Destroy always does.
CallsReturn ==
  /\ rpc \in {"reload", "seeDone", "copy", "release"} ~>
       rpc \in {"read", "zero"} \/ tpc = "errored"
  /\ rpc = "join" ~> rpc = "closed"

=============================================================================
