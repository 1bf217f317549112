---------------------------- MODULE CacheReadProofs ----------------------------
(***************************************************************************)
(* Proofs about TCacheReadStream: for rings and buffers of any size, every *)
(* length of the input and every order in which the reader and its task    *)
(* take their steps, Read returns the bytes of the input in order.         *)
(*                                                                         *)
(* What makes the invariant inductive is where each byte is (Placed), and  *)
(* that the one step that loses bytes, FOnFull giving up its wait for room  *)
(* after FDone, is only taken when Destroy has been called and is not      *)
(* followed by another portion put into the ring (Dropped).                *)
(***************************************************************************)
EXTENDS CacheRead, CommonLemmas

TypeOK ==
  /\ maxSize \in Nat
  /\ tpc \in {"input", "store", "callback", "ended", "wait", "full", "retry", "copy",
              "publish", "setDone", "exit", "errored"}
  /\ rpc \in {"read", "reload", "seeDone", "copy", "release", "zero", "join", "closed"}
  /\ eof \in BOOLEAN /\ fdone \in BOOLEAN
  /\ sent \in Nat /\ pending \in Nat /\ stored \in Nat /\ moved \in Nat /\ ti \in Nat
  /\ pos1 \in Nat /\ pos2 \in Nat /\ used \in Nat /\ ri \in Nat
  /\ ring \in [0 .. maxSize - 1 -> Int]
  /\ delivered = Numbers(0, Len(delivered)) /\ Len(delivered) \in Nat
  /\ stored <= BufferSize

\* Without a ring Read reads FInput itself.
Through ==
  ~Buffered =>
    /\ tpc = "exit" /\ rpc \in {"read", "zero", "join", "closed"}
    /\ Len(delivered) = sent
    /\ stored = 0 /\ pending = 0 /\ used = 0 /\ pos1 = 0 /\ pos2 = 0

InFull == tpc \in {"wait", "full", "retry", "copy", "publish"}

\* CopyStream's buffer is written out before it is filled again.
CopyBuffer ==
  /\ pending <= BufferSize
  /\ tpc \in {"input", "callback", "ended"} => pending = 0
  /\ tpc = "store" => pending > 0
  /\ tpc = "ended" => eof
  /\ InFull /\ ~eof => pending > 0

\* FOnFull has given up: nothing is put into the ring any more, and nobody reads.
Dropped ==
  /\ fdone /\ rpc \in {"join", "closed"}
  /\ tpc \in {"store", "callback", "ended", "setDone", "exit"}
  /\ stored + pending <= BufferSize

\* FDone is set by Destroy, or by the task as its last step.
DoneBy == fdone /\ tpc # "exit" => rpc \in {"join", "closed"}

\* Where the bytes taken from FInput are: returned, in FStorage2, in the ring,
\* in FStorage1, in CopyStream's buffer.
Placed ==
  Buffered =>
    /\ pos2 <= pos1 /\ pos1 <= sent
    /\ pos1 - pos2 <= maxSize
    /\ \/ /\ sent - pending - stored + (IF InFull THEN moved ELSE 0) = pos1
          /\ InFull => moved <= stored
       \/ Dropped

Served ==
  Buffered =>
    /\ Len(delivered) <= pos2
    /\ storage2 = Numbers(Len(delivered), pos2 - Len(delivered))
    /\ rpc \in {"reload", "seeDone", "copy"} => Len(delivered) = pos2

\* FUsedSize lags behind the positions.
Counted ==
  used = pos1 - pos2 - (IF tpc = "publish" THEN ti ELSE 0)
                     + (IF rpc = "release" THEN ri ELSE 0)

\* What FOnFull has loaded is not less than what is in the ring, and the
\* portion it has chosen still fits when it is copied.
Fits ==
  /\ tpc = "retry" => used <= ti
  /\ tpc = "copy" =>
       /\ ti <= stored - moved
       /\ (pos1 % maxSize) + ti <= maxSize
       /\ pos1 - pos2 + ti <= maxSize

\* What Read has seen of FUsedSize is still there when it is used.
Seen == rpc \in {"seeDone", "copy", "release"} => ri <= used

Whole == Holds(ring, maxSize, pos2, pos1)

IInv ==
  /\ TypeOK
  /\ Through
  /\ CopyBuffer
  /\ DoneBy
  /\ Placed
  /\ Served
  /\ Counted
  /\ Fits
  /\ Seen
  /\ Whole

LEMMA Sizes ==
  /\ BufferSize \in Nat /\ BufferSize > 0 /\ MaxSizes \subseteq Nat
  /\ CopySize \in Nat /\ CopySize <= BufferSize /\ NumBytes \in Nat
BY SizeAssumption

LEMMA SameBytes ==
  ASSUME NEW first, NEW n
  PROVE  Bytes(first, n) = Numbers(first, n) /\ Queue!Bytes(first, n) = Numbers(first, n)
BY DEF Bytes, Numbers, Queue!Bytes

\* What Read has returned, and the bytes after it.
LEMMA Delivered ==
  ASSUME TypeOK, NEW n \in Nat
  PROVE  /\ delivered \in Seq(Nat)
         /\ delivered \o Numbers(Len(delivered), n) = Numbers(0, Len(delivered) + n)
         /\ Len(Numbers(0, Len(delivered) + n)) = Len(delivered) + n
<1> DEFINE a == Len(delivered)
<1>1. a \in Nat /\ delivered = Numbers(0, a)
  BY DEF TypeOK
<1> HIDE DEF a
<1>2. /\ Numbers(0, a) \in Seq(Nat)
      /\ Numbers(0, a) \o Numbers(a, n) = Numbers(0, a + n)
  BY <1>1, NumbersConcat
<1>3. a + n \in Nat
  BY <1>1
<1>4. Len(Numbers(0, a + n)) = a + n
  BY <1>3, NumbersConcat, Zenon
<1>5. /\ delivered \in Seq(Nat)
      /\ delivered \o Numbers(a, n) = Numbers(0, a + n)
  BY <1>1, <1>2, Zenon
<1> QED
  BY <1>4, <1>5 DEF a

LEMMA InitIInv == Init => IInv
<1> SUFFICES ASSUME Init PROVE IInv
  OBVIOUS
<1> USE DEF Init
<1>1. maxSize \in Nat
  BY Sizes
<1>2. ring \in [0 .. maxSize - 1 -> Int]
  BY <1>1 DEF EmptyRing
<1>3. delivered = Numbers(0, Len(delivered)) /\ Len(delivered) \in Nat /\ Len(delivered) = 0
  BY DEF Numbers
<1>4. TypeOK
  <2>1. tpc \in {"input", "exit"}
    OBVIOUS
  <2>2. stored <= BufferSize
    BY Sizes
  <2>3. rpc \in {"read", "reload", "seeDone", "copy", "release", "zero", "join", "closed"}
    OBVIOUS
  <2> QED
    BY <1>1, <1>2, <1>3, <2>1, <2>2, <2>3 DEF TypeOK
<1>5. Through /\ CopyBuffer /\ DoneBy /\ Placed /\ Counted /\ Fits /\ Seen
  BY <1>1, <1>3, Sizes
  DEF Through, CopyBuffer, DoneBy, Placed, InFull, Counted, Fits, Seen
<1>6. Served
  BY <1>3 DEF Served, Numbers
<1>7. Whole
  BY DEF Whole, Holds
<1> QED
  BY <1>4, <1>5, <1>6, <1>7 DEF IInv

(***************************************************************************)
(* Most steps leave the positions, the ring and the bytes read alone.      *)
(***************************************************************************)
Still == UNCHANGED <<maxSize, ring, pos1, pos2, storage2, delivered>>

LEMMA StillWhole ==
  ASSUME Still, TypeOK, Whole
  PROVE  /\ Whole'
         /\ ring' \in [0 .. maxSize' - 1 -> Int]
         /\ delivered' = Numbers(0, Len(delivered')) /\ Len(delivered') \in Nat
         /\ Len(delivered') = Len(delivered)
         /\ Buffered' <=> Buffered
BY DEF Still, TypeOK, Whole, Holds, Buffered

LEMMA StillServed ==
  ASSUME Still, Served,
         rpc' \in {"reload", "seeDone", "copy"} =>
           rpc \in {"reload", "seeDone", "copy"} \/ Len(delivered) = pos2
  PROVE  Served'
BY DEF Still, Served, Buffered

\* While the threads are in these steps there is a ring.
LEMMA RingThere ==
  ASSUME IInv, tpc # "exit" \/ rpc \in {"reload", "seeDone", "copy", "release"}
  PROVE  Buffered /\ maxSize \in Nat \ {0}
BY Sizes DEF IInv, TypeOK, Through, Buffered

-----------------------------------------------------------------------------
(* The task *)

LEMMA TaskStillInv ==
  ASSUME IInv, InputError \/ Callback \/ Ended \/ GiveUp \/ SetDone
  PROVE  IInv'
<1> USE DEF IInv, InputError, Callback, Ended, GiveUp, SetDone, AfterFull, reader
<1>1. Still /\ Buffered
  BY RingThere DEF Still
<1>2. TypeOK'
  <2>1. stored' \in Nat /\ stored' <= BufferSize /\ moved' \in Nat
    BY Sizes DEF TypeOK
  <2> QED
    BY <1>1, <2>1, StillWhole DEF TypeOK, Still
<1>3. Through'
  BY <1>1, StillWhole DEF Through
<1>4. CopyBuffer' /\ DoneBy'
  BY DEF CopyBuffer, DoneBy, InFull, TypeOK
<1>5. Placed'
  <2>1. CASE GiveUp
    BY <1>1, <2>1 DEF Placed, Dropped, DoneBy, CopyBuffer, InFull, TypeOK, Still
  <2>2. CASE InputError \/ Callback \/ Ended \/ SetDone
    BY <1>1, <2>2 DEF Placed, Dropped, InFull, TypeOK, Still
  <2> QED
    BY <2>1, <2>2
<1>6. Served'
  BY <1>1, StillServed
<1>7. Counted'
  <2>1. UNCHANGED <<used, pos1, pos2, rpc, ri, ti>> /\ tpc # "publish" /\ tpc' # "publish"
    BY DEF TypeOK
  <2> QED
    BY <2>1 DEF Counted
<1>8. Fits' /\ Seen'
  BY DEF Fits, Seen, TypeOK
<1> QED
  BY <1>1, <1>2, <1>3, <1>4, <1>5, <1>6, <1>7, <1>8, StillWhole

LEMMA InputInv ==
  ASSUME IInv, Input
  PROVE  IInv' /\ sent' \in Nat /\ sent' >= sent
<1> USE DEF IInv, Input, reader
<1>1. Still /\ Buffered
  BY RingThere DEF Still
<1>2. /\ sent' \in Nat /\ sent' >= sent /\ pending' \in Nat /\ pending' <= BufferSize
      /\ pending = 0 /\ sent' - pending' = sent
      /\ tpc' = "store" => pending' > 0
      /\ tpc' \in {"store", "ended"} /\ (tpc' = "ended" => eof' /\ pending' = 0)
      /\ eof' \in BOOLEAN
  <2>1. CASE sent < NumBytes
    BY <2>1, Sizes DEF TypeOK, CopyBuffer
  <2>2. CASE ~(sent < NumBytes)
    BY <2>2, Sizes DEF TypeOK, CopyBuffer
  <2> QED
    BY <2>1, <2>2
<1>3. TypeOK'
  BY <1>1, <1>2, StillWhole DEF TypeOK, Still
<1>4. Through'
  BY <1>1, StillWhole DEF Through
<1>5. CopyBuffer' /\ DoneBy'
  BY <1>2 DEF CopyBuffer, DoneBy, InFull
<1>6. Placed'
  <2>1. sent - stored = pos1 /\ pos2 <= pos1 /\ pos1 <= sent /\ pos1 - pos2 <= maxSize
    BY <1>1, <1>2 DEF Placed, Dropped, InFull, TypeOK
  <2>2. sent' - pending' - stored' = pos1'
    BY <1>1, <1>2, <2>1 DEF TypeOK, Still
  <2>3. pos1' <= sent'
    BY <1>1, <1>2, <2>1 DEF TypeOK, Still
  <2>4. ~InFull'
    BY <1>2 DEF InFull
  <2>5. sent' - pending' - stored' + 0 = pos1'
    <3>1. sent' \in Nat /\ pending' \in Nat /\ stored' \in Nat
      BY <1>3 DEF TypeOK
    <3> HIDE DEF Input
    <3> QED
      BY <2>2, <3>1
  <2> QED
    BY <1>1, <2>1, <2>3, <2>4, <2>5 DEF Placed, Still
<1>7. Served'
  BY <1>1, StillServed
<1>8. Counted' /\ Fits' /\ Seen'
  BY <1>2 DEF Counted, Fits, Seen
<1> QED
  BY <1>1, <1>2, <1>3, <1>4, <1>5, <1>6, <1>7, <1>8, StillWhole

LEMMA StoreInv == ASSUME IInv, Store PROVE IInv'
<1> USE DEF IInv, Store, reader
<1>1. Still /\ Buffered
  BY RingThere DEF Still
<1>2. CASE stored = BufferSize
  <2>1. TypeOK'
    BY <1>1, <1>2, StillWhole DEF TypeOK, Still
  <2>2. Through' /\ CopyBuffer' /\ DoneBy'
    BY <1>1, <1>2, StillWhole DEF Through, CopyBuffer, DoneBy, InFull
  <2>3. Placed'
    <3>1. ~Dropped
      BY <1>2, Sizes DEF Dropped, CopyBuffer, TypeOK
    <3> QED
      BY <1>1, <1>2, <3>1 DEF Placed, InFull, TypeOK, Still
  <2>4. Served' /\ Counted' /\ Fits' /\ Seen'
    BY <1>1, <1>2, StillServed DEF Counted, Fits, Seen
  <2> QED
    BY <1>1, <2>1, <2>2, <2>3, <2>4, StillWhole
<1>3. CASE stored # BufferSize
  <2>1. PICK n \in Nat :
          /\ n <= pending /\ n <= BufferSize - stored
          /\ stored' = stored + n /\ pending' = pending - n
          /\ tpc' = IF n = pending THEN "callback" ELSE "store"
          /\ UNCHANGED moved
    <3> DEFINE n == Min({pending, BufferSize - stored})
    <3>1. BufferSize - stored \in Nat /\ pending \in Nat
      BY Sizes DEF TypeOK
    <3>2. n \in Nat /\ n <= pending /\ n <= BufferSize - stored
      BY <3>1, MinOfTwo
    <3>3. /\ stored' = stored + n /\ pending' = pending - n
          /\ tpc' = IF n = pending THEN "callback" ELSE "store"
          /\ UNCHANGED moved
      BY <1>3
    <3> HIDE DEF n
    <3> QED
      BY <3>2, <3>3
  <2>2. TypeOK'
    BY <1>1, <2>1, Sizes, StillWhole DEF TypeOK, Still
  <2>3. Through' /\ CopyBuffer' /\ DoneBy'
    <3>1. /\ pending' \in Nat /\ pending' <= BufferSize
          /\ \/ tpc' = "callback" /\ pending' = 0
             \/ tpc' = "store" /\ pending' > 0
      BY <2>1, Sizes DEF CopyBuffer, TypeOK
    <3>2. CopyBuffer'
      BY <3>1 DEF CopyBuffer, InFull
    <3>3. Through' /\ DoneBy'
      BY <1>1, <3>1, StillWhole DEF Through, DoneBy
    <3> QED
      BY <3>2, <3>3
  <2>4. Placed'
    BY <1>1, <2>1 DEF Placed, Dropped, InFull, TypeOK, Still
  <2>5. Served' /\ Counted' /\ Fits' /\ Seen'
    BY <1>1, <2>1, StillServed DEF Counted, Fits, Seen
  <2> QED
    BY <1>1, <2>2, <2>3, <2>4, <2>5, StillWhole
<1> QED
  BY <1>2, <1>3

\* A portion cut by what was loaded of FUsedSize, now or before.
LEMMA RoomInv ==
  ASSUME IInv, UNCHANGED <<maxSize, reader, sent, eof, pending, stored, moved, pos1, ring, used, fdone>>,
         InFull, tpc # "publish", tpc' = "copy",
         NEW u \in Nat, used <= u, u <= maxSize,
         ti' = PutPortion(maxSize, pos1, stored - moved, u)
  PROVE  IInv'
<1> USE DEF IInv, reader
<1>1. Still
  BY DEF Still
<1>2. Buffered /\ maxSize \in Nat \ {0}
  BY RingThere DEF InFull
<1>3. stored - moved \in Nat /\ maxSize - u \in Int /\ maxSize - u >= 0
  BY <1>2, Sizes DEF TypeOK, Placed, Dropped, InFull
<1>4. ti' = Min({stored - moved, maxSize - u, maxSize - (pos1 % maxSize)})
  BY DEF PutPortion
<1>5. pos1 \in Nat
  BY DEF TypeOK
<1>6. /\ ti' \in Nat
      /\ ti' <= stored - moved
      /\ ti' <= maxSize - u
      /\ (pos1 % maxSize) + ti' <= maxSize
  BY <1>2, <1>3, <1>4, <1>5, PortionFits, Zenon
<1>7. TypeOK'
  BY <1>1, <1>6, StillWhole DEF TypeOK, Still
<1>8. Through' /\ CopyBuffer' /\ DoneBy'
  BY <1>1, <1>2, StillWhole DEF Through, CopyBuffer, DoneBy, InFull
<1>9. Placed'
  BY <1>1, <1>2, StillWhole DEF Placed, Dropped, InFull, Still
<1>10. Served' /\ Counted' /\ Seen'
  BY <1>1, StillServed DEF Counted, Seen, TypeOK
<1>11. Fits'
  <2>1. pos1 - pos2 <= used
    BY DEF Counted, TypeOK
  <2>2. pos1 - pos2 + ti' <= maxSize
    BY <1>6, <2>1 DEF TypeOK
  <2> QED
    BY <1>6, <2>2 DEF Fits
<1> QED
  BY <1>1, <1>7, <1>8, <1>9, <1>10, <1>11, StillWhole

\* The ring is found full, or FUsedSize is loaded again.
LEMMA FullInv ==
  ASSUME IInv, UNCHANGED <<maxSize, reader, sent, eof, pending, stored, moved, pos1, ring, used, fdone>>,
         InFull, tpc \notin {"copy", "publish"},
         \/ tpc' = "full" /\ ti' = ti
         \/ tpc' = "retry" /\ ti' = used
  PROVE  IInv'
<1> USE DEF IInv, reader
<1>1. Still
  BY DEF Still
<1>2. Buffered /\ maxSize \in Nat \ {0}
  BY RingThere DEF InFull
<1>3. used \in Nat
  BY DEF TypeOK
<1>4. TypeOK'
  BY <1>1, <1>3, StillWhole DEF TypeOK, Still
<1>5. Through' /\ CopyBuffer' /\ DoneBy'
  BY <1>1, <1>2, StillWhole DEF Through, CopyBuffer, DoneBy, InFull
<1>6. Placed'
  BY <1>1, <1>2, StillWhole DEF Placed, Dropped, InFull, Still
<1>7. Served' /\ Counted' /\ Seen'
  BY <1>1, StillServed DEF Counted, Seen, TypeOK, InFull
<1>8. Fits'
  BY <1>3 DEF Fits
<1> QED
  BY <1>1, <1>4, <1>5, <1>6, <1>7, <1>8, StillWhole

LEMMA AwaitRoomInv == ASSUME IInv, AwaitRoom PROVE IInv'
<1>1. InFull /\ used \in Nat /\ used <= used
  BY DEF AwaitRoom, InFull, IInv, TypeOK
<1>2. CASE maxSize - used >= BufferSize
  <2>1. used <= maxSize
    BY <1>2, Sizes DEF IInv, TypeOK
  <2> QED
    BY <1>1, <1>2, <2>1, RoomInv DEF AwaitRoom
<1>3. CASE ~(maxSize - used >= BufferSize)
  BY <1>1, <1>3, FullInv DEF AwaitRoom
<1> QED
  BY <1>2, <1>3

LEMMA ReloadInv == ASSUME IInv, Reload PROVE IInv'
BY FullInv DEF Reload, InFull

LEMMA RetryInv == ASSUME IInv, Retry PROVE IInv'
<1>1. InFull /\ ti \in Nat /\ used <= ti
  BY DEF Retry, InFull, IInv, TypeOK, Fits
<1>2. CASE maxSize - ti >= BufferSize
  <2>1. ti <= maxSize
    BY <1>2, Sizes DEF IInv, TypeOK
  <2> QED
    BY <1>1, <1>2, <2>1, RoomInv DEF Retry
<1>3. CASE ~(maxSize - ti >= BufferSize)
  BY <1>1, <1>3, FullInv DEF Retry
<1> QED
  BY <1>2, <1>3

LEMMA CopyInInv == ASSUME IInv, CopyIn PROVE IInv'
<1> USE DEF IInv, CopyIn, reader
<1>1. Buffered /\ maxSize \in Nat \ {0} /\ (Buffered' <=> Buffered)
  BY RingThere DEF Buffered
<1>2. /\ sent - pending - stored + moved = pos1 /\ pos2 <= pos1
      /\ moved <= stored /\ ti <= stored - moved
  BY <1>1 DEF Placed, Dropped, InFull, Fits
<1>3. ring' = PutBytes(ring, maxSize, pos1, pos1, ti)
  BY <1>2
<1>4. ring' \in [0 .. maxSize - 1 -> Int] /\ Holds(ring', maxSize, pos2, pos1 + ti)
  BY <1>1, <1>2, <1>3, PutBytesHolds DEF TypeOK, Whole, Fits
<1>5. TypeOK'
  BY <1>4 DEF TypeOK
<1>6. Through' /\ CopyBuffer' /\ DoneBy'
  BY <1>1 DEF Through, CopyBuffer, DoneBy, InFull
<1>7. Placed'
  BY <1>1, <1>2 DEF Placed, InFull, Fits, TypeOK
<1>8. Served'
  BY <1>1 DEF Served
<1>9. Counted' /\ Fits' /\ Seen'
  BY DEF Counted, Fits, Seen, TypeOK
<1>10. Whole'
  BY <1>4 DEF Whole
<1> QED
  BY <1>5, <1>6, <1>7, <1>8, <1>9, <1>10

LEMMA PublishInv == ASSUME IInv, Publish PROVE IInv'
<1> USE DEF IInv, Publish, AfterFull, reader
<1>1. Still
  BY DEF Still
<1>2. Buffered
  BY RingThere
<1>3. TypeOK'
  BY <1>1, Sizes, StillWhole DEF TypeOK, Still
<1>4. Through' /\ CopyBuffer' /\ DoneBy'
  BY <1>1, <1>2, StillWhole DEF Through, CopyBuffer, DoneBy, InFull
<1>5. Placed'
  BY <1>1, <1>2 DEF Placed, Dropped, InFull, TypeOK, Still
<1>6. Served'
  BY <1>1, StillServed
<1>7. Counted' /\ Fits' /\ Seen'
  BY DEF Counted, Fits, Seen, TypeOK
<1> QED
  BY <1>1, <1>3, <1>4, <1>5, <1>6, <1>7, StillWhole

-----------------------------------------------------------------------------
(* The reader *)

LEMMA ReaderStillInv ==
  ASSUME IInv, Load \/ SeeDone \/ Nothing \/ Release \/ ReadAgain \/ Destroy \/ Join
  PROVE  IInv'
<1> USE DEF IInv, Load, SeeDone, Nothing, Release, ReadAgain, Destroy, Join, task
<1>1. Still
  BY DEF Still
<1>2. TypeOK'
  <2>1. used' \in Nat /\ ri' \in Nat
    BY DEF TypeOK, Seen
  <2> QED
    BY <1>1, <2>1, StillWhole DEF TypeOK, Still
<1>3. Through'
  BY <1>1, StillWhole DEF Through, TypeOK, Still
<1>4. CopyBuffer' /\ DoneBy'
  BY DEF CopyBuffer, DoneBy, InFull
<1>5. Placed'
  BY <1>1, StillWhole DEF Placed, Dropped, InFull, TypeOK, Still
<1>6. Served'
  <2>1. CASE Load
    <3>1. Buffered
      BY <2>1, RingThere
    <3>2. storage2 = << >> => Len(delivered) = pos2
      <4>1. pos2 - Len(delivered) \in Nat /\ Len(delivered) \in Nat
        BY <3>1 DEF Served, TypeOK
      <4>2. Len(storage2) = pos2 - Len(delivered)
        BY <3>1, <4>1, NumbersParts DEF Served
      <4> QED
        BY <4>1, <4>2, EmptySeq DEF TypeOK
    <3> QED
      BY <1>1, <2>1, <3>2, StillServed
  <2>2. CASE SeeDone \/ Nothing \/ Release \/ ReadAgain \/ Destroy \/ Join
    BY <1>1, <2>2, StillServed
  <2> QED
    BY <2>1, <2>2
<1>7. Counted'
  <2>1. CASE Release
    BY <2>1 DEF Counted, TypeOK
  <2>2. CASE Load \/ SeeDone \/ Nothing \/ ReadAgain \/ Destroy \/ Join
    <3>1. UNCHANGED <<used, pos1, pos2, tpc, ti>> /\ rpc # "release" /\ rpc' # "release"
      BY <2>2
    <3> QED
      BY <3>1 DEF Counted
  <2> QED
    BY <2>1, <2>2
<1>8. Fits'
  BY DEF Fits, TypeOK
<1>9. Seen'
  BY DEF Seen, TypeOK
<1> QED
  BY <1>1, <1>2, <1>3, <1>4, <1>5, <1>6, <1>7, <1>8, <1>9, StillWhole

LEMMA ReadThroughInv ==
  ASSUME IInv, ReadThrough
  PROVE  /\ IInv'
         /\ \E n \in Nat : /\ sent' = sent + n
                           /\ delivered' = delivered \o Numbers(Len(delivered), n)
                           /\ Len(delivered) = sent
<1> USE DEF IInv, ReadThrough, task
<1>1. ~Buffered /\ ~Buffered' /\ Len(delivered) = sent
  BY DEF Buffered, Through
<1>2. PICK n \in Nat : /\ sent' = sent + n /\ delivered' = delivered \o Bytes(sent, n)
                       /\ rpc' = IF n = 0 THEN "zero" ELSE "read"
  BY DEF TypeOK
<1>3. delivered' = Numbers(0, sent + n) /\ Len(delivered') = sent + n
  BY <1>1, <1>2, Delivered, SameBytes
<1>4. sent + n \in Nat
  BY DEF TypeOK
<1>5. TypeOK'
  BY <1>2, <1>3, <1>4 DEF TypeOK
<1>6. Through' /\ Placed' /\ Served' /\ CopyBuffer' /\ DoneBy'
  BY <1>1, <1>2, <1>3 DEF Through, Placed, Served, CopyBuffer, DoneBy, InFull
<1>7. Counted' /\ Fits' /\ Seen'
  BY <1>2 DEF Counted, Fits, Seen
<1>8. Whole'
  BY DEF Whole, Holds
<1> QED
  BY <1>1, <1>2, <1>5, <1>6, <1>7, <1>8, SameBytes

LEMMA ServeInv ==
  ASSUME IInv, Serve
  PROVE  /\ IInv'
         /\ \E n \in 0 .. sent - Len(delivered) :
              delivered' = delivered \o Numbers(Len(delivered), n)
<1> USE DEF IInv, Serve, task
<1>1. Buffered /\ (Buffered' <=> Buffered)
  BY DEF Buffered
<1> DEFINE d == Len(delivered)
           k == pos2 - d
<1>2. d \in Nat /\ k \in Nat /\ storage2 = Numbers(d, k) /\ d + k = pos2
  BY <1>1 DEF Served, TypeOK
<1>3. Len(storage2) = k
  BY <1>2, NumbersParts
<1>4. PICK n \in 1 .. k :
        /\ delivered' = delivered \o SubSeq(storage2, 1, n)
        /\ storage2' = SubSeq(storage2, n + 1, k)
  BY <1>3
<1> HIDE DEF d, k
<1>5. n \in 0 .. k /\ n \in Nat
  BY <1>2
<1>6. SubSeq(storage2, 1, n) = Numbers(d, n) /\ SubSeq(storage2, n + 1, k) = Numbers(d + n, k - n)
  BY <1>2, <1>5, NumbersParts
<1>7. /\ delivered' = delivered \o Numbers(d, n)
      /\ delivered' = Numbers(0, d + n) /\ Len(delivered') = d + n
  BY <1>4, <1>5, <1>6, Delivered DEF d
<1>8. TypeOK'
  BY <1>2, <1>5, <1>7 DEF TypeOK
<1>9. Through' /\ CopyBuffer' /\ DoneBy'
  BY <1>1 DEF Through, CopyBuffer, DoneBy, InFull
<1>10. Placed'
  BY <1>1 DEF Placed, Dropped, InFull
<1>11. Served'
  <2>1. pos2' - Len(delivered') = k - n /\ Len(delivered') <= pos2'
    BY <1>2, <1>4, <1>5, <1>7
  <2>2. rpc' \notin {"reload", "seeDone", "copy"}
    OBVIOUS
  <2> QED
    BY <1>4, <1>6, <1>7, <2>1, <2>2 DEF Served
<1>12. Counted' /\ Fits' /\ Seen'
  BY DEF Counted, Fits, Seen
<1>13. Whole'
  BY DEF Whole, Holds
<1>14. n \in 0 .. sent - Len(delivered)
  BY <1>1, <1>2, <1>5 DEF Placed, TypeOK, d
<1> QED
  BY <1>7, <1>8, <1>9, <1>10, <1>11, <1>12, <1>13, <1>14 DEF d

LEMMA CopyOutInv == ASSUME IInv, CopyOut PROVE IInv'
<1> USE DEF IInv, CopyOut, task
<1>1. Buffered /\ maxSize \in Nat \ {0} /\ (Buffered' <=> Buffered)
  BY RingThere DEF Buffered
<1> DEFINE n == Portion
<1>2. n = Min({BufferSize, ri, maxSize - (pos2 % maxSize)})
  BY DEF Portion, GetPortion
<1>3. BufferSize \in Nat /\ ri \in Int /\ ri >= 0 /\ pos2 \in Nat
  BY Sizes DEF TypeOK
<1> HIDE DEF n
<1>4. n \in Nat /\ n <= ri /\ (pos2 % maxSize) + n <= maxSize
  BY <1>1, <1>2, <1>3, PortionFits, Zenon
<1>5. pos2 + n <= pos1 /\ n <= used
  BY <1>4 DEF Counted, Seen, TypeOK
<1>6. Len(delivered) = pos2
  BY <1>1 DEF Served
<1>7. GetBytes(ring, maxSize, pos2, n) = Numbers(pos2, n)
  BY <1>1, <1>4, <1>5, GetBytesHolds DEF TypeOK, Whole
<1>8. pos2' = pos2 + n /\ ri' = n /\ storage2' = Numbers(pos2, n)
  BY <1>7 DEF n
<1>9. TypeOK'
  BY <1>4, <1>8 DEF TypeOK
<1>10. Through' /\ CopyBuffer' /\ DoneBy'
  BY <1>1 DEF Through, CopyBuffer, DoneBy, InFull
<1>11. Placed'
  BY <1>1, <1>4, <1>5, <1>8 DEF Placed, Dropped, InFull, TypeOK
<1>12. Served'
  <2>1. Len(delivered') = pos2 /\ pos2' - pos2 = n /\ pos2 <= pos2'
    BY <1>4, <1>6, <1>8 DEF TypeOK
  <2> QED
    BY <1>8, <2>1 DEF Served
<1>13. Counted' /\ Fits' /\ Seen'
  BY <1>4, <1>5, <1>8 DEF Counted, Fits, Seen, TypeOK
<1>14. Whole'
  BY <1>4, <1>5, <1>8 DEF Whole, Holds, TypeOK
<1> QED
  BY <1>9, <1>10, <1>11, <1>12, <1>13, <1>14

-----------------------------------------------------------------------------
LEMMA NextIInv == IInv /\ [Next]_vars => IInv'
<1> SUFFICES ASSUME IInv, [Next]_vars PROVE IInv'
  OBVIOUS
<1>1. CASE Task
  BY <1>1, TaskStillInv, InputInv, StoreInv, AwaitRoomInv, ReloadInv, RetryInv, CopyInInv, PublishInv DEF Task
<1>2. CASE Reader
  BY <1>2, ReaderStillInv, ReadThroughInv, ServeInv, CopyOutInv DEF Reader, Read
<1>3. CASE UNCHANGED vars
  BY <1>3 DEF vars, task, reader, IInv, TypeOK, Through, CopyBuffer, DoneBy, Placed, Dropped,
              Served, Counted, Fits, Seen, Whole, Holds, InFull, Buffered
<1> QED
  BY <1>1, <1>2, <1>3 DEF Next, Finished

(***************************************************************************)
(* At all times, for every size of the ring and of the buffers and every   *)
(* input: the shared counters of TCacheReadStream fit together, and each   *)
(* byte read ahead is in one place.                                        *)
(***************************************************************************)
THEOREM Inductive == Spec => []IInv
BY InitIInv, NextIInv, PTL DEF Spec

(***************************************************************************)
(* FUsedSize, which the two sides change without a lock, is what is in the *)
(* ring but for the portion one side has not published yet, the ring never *)
(* holds more than it has room for, and no byte in it is overwritten       *)
(* before Read has taken it.                                               *)
(***************************************************************************)
THEOREM UsedSizeIsRight == Spec => []UsedSizeRight
<1>1. IInv => UsedSizeRight
  <2> SUFFICES ASSUME IInv PROVE UsedSizeRight
    OBVIOUS
  <2>1. pos1 - pos2 <= maxSize
    BY DEF IInv, TypeOK, Through, Placed
  <2> QED
    BY <2>1 DEF IInv, Counted, Whole, Holds, UsedSizeRight
<1> QED
  BY <1>1, Inductive, PTL

(***************************************************************************)
(* TCacheReadStream is a queue of bytes: Read returns the bytes of FInput  *)
(* in order, no byte twice and none skipped.                               *)
(***************************************************************************)
THEOREM ReadsInOrder == Spec => Fifo
<1>1. Init => Queue!Init
  BY DEF Init, Queue!Init
<1>2. IInv /\ [Next]_vars => [Queue!Next]_<<sent, delivered>>
  <2> SUFFICES ASSUME IInv, [Next]_vars, ~ UNCHANGED <<sent, delivered>>
               PROVE  Queue!Next
    OBVIOUS
  <2>1. sent \in Nat /\ Len(delivered) \in Nat /\ Len(delivered) <= sent
    BY DEF IInv, TypeOK, Through, Placed, Served
  <2>2. CASE ReadThrough
    <3>1. PICK n \in Nat : /\ sent' = sent + n
                           /\ delivered' = delivered \o Numbers(Len(delivered), n)
                           /\ Len(delivered) = sent
      BY <2>2, ReadThroughInv
    <3>2. n \in 0 .. sent' - Len(delivered) /\ sent' \in Nat /\ sent' >= sent
      BY <2>1, <3>1
    <3> QED
      BY <3>1, <3>2, SameBytes DEF Queue!Next
  <2>3. CASE Serve
    <3>1. sent' = sent
      BY <2>3 DEF Serve
    <3>2. PICK n \in 0 .. sent - Len(delivered) :
            delivered' = delivered \o Queue!Bytes(Len(delivered), n)
      BY <2>3, ServeInv, SameBytes
    <3> QED
      BY <2>1, <3>1, <3>2 DEF Queue!Next
  <2>4. CASE Input
    <3>1. sent' \in Nat /\ sent' >= sent /\ UNCHANGED delivered
      BY <2>4, InputInv DEF Input, reader
    <3>2. delivered = delivered \o Queue!Bytes(Len(delivered), 0)
      <4>1. Numbers(Len(delivered), 0) = << >>
        BY DEF Numbers
      <4>2. delivered \in Seq(Nat)
        BY Delivered DEF IInv
      <4> QED
        BY <4>1, <4>2, SameBytes, ConcatEmptySeq
    <3>3. 0 \in 0 .. sent' - Len(delivered)
      BY <2>1, <3>1
    <3> QED
      BY <3>1, <3>2, <3>3 DEF Queue!Next
  <2> QED
    BY <2>2, <2>3, <2>4
    DEF Next, Task, Reader, Read, Finished, vars, InputError, Store, Callback, Ended, AwaitRoom,
        Reload, Retry, CopyIn, Publish, GiveUp, SetDone, Load, SeeDone, Nothing, CopyOut, Release, ReadAgain,
        Destroy, Join, reader, task
<1> QED
  BY <1>1, <1>2, Inductive, PTL DEF Spec, Fifo, Queue!Spec

=============================================================================
