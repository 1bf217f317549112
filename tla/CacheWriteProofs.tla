--------------------------- MODULE CacheWriteProofs ---------------------------
(***************************************************************************)
(* Proofs about TCacheWriteStream: for rings and buffers of any size, and  *)
(* for every order in which the writer and its task take their steps, the  *)
(* stream is a queue of bytes.                                             *)
(*                                                                         *)
(* UsedSizeRight is not inductive: that the bytes in the ring are whole    *)
(* rests on what the writer is about to copy (Portion of FOnFull still     *)
(* fits, Placed) and on what the task has seen (Seen: I is no more than    *)
(* what is in the ring when it is used).                                   *)
(***************************************************************************)
EXTENDS CacheWrite, CommonLemmas

TypeOK ==
  /\ maxSize \in Nat
  /\ wpc \in {"write", "wait", "copy", "publish", "setDone", "join", "closed", "crashed"}
  /\ tpc \in {"load", "reload", "seeDone", "copy", "release", "check", "exit", "errored"}
  /\ closing \in BOOLEAN /\ fdone \in BOOLEAN
  /\ sent \in Nat /\ stored \in Nat /\ moved \in Nat /\ wi \in Nat
  /\ pos1 \in Nat /\ pos2 \in Nat /\ used \in Nat /\ ti \in Nat
  /\ ring \in [0 .. maxSize - 1 -> Int]
  /\ delivered = Numbers(0, Len(delivered)) /\ Len(delivered) \in Nat

\* Without a ring the bytes go straight to FOutput.
Through ==
  ~Buffered =>
    /\ wpc \in {"write", "closed", "crashed"}
    /\ tpc = "exit"
    /\ Len(delivered) = sent
    /\ stored = 0 /\ used = 0 /\ pos1 = 0 /\ pos2 = 0

InFull == wpc \in {"wait", "copy", "publish"}

\* Where the bytes written are: delivered, in the ring, in FStorage.
Placed ==
  Buffered =>
    /\ Len(delivered) = pos1
    /\ pos1 <= pos2
    /\ pos2 - pos1 <= maxSize
    /\ stored <= sent
    /\ sent - stored + (IF InFull THEN moved ELSE 0) = pos2
    /\ InFull => moved <= stored

\* FUsedSize lags behind the positions.
Counted ==
  used = pos2 - pos1 - (IF wpc = "publish" THEN wi ELSE 0)
                     + (IF tpc = "release" THEN ti ELSE 0)

\* The portion FOnFull has chosen still fits when it is copied.
Fits ==
  wpc = "copy" =>
    /\ wi <= stored - moved
    /\ (pos2 % maxSize) + wi <= maxSize
    /\ pos2 - pos1 + wi <= maxSize

\* What the task has read of FUsedSize is still there when it is used.
Seen == tpc \in {"seeDone", "copy", "release"} => ti <= used

Whole == Holds(ring, maxSize, pos1, pos2)

IInv ==
  /\ TypeOK
  /\ Through
  /\ Placed
  /\ Counted
  /\ Fits
  /\ Seen
  /\ Whole

LEMMA Sizes == BufferSize \in Nat /\ BufferSize > 0 /\ MaxSizes \subseteq Nat
BY SizeAssumption

LEMMA SameBytes ==
  ASSUME NEW first, NEW n
  PROVE  Bytes(first, n) = Numbers(first, n) /\ Queue!Bytes(first, n) = Numbers(first, n)
BY DEF Bytes, Numbers, Queue!Bytes

\* What has come out, and the bytes after it.
LEMMA Delivered ==
  ASSUME TypeOK, NEW n \in Nat
  PROVE  /\ delivered \in Seq(Nat)
         /\ delivered \o Numbers(Len(delivered), n) = Numbers(0, Len(delivered) + n)
         /\ Len(Numbers(0, Len(delivered) + n)) = Len(delivered) + n
<1> DEFINE a == Len(delivered)
<1>1. a \in Nat /\ delivered = Numbers(0, a)
  BY DEF TypeOK
<1> HIDE DEF a
<1>2. /\ Numbers(0, a) \in Seq(Nat)
      /\ Numbers(0, a) \o Numbers(a, n) = Numbers(0, a + n)
  BY <1>1, NumbersConcat
<1>3. a + n \in Nat
  BY <1>1
<1>4. Len(Numbers(0, a + n)) = a + n
  BY <1>3, NumbersConcat, Zenon
<1>5. /\ delivered \in Seq(Nat)
      /\ delivered \o Numbers(a, n) = Numbers(0, a + n)
  BY <1>1, <1>2, Zenon
<1> QED
  BY <1>4, <1>5 DEF a

LEMMA InitIInv == Init => IInv
<1> SUFFICES ASSUME Init PROVE IInv
  OBVIOUS
<1> USE DEF Init
<1>1. maxSize \in Nat
  BY Sizes
<1>2. ring \in [0 .. maxSize - 1 -> Int]
  BY <1>1 DEF EmptyRing
<1>3. delivered = Numbers(0, Len(delivered)) /\ Len(delivered) \in Nat /\ Len(delivered) = 0
  BY DEF Numbers
<1>4. TypeOK
  BY <1>1, <1>2, <1>3 DEF TypeOK
<1>5. Through /\ Placed /\ Counted /\ Fits /\ Seen
  BY <1>1, <1>3 DEF Through, Placed, InFull, Counted, Fits, Seen
<1>6. Whole
  BY DEF Whole, Holds
<1> QED
  BY <1>4, <1>5, <1>6 DEF IInv

(***************************************************************************)
(* Most steps leave the positions and the ring alone.                      *)
(***************************************************************************)
Still == UNCHANGED <<maxSize, ring, pos1, pos2, delivered>>

LEMMA StillWhole ==
  ASSUME Still, TypeOK, Whole
  PROVE  /\ Whole'
         /\ ring' \in [0 .. maxSize' - 1 -> Int]
         /\ delivered' = Numbers(0, Len(delivered')) /\ Len(delivered') \in Nat
         /\ Len(delivered') = Len(delivered)
         /\ Buffered' <=> Buffered
BY DEF Still, TypeOK, Whole, Holds, Buffered

-----------------------------------------------------------------------------
(* The writer *)

LEMMA WriterStillInv ==
  ASSUME IInv, Write \/ WriteFull \/ WriteNil \/ Destroy \/ SetDone \/ Join
  PROVE  IInv'
<1> USE DEF IInv, Write, WriteFull, WriteNil, Destroy, SetDone, Join, task
<1>1. Still
  BY DEF Still
<1>2. TypeOK'
  <2>1. sent' \in Nat /\ stored' \in Nat /\ moved' \in Nat
    BY Sizes DEF TypeOK
  <2> QED
    BY <1>1, <2>1, StillWhole DEF TypeOK, Still
<1>3. Through'
  BY <1>1, StillWhole, Sizes DEF TypeOK, Through, Buffered, Still
<1>4. Placed'
  BY <1>1, StillWhole, Sizes DEF TypeOK, Placed, InFull, Buffered, Still
<1>5. Counted'
  BY DEF Counted, TypeOK
<1>6. Fits' /\ Seen'
  BY DEF Fits, Seen, TypeOK
<1> QED
  BY <1>1, <1>2, <1>3, <1>4, <1>5, <1>6, StillWhole

LEMMA WriteThroughInv == ASSUME IInv, WriteThrough PROVE IInv'
<1> USE DEF IInv
<1>1. ~Buffered /\ ~Buffered' /\ Len(delivered) = sent
  BY Sizes DEF WriteThrough, Buffered, TypeOK, Through
<1>2. PICK n \in Nat : sent' = sent + n /\ delivered' = delivered \o Bytes(sent, n)
  BY DEF WriteThrough, TypeOK
<1>3. delivered' = Numbers(0, sent + n) /\ Len(delivered') = sent + n
  BY <1>1, <1>2, Delivered, SameBytes
<1>4. sent + n \in Nat
  BY DEF TypeOK
<1>5. TypeOK'
  BY <1>2, <1>3, <1>4 DEF WriteThrough, TypeOK
<1>6. Through' /\ Placed'
  BY <1>1, <1>2, <1>3 DEF WriteThrough, Through, Placed
<1>7. Counted' /\ Fits' /\ Seen'
  BY DEF WriteThrough, Counted, Fits, Seen
<1>8. Whole'
  BY DEF WriteThrough, Whole, Holds
<1> QED
  BY <1>5, <1>6, <1>7, <1>8

\* In FOnFull there is a ring.
LEMMA RingThere ==
  ASSUME IInv, InFull \/ tpc # "exit"
  PROVE  Buffered /\ maxSize \in Nat \ {0}
BY Sizes DEF IInv, TypeOK, Through, InFull, Buffered

LEMMA AwaitRoomInv == ASSUME IInv, AwaitRoom PROVE IInv'
<1> USE DEF IInv, AwaitRoom, writer, task
<1>1. Still
  BY DEF Still
<1>2. Buffered /\ maxSize \in Nat \ {0}
  BY RingThere DEF InFull
<1>3. stored - moved \in Nat /\ maxSize - used \in Int /\ maxSize - used >= 0
  BY <1>2, Sizes DEF TypeOK, Placed, InFull
<1>4. wi' = Min({stored - moved, maxSize - used, maxSize - (pos2 % maxSize)})
  BY DEF PutPortion
<1>5. pos2 \in Nat
  BY DEF TypeOK
<1>6. /\ wi' \in Nat
      /\ wi' <= stored - moved
      /\ wi' <= maxSize - used
      /\ (pos2 % maxSize) + wi' <= maxSize
  BY <1>2, <1>3, <1>4, <1>5, PortionFits, Zenon
<1>7. TypeOK'
  BY <1>1, <1>6, StillWhole DEF TypeOK, Still
<1>8. Through' /\ Placed'
  BY <1>1, <1>2, StillWhole DEF Through, Placed, InFull, Still
<1>9. Counted' /\ Seen'
  BY DEF Counted, Seen, TypeOK
<1>10. Fits'
  <2>1. pos2 - pos1 <= used
    BY DEF Counted, TypeOK
  <2>2. pos2 - pos1 + wi' <= maxSize
    BY <1>6, <2>1 DEF TypeOK
  <2> QED
    BY <1>6, <2>2 DEF Fits
<1> QED
  BY <1>1, <1>7, <1>8, <1>9, <1>10, StillWhole

LEMMA CopyInInv == ASSUME IInv, CopyIn PROVE IInv'
<1> USE DEF IInv, CopyIn, task
<1>1. Buffered /\ maxSize \in Nat \ {0}
  BY RingThere DEF InFull
<1>2. sent - stored + moved = pos2 /\ pos1 <= pos2
  BY <1>1 DEF Placed, InFull
<1>3. ring' = PutBytes(ring, maxSize, pos2, pos2, wi)
  BY <1>2
<1>4. ring' \in [0 .. maxSize - 1 -> Int] /\ Holds(ring', maxSize, pos1, pos2 + wi)
  BY <1>1, <1>2, <1>3, PutBytesHolds DEF TypeOK, Whole, Fits
<1>5. Buffered' <=> Buffered
  BY DEF Buffered
<1>6. TypeOK'
  BY <1>4 DEF TypeOK
<1>7. Through' /\ Placed'
  BY <1>1, <1>2, <1>5 DEF Through, Placed, InFull, Fits, TypeOK
<1>8. Counted' /\ Fits' /\ Seen'
  BY DEF Counted, Fits, Seen, TypeOK
<1>9. Whole'
  BY <1>4 DEF Whole
<1> QED
  BY <1>6, <1>7, <1>8, <1>9

LEMMA PublishInv == ASSUME IInv, Publish PROVE IInv'
<1> USE DEF IInv, Publish, task
<1>1. Still
  BY DEF Still
<1>2. Buffered
  BY RingThere DEF InFull
<1>3. TypeOK'
  BY <1>1, StillWhole DEF TypeOK, Still
<1>4. Through' /\ Placed'
  BY <1>1, <1>2, StillWhole DEF Through, Placed, InFull, TypeOK, Still
<1>5. Counted' /\ Fits' /\ Seen'
  BY DEF Counted, Fits, Seen, TypeOK
<1> QED
  BY <1>1, <1>3, <1>4, <1>5, StillWhole

-----------------------------------------------------------------------------
(* The task *)

LEMMA TaskStillInv ==
  ASSUME IInv, Load \/ SeeDone \/ Leave \/ OutputError \/ Release \/ Check
  PROVE  IInv'
<1> USE DEF IInv, Load, SeeDone, Leave, OutputError, Release, Check, writer
<1>1. Still /\ Buffered
  BY RingThere DEF Still
<1>2. TypeOK'
  <2>1. used' \in Nat /\ ti' \in Nat
    BY DEF TypeOK, Seen
  <2> QED
    BY <1>1, <2>1, StillWhole DEF TypeOK, Still
<1>3. Through' /\ Placed'
  BY <1>1, StillWhole DEF Through, Placed, InFull, TypeOK, Still
<1>4. Counted'
  <2>1. CASE Release
    BY <2>1 DEF Counted, TypeOK
  <2>2. CASE Load \/ SeeDone \/ Leave \/ OutputError \/ Check
    <3>1. UNCHANGED <<used, pos1, pos2, wpc, wi>> /\ tpc # "release" /\ tpc' # "release"
      BY <2>2
    <3> QED
      BY <3>1 DEF Counted
  <2> QED
    BY <2>1, <2>2
<1>5. Fits'
  BY DEF Fits
<1>6. Seen'
  BY DEF Seen, TypeOK
<1> QED
  BY <1>1, <1>2, <1>3, <1>4, <1>5, <1>6, StillWhole

LEMMA CopyOutInv ==
  ASSUME IInv, CopyOut
  PROVE  /\ IInv'
         /\ Portion \in 0 .. sent - Len(delivered)
         /\ delivered' = delivered \o Numbers(Len(delivered), Portion)
<1> USE DEF IInv, CopyOut, writer
<1>1. Buffered /\ maxSize \in Nat \ {0} /\ (Buffered' <=> Buffered)
  BY RingThere DEF Buffered
<1> DEFINE n == Portion
<1>2. n = Min({BufferSize, ti, maxSize - (pos1 % maxSize)})
  BY DEF Portion, GetPortion
<1>3. BufferSize \in Nat /\ ti \in Int /\ ti >= 0 /\ pos1 \in Nat
  BY Sizes DEF TypeOK
<1> HIDE DEF n
<1>4. n \in Nat /\ n <= ti /\ (pos1 % maxSize) + n <= maxSize
  BY <1>1, <1>2, <1>3, PortionFits, Zenon
<1>5. pos1 + n <= pos2 /\ n <= used
  BY <1>4 DEF Counted, Seen, TypeOK
<1>7. Len(delivered) = pos1 /\ pos2 <= sent
  BY <1>1 DEF Placed, TypeOK
<1>8. GetBytes(ring, maxSize, pos1, n) = Numbers(pos1, n)
  BY <1>1, <1>4, <1>5, GetBytesHolds DEF TypeOK, Whole
<1>9. delivered' = delivered \o Numbers(Len(delivered), n)
  BY <1>7, <1>8 DEF n
<1>10. delivered' = Numbers(0, pos1 + n) /\ Len(delivered') = pos1 + n
  BY <1>4, <1>7, <1>9, Delivered
<1>11. n \in 0 .. sent - Len(delivered)
  BY <1>4, <1>5, <1>7 DEF TypeOK
<1>12. pos1' = pos1 + n /\ ti' = n
  BY DEF n
<1>13. TypeOK'
  BY <1>4, <1>10, <1>12 DEF TypeOK
<1>14. Through' /\ Placed'
  BY <1>1, <1>4, <1>5, <1>10, <1>12 DEF Through, Placed, InFull, TypeOK
<1>15. Counted' /\ Fits' /\ Seen'
  BY <1>4, <1>5, <1>12 DEF Counted, Fits, Seen, TypeOK
<1>16. Whole'
  BY <1>4, <1>5, <1>12 DEF Whole, Holds, TypeOK
<1> QED
  BY <1>9, <1>11, <1>13, <1>14, <1>15, <1>16 DEF n

-----------------------------------------------------------------------------
LEMMA NextIInv == IInv /\ [Next]_vars => IInv'
<1> SUFFICES ASSUME IInv, [Next]_vars PROVE IInv'
  OBVIOUS
<1>1. CASE Writer
  BY <1>1, WriteThroughInv, WriterStillInv, AwaitRoomInv, CopyInInv, PublishInv DEF Writer
<1>2. CASE Task
  BY <1>2, TaskStillInv, CopyOutInv DEF Task
<1>3. CASE UNCHANGED vars
  BY <1>3 DEF vars, writer, task, IInv, TypeOK, Through, Placed, Counted, Fits, Seen,
              Whole, Holds, InFull, Buffered
<1> QED
  BY <1>1, <1>2, <1>3 DEF Next, Finished

(***************************************************************************)
(* At all times, for every size of the ring and of the buffer: the shared  *)
(* counters of TCacheWriteStream fit together and the bytes that wait in   *)
(* the ring are whole.                                                     *)
(***************************************************************************)
THEOREM Inductive == Spec => []IInv
BY InitIInv, NextIInv, PTL DEF Spec

(***************************************************************************)
(* FUsedSize, which the two sides change without a lock, is what is in the *)
(* ring but for the portion one side has not published yet, the ring never *)
(* holds more than it has room for, and no byte in it is overwritten       *)
(* before the task has read it.                                            *)
(***************************************************************************)
THEOREM UsedSizeIsRight == Spec => []UsedSizeRight
<1>1. IInv => UsedSizeRight
  <2> SUFFICES ASSUME IInv PROVE UsedSizeRight
    OBVIOUS
  <2>1. pos2 - pos1 <= maxSize
    BY DEF IInv, TypeOK, Through, Placed
  <2> QED
    BY <2>1 DEF IInv, Counted, Whole, Holds, UsedSizeRight
<1> QED
  BY <1>1, Inductive, PTL

(***************************************************************************)
(* TCacheWriteStream is a queue of bytes: what EncData writes comes out of *)
(* FOutput in order, no byte twice and none invented.                      *)
(***************************************************************************)
THEOREM WritesInOrder == Spec => Fifo
<1>1. Init => Queue!Init
  BY DEF Init, Queue!Init
<1>2. IInv /\ [Next]_vars => [Queue!Next]_<<sent, delivered>>
  <2> SUFFICES ASSUME IInv, [Next]_vars, ~ UNCHANGED <<sent, delivered>>
               PROVE  Queue!Next
    OBVIOUS
  <2>1. sent \in Nat /\ Len(delivered) \in Nat /\ Len(delivered) <= sent
    BY DEF IInv, TypeOK, Through, Placed
  <2>2. CASE WriteThrough
    <3>1. Len(delivered) = sent
      BY <2>2, Sizes DEF WriteThrough, Buffered, IInv, TypeOK, Through
    <3>2. PICK n \in Nat : sent' = sent + n /\ delivered' = delivered \o Bytes(sent, n)
      BY <2>1, <2>2 DEF WriteThrough, IInv, TypeOK
    <3>3. n \in 0 .. sent' - Len(delivered) /\ sent' \in Nat /\ sent' >= sent
      BY <2>1, <3>1, <3>2
    <3> QED
      BY <3>1, <3>2, <3>3, SameBytes DEF Queue!Next
  <2>3. CASE CopyOut
    <3>1. sent' = sent
      BY <2>3 DEF CopyOut, writer
    <3>2. /\ Portion \in 0 .. sent - Len(delivered)
          /\ delivered' = delivered \o Queue!Bytes(Len(delivered), Portion)
      BY <2>3, CopyOutInv, SameBytes
    <3> QED
      BY <2>1, <3>1, <3>2 DEF Queue!Next
  <2>4. CASE Write
    <3>1. sent' \in Nat /\ sent' >= sent /\ UNCHANGED delivered
      BY <2>1, <2>4, Sizes DEF Write, task, IInv, TypeOK
    <3>2. delivered = delivered \o Queue!Bytes(Len(delivered), 0)
      <4>1. Numbers(Len(delivered), 0) = << >>
        BY DEF Numbers
      <4>2. delivered \in Seq(Nat)
        BY Delivered DEF IInv
      <4> QED
        BY <4>1, <4>2, SameBytes, ConcatEmptySeq
    <3>3. 0 \in 0 .. sent' - Len(delivered)
      BY <2>1, <3>1
    <3> QED
      BY <3>1, <3>2, <3>3 DEF Queue!Next
  <2> QED
    BY <2>2, <2>3, <2>4
    DEF Next, Writer, Task, Finished, vars, WriteFull, WriteNil, AwaitRoom, CopyIn, Publish,
        Destroy, SetDone, Join, Load, SeeDone, Leave, OutputError, Release, Check, writer, task
<1> QED
  BY <1>1, <1>2, Inductive, PTL DEF Spec, Fifo, Queue!Spec

=============================================================================
