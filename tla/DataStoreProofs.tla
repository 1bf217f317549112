--------------------------- MODULE DataStoreProofs ---------------------------
(***************************************************************************)
(* The window of the data store under EncData, for windows of any size and *)
(* inputs of any length: what is written out is the input, and when the    *)
(* slots are scanned each has its chunk and its lookahead.  The theorems   *)
(* are about Container's specification, whose other parts do not touch the *)
(* store.                                                                  *)
(*                                                                         *)
(* The products i * FSize are hidden behind Off(i); the argument needs     *)
(* that Off grows by FSize and nothing else of them.                       *)
(***************************************************************************)
EXTENDS Container, SequenceTheorems, TLAPS

\* The byte of the window that slot i begins with.
Off(i) == i * FSize

\* z, but no less than 0 and no more than n.
Clip(n, z) == IF z < 0 THEN 0 ELSE IF z < n THEN z ELSE n

\* The lesser of a and b.
AtMost(a, b) == IF a < b THEN a ELSE b

\* The size of FMemPtr.
WindowEnd == Off(FSlots + 1)

\* Where the window began when its last slot was filled last.
Base == positions[FSlots - 1] - Off(FSlots - 1)

\* Where it begins for the slots that LoadEx has moved on in this round.
Origin == IF findex = 0 THEN Base ELSE Base + Off(FSlots)

\* What of the window LoadEx has been through: all of it before the first.
Top == IF findex = 0 THEN WindowEnd ELSE Off(findex + 1)

\* The first byte of the input that no Fill has used.
Ahead == taken - (Len(temp) - tempPos)

\* Where EncData, and after it the decoder, may be.
Phases == {"scan", "emit", "load", "last", "done", "decode", "decoded"}

\* The types of the store's variables, and of the loop's.
WindowTypes ==
  /\ inputSize \in Nat /\ taken \in Nat /\ tempPos \in Nat /\ mpos \in Nat
  /\ temp \in Seq(Int) /\ mem \in [0 .. WindowEnd - 1 -> Int]
  /\ size \in [Slots -> Nat] /\ positions \in [Slots -> Int] /\ findex \in Slots

LoopTypes ==
  whole \in BOOLEAN /\ phase \in Phases /\ slot \in Slots /\ emitted \in Seq(Int)

\* FTemp has the bytes before taken; the tools of io/ do not use it.
TempInv ==
  /\ tempPos <= Len(temp) /\ Len(temp) <= taken /\ taken <= inputSize
  /\ \A j \in 1 .. Len(temp) : temp[j] = taken - Len(temp) + j - 1
  /\ whole => temp = <<>> /\ tempPos = 0

\* The slots that LoadEx has moved on are a window further.
PlaceInv ==
  /\ Base \in Nat
  /\ \A i \in Slots :
       positions[i] = Base + Off(i) + (IF i < findex THEN Off(FSlots) ELSE 0)

\* The window has been read as far as Top, or to the end of the input, and no
\* byte has been used that is not in it.
FillInv ==
  /\ mpos = Clip(Top, inputSize - Origin)
  /\ Ahead = AtMost(inputSize, Origin + Top)

\* What LoadEx has been through has the bytes of the window that begins at
\* Origin; what is behind it still has those of the one before.
MemInv ==
  /\ \A a \in 0 .. mpos - 1 : mem[a] = Origin + a
  /\ \A a \in Top .. WindowEnd - 1 : Base + a < inputSize => mem[a] = Base + a

\* Every slot has its chunk and its lookahead, as far as the input goes.
SizeInv == \A i \in Slots : size[i] = Clip(2 * FSize, inputSize - positions[i])

\* All of this is about the window alone, whatever EncData is at.
Window ==
  /\ WindowTypes /\ TempInv /\ PlaceInv /\ FillInv /\ MemInv /\ SizeInv

\* LoadEx is one slot behind the loop over the slots.
BehindInv ==
  /\ whole \/ phase \in {"scan", "done", "decode", "decoded"} => findex = 0
  /\ phase = "emit" /\ slot = 0 => findex = 0
  /\ phase = "emit" /\ slot > 0 /\ ~whole => findex = slot - 1
  /\ phase = "load" => ~whole /\ slot > 0 /\ findex = slot - 1
  /\ phase = "last" => slot = FSlots - 1 /\ (whole \/ findex = FSlots - 1)

\* What has been written out: the slots before the one the loop is at.
EmitInv ==
  /\ \A j \in 1 .. Len(emitted) : emitted[j] = j - 1
  /\ phase = "scan" => Len(emitted) = AtMost(inputSize, Base)
  /\ phase = "emit" => Len(emitted) = AtMost(inputSize, Base + Off(slot))
  /\ phase \in {"load", "last"} =>
       Len(emitted) = AtMost(inputSize, Base + Off(slot + 1))
  /\ phase = "done" => Len(emitted) = inputSize

\* The inductive invariant.
StoreInv == LoopTypes /\ Window /\ BehindInv /\ EmitInv

-----------------------------------------------------------------------------
(* The arithmetic of the window *)

\* The lesser of two integers.
LEMMA MinIs ==
  ASSUME NEW a \in Int, NEW b \in Int
  PROVE  Min({a, b}) = AtMost(a, b)
<1> DEFINE x == CHOOSE x \in {a, b} : \A y \in {a, b} : x <= y
<1>1. AtMost(a, b) \in {a, b} /\ \A y \in {a, b} : AtMost(a, b) <= y
  BY DEF AtMost
<1>2. x \in {a, b} /\ \A y \in {a, b} : x <= y
  BY <1>1
<1>3. x = AtMost(a, b)
  BY <1>1, <1>2
<1> QED
  BY <1>3 DEF Min

\* The greater of an integer and 0.
LEMMA MaxIs ==
  ASSUME NEW z \in Int
  PROVE  Max({0, z}) = IF z < 0 THEN 0 ELSE z
<1> DEFINE x == CHOOSE x \in {0, z} : \A y \in {0, z} : x >= y
           w == IF z < 0 THEN 0 ELSE z
<1>1. w \in {0, z} /\ \A y \in {0, z} : w >= y
  OBVIOUS
<1>2. x \in {0, z} /\ \A y \in {0, z} : x >= y
  BY <1>1
<1>3. x = w
  BY <1>1, <1>2
<1> QED
  BY <1>3 DEF Max

\* The form in which the code keeps a size between 0 and n.
LEMMA ClipIs ==
  ASSUME NEW n \in Nat, NEW z \in Int
  PROVE  Min({n, Max({0, z})}) = Clip(n, z)
<1> DEFINE w == IF z < 0 THEN 0 ELSE z
<1>1. Max({0, z}) = w /\ w \in Int
  BY MaxIs
<1>2. Min({n, w}) = AtMost(n, w)
  BY <1>1, MinIs
<1>3. AtMost(n, w) = Clip(n, z)
  BY DEF AtMost, Clip
<1> QED
  BY <1>1, <1>2, <1>3

\* A size that is kept between 0 and n.
LEMMA ClipFits ==
  ASSUME NEW n \in Nat, NEW z \in Int
  PROVE  Clip(n, z) \in Nat /\ Clip(n, z) <= n
BY DEF Clip

\* What of n bytes behind d is in a window that is filled as far as e or z.
LEMMA ClipOfClip ==
  ASSUME NEW n \in Nat, NEW d \in Nat, NEW e \in Nat, d + n <= e, NEW z \in Int
  PROVE  Clip(n, Clip(e, z) - d) = Clip(n, z - d)
BY DEF Clip

\* Off grows by FSize from chunk to chunk.
LEMMA OffFacts ==
  /\ FSize \in Nat /\ FSize > 0 /\ FSlots \in Nat /\ FSlots > 0
  /\ Off(0) = 0 /\ Off(1) = FSize
  /\ \A i \in Nat : Off(i) \in Nat /\ Off(i + 1) = Off(i) + FSize
  /\ Off(FSlots) \in Nat /\ WindowEnd = Off(FSlots) + FSize /\ WindowEnd \in Nat
<1>1. FSize \in Nat /\ FSize > 0 /\ FSlots \in Nat /\ FSlots > 0
  BY StoreAssumption
<1>2. \A i \in Nat : i * FSize \in Nat /\ (i + 1) * FSize = i * FSize + FSize
  BY <1>1
<1>3. \A i \in Nat : Off(i) \in Nat /\ Off(i + 1) = Off(i) + FSize
  BY <1>2 DEF Off
<1>4. Off(0) = 0 /\ Off(1) = FSize
  BY <1>1 DEF Off
<1> QED
  BY <1>1, <1>3, <1>4 DEF WindowEnd

\* The chunks do not overlap.
LEMMA OffGrows ==
  ASSUME NEW i \in Nat, NEW j \in Nat, i < j
  PROVE  Off(i) + FSize <= Off(j)
<1>1. FSize \in Nat
  BY OffFacts
<1>2. PICK k \in Nat : j = i + 1 + k
  <2>1. j - (i + 1) \in Nat /\ j = i + 1 + (j - (i + 1))
    OBVIOUS
  <2> QED
    BY <2>1
<1>3. k * FSize \in Nat
  BY <1>1
<1>4. (i + 1 + k) * FSize = i * FSize + FSize + k * FSize
  BY <1>1
<1> QED
  BY <1>1, <1>2, <1>3, <1>4 DEF Off

\* A slot lies in the window with its lookahead.
LEMMA SlotFits ==
  ASSUME NEW i \in Slots
  PROVE  /\ i \in Nat /\ i < FSlots /\ Off(i) \in Nat
         /\ Off(i + 1) = Off(i) + FSize
         /\ Off(i) + FSize <= Off(FSlots) /\ Off(i) + 2 * FSize <= WindowEnd
<1>1. i \in Nat /\ i < FSlots /\ FSlots \in Nat
  BY OffFacts DEF Slots
<1>2. Off(i) + FSize <= Off(FSlots)
  BY <1>1, OffGrows
<1> QED
  BY <1>1, <1>2, OffFacts

\* FMemData[i].Size is what the window has from Off(i) on, two chunks at most.
LEMMA SlotSizeIs ==
  ASSUME NEW i \in Slots, NEW p \in Int
  PROVE  SlotSize(i, p) = Clip(2 * FSize, p - Off(i))
<1>1. 2 * FSize \in Nat /\ p - Off(i) \in Int
  BY OffFacts, SlotFits
<1>2. Min({2 * FSize, Max({0, p - Off(i)})}) = Clip(2 * FSize, p - Off(i))
  BY <1>1, ClipIs
<1> QED
  BY <1>2 DEF SlotSize, Off

\* What moves to the front is what has been read behind the slots.
LEMMA KeptIs ==
  ASSUME mpos \in Nat
  PROVE  Kept = Clip(FSize, mpos - Off(FSlots))
<1>1. FSize \in Nat /\ mpos - Off(FSlots) \in Int
  BY OffFacts
<1>2. Min({FSize, Max({0, mpos - Off(FSlots)})}) = Clip(FSize, mpos - Off(FSlots))
  BY <1>1, ClipIs
<1> QED
  BY <1>2 DEF Kept, Off

-----------------------------------------------------------------------------
(* What is read into the window *)

\* What FMemPtr may hold.
Memory == [0 .. WindowEnd - 1 -> Int]

\* The bytes of the input from first on.
LEMMA BytesAre ==
  ASSUME NEW first \in Int, NEW n \in Nat
  PROVE  /\ Bytes(first, n) \in Seq(Int) /\ Len(Bytes(first, n)) = n
         /\ \A j \in 1 .. n : Bytes(first, n)[j] = first + j - 1
<1>1. \A j \in 1 .. n : first + j - 1 \in Int
  OBVIOUS
<1>2. Bytes(first, n) \in [1 .. n -> Int]
  BY <1>1 DEF Bytes
<1>3. Bytes(first, n) \in Seq(Int) /\ Len(Bytes(first, n)) = n
  BY <1>2, IsASeq, LenProperties
<1> QED
  BY <1>3 DEF Bytes

\* FMemStm.WriteBuffer of bytes of the input.
LEMMA PutIs ==
  ASSUME NEW m \in Memory, NEW p \in Nat, NEW b \in Int, NEW n \in Nat,
         NEW s \in Seq(Int), Len(s) = n, \A j \in 1 .. n : s[j] = b + j - 1
  PROVE  /\ Put(m, p, s) \in Memory
         /\ \A a \in 0 .. WindowEnd - 1 :
              Put(m, p, s)[a] = IF p <= a /\ a < p + n THEN b + a - p ELSE m[a]
<1>1. DOMAIN m = 0 .. WindowEnd - 1 /\ WindowEnd \in Nat
  BY OffFacts DEF Memory
<1>2. ASSUME NEW a \in 0 .. WindowEnd - 1
      PROVE  /\ Put(m, p, s)[a] = IF p <= a /\ a < p + n THEN b + a - p ELSE m[a]
             /\ Put(m, p, s)[a] \in Int
  <2>1. Put(m, p, s)[a] = IF a - p \in 0 .. n - 1 THEN s[a - p + 1] ELSE m[a]
    BY <1>1 DEF Put
  <2>2. CASE p <= a /\ a < p + n
    <3>1. a - p \in 0 .. n - 1 /\ a - p + 1 \in 1 .. n
      BY <1>1, <2>2
    <3>2. s[a - p + 1] = b + (a - p + 1) - 1
      BY <3>1
    <3> QED
      BY <1>1, <2>1, <2>2, <3>1, <3>2
  <2>3. CASE ~(p <= a /\ a < p + n)
    BY <1>1, <2>1, <2>3 DEF Memory
  <2> QED
    BY <2>2, <2>3
<1>3. Put(m, p, s) = [a \in 0 .. WindowEnd - 1 |-> Put(m, p, s)[a]]
  BY <1>1 DEF Put
<1> QED
  BY <1>2, <1>3 DEF Memory

\* The part of the lookahead that is kept is moved, the rest stays.
LEMMA MovedIs ==
  ASSUME mem \in Memory, NEW k \in Nat, k = Kept, k <= FSize
  PROVE  /\ MoveToFront(mem) \in Memory
         /\ \A a \in 0 .. k - 1 : MoveToFront(mem)[a] = mem[Off(FSlots) + a]
         /\ \A a \in k .. WindowEnd - 1 : MoveToFront(mem)[a] = mem[a]
<1> DEFINE s == [j \in 1 .. k |-> mem[Off(FSlots) + j - 1]]
<1>1. DOMAIN mem = 0 .. WindowEnd - 1 /\ WindowEnd \in Nat
  BY OffFacts DEF Memory
<1>2. \A j \in 1 .. k : Off(FSlots) + j - 1 \in 0 .. WindowEnd - 1
  BY OffFacts
<1>3. \A j \in 1 .. k : mem[Off(FSlots) + j - 1] \in Int
  BY <1>2 DEF Memory
<1>4. s \in [1 .. k -> Int]
  BY <1>3
<1>5. Len(s) = k
  BY <1>4, IsASeq, LenProperties
<1>6. MoveToFront(mem) = Put(mem, 0, s)
  BY DEF MoveToFront, Off
<1>7. ASSUME NEW a \in 0 .. WindowEnd - 1
      PROVE  /\ a < k => Put(mem, 0, s)[a] = mem[Off(FSlots) + a]
             /\ a >= k => Put(mem, 0, s)[a] = mem[a]
             /\ Put(mem, 0, s)[a] \in Int
  <2>1. Put(mem, 0, s)[a] = IF a - 0 \in 0 .. k - 1 THEN s[a - 0 + 1] ELSE mem[a]
    BY <1>1, <1>5 DEF Put
  <2>2. a < k => s[a + 1] = mem[Off(FSlots) + (a + 1) - 1]
    BY <1>1
  <2>3. Off(FSlots) + (a + 1) - 1 = Off(FSlots) + a /\ a - 0 = a
    BY <1>1, OffFacts
  <2>4. a < k => Put(mem, 0, s)[a] = mem[Off(FSlots) + a]
    BY <1>1, <2>1, <2>2, <2>3
  <2>5. a >= k => Put(mem, 0, s)[a] = mem[a]
    BY <1>1, <2>1, <2>3
  <2>6. a < k => Off(FSlots) + a \in 0 .. WindowEnd - 1
    <3>1. a \in Nat /\ k <= FSize
      BY <1>1
    <3> QED
      BY <3>1, OffFacts
  <2> QED
    BY <1>1, <2>4, <2>5, <2>6 DEF Memory
<1>8. Put(mem, 0, s) = [a \in 0 .. WindowEnd - 1 |-> Put(mem, 0, s)[a]]
  BY <1>1 DEF Put
<1>9. \A a \in 0 .. k - 1 : a \in 0 .. WindowEnd - 1
  BY OffFacts
<1>10. \A a \in k .. WindowEnd - 1 : a \in 0 .. WindowEnd - 1
  OBVIOUS
<1> QED
  BY <1>6, <1>7, <1>8, <1>9, <1>10 DEF Memory

\* From p up to w, or to the end of the input, the window has got the bytes
\* that come next.
ReadIn(m, p, w) ==
  \E n \in Nat :
    /\ n <= w - p /\ n <= inputSize - Ahead
    /\ n = w - p \/ n = inputSize - Ahead
    /\ mpos' = p + n /\ Ahead' = Ahead + n
    /\ \A a \in 0 .. WindowEnd - 1 :
         mem'[a] = IF p <= a /\ a < p + n THEN Ahead + a - p ELSE m[a]

\* What Fill reads are the next bytes of the input that no Fill has used: those
\* of FTemp are the ones before those that are still in the input.
LEMMA FillIs ==
  ASSUME WindowTypes, TempInv, NEW m \in Memory, NEW p \in Nat, NEW w \in Nat, p <= w,
         Fill(m, p, w), whole' = whole
  PROVE  /\ inputSize' = inputSize /\ temp' \in Seq(Int) /\ tempPos' \in Nat
         /\ taken' \in Nat /\ mpos' \in Nat /\ mem' \in Memory
         /\ TempInv'
         /\ ReadIn(m, p, w)
<1> DEFINE left == Len(temp) - tempPos
           old == AtMost(w - p, left)
           new == AtMost(w - p - old, inputSize - taken)
           used == SubSeq(temp, tempPos + 1, tempPos + old)
           s == used \o Bytes(taken, new)
<1>1. /\ inputSize \in Nat /\ taken \in Nat /\ tempPos \in Nat /\ temp \in Seq(Int)
      /\ Len(temp) \in Nat
      /\ tempPos <= Len(temp) /\ Len(temp) <= taken /\ taken <= inputSize
      /\ \A j \in 1 .. Len(temp) : temp[j] = taken - Len(temp) + j - 1
      /\ whole => temp = <<>> /\ tempPos = 0
  BY DEF WindowTypes, TempInv
<1>2. /\ left \in Nat /\ w - p \in Nat /\ inputSize - taken \in Nat
      /\ Ahead = taken - left /\ Ahead \in Nat
  BY <1>1 DEF Ahead
<1>3. /\ old \in Nat /\ old <= w - p /\ old <= left
      /\ old = w - p \/ old = left
  BY <1>2 DEF AtMost
<1>4. /\ new \in Nat /\ new <= w - p - old /\ new <= inputSize - taken
      /\ new = w - p - old \/ new = inputSize - taken
  BY <1>2, <1>3 DEF AtMost
<1>5. Min({w - p, left}) = old
  BY <1>2, MinIs
<1>6. Min({w - p - old, inputSize - taken}) = new
  BY <1>2, <1>3, MinIs
<1>7. /\ mem' = Put(m, p, s) /\ mpos' = p + old + new /\ taken' = taken + new
      /\ IF tempPos + old = Len(temp) THEN temp' = <<>> /\ tempPos' = 0
         ELSE tempPos' = tempPos + old /\ temp' = temp
      /\ inputSize' = inputSize
  <2> HIDE DEF old, new
  <2> QED
    BY <1>5, <1>6 DEF Fill
<1> HIDE DEF old, new
<1>8. /\ used \in Seq(Int) /\ Len(used) = old
      /\ \A j \in 1 .. old : used[j] = taken - left + j - 1
  <2>1. tempPos + 1 \in Nat /\ tempPos + old \in Nat /\ tempPos + old <= Len(temp)
    BY <1>1, <1>2, <1>3
  <2>2. used \in Seq(Int) /\ Len(used) = old
    BY <1>1, <1>3, <2>1
  <2>3. ASSUME NEW j \in 1 .. old
        PROVE  used[j] = taken - left + j - 1
    <3>1. tempPos + j \in 1 .. Len(temp)
      BY <1>1, <1>3, <2>1
    <3>2. used[j] = temp[tempPos + j]
      BY <1>1, <1>3, <2>1, <3>1
    <3>3. temp[tempPos + j] = taken - Len(temp) + (tempPos + j) - 1
      BY <1>1, <3>1
    <3> QED
      BY <1>1, <1>3, <3>2, <3>3
  <2> QED
    BY <2>2, <2>3
<1> HIDE DEF used
<1>9. /\ s \in Seq(Int) /\ Len(s) = old + new
      /\ \A j \in 1 .. old + new : s[j] = Ahead + j - 1
  <2>1. /\ Bytes(taken, new) \in Seq(Int) /\ Len(Bytes(taken, new)) = new
        /\ \A j \in 1 .. new : Bytes(taken, new)[j] = taken + j - 1
    BY <1>1, <1>4, BytesAre
  <2>2. /\ s \in Seq(Int) /\ Len(s) = old + new
        /\ \A j \in 1 .. old + new :
             s[j] = IF j <= old THEN used[j] ELSE Bytes(taken, new)[j - old]
    <3> DEFINE rest == Bytes(taken, new)
    <3>1. rest \in Seq(Int) /\ Len(rest) = new
      BY <2>1
    <3> HIDE DEF rest
    <3>2. /\ used \o rest \in Seq(Int)
          /\ Len(used \o rest) = Len(used) + Len(rest)
          /\ \A j \in 1 .. Len(used) + Len(rest) :
               (used \o rest)[j] = IF j <= Len(used) THEN used[j] ELSE rest[j - Len(used)]
      BY <1>8, <3>1, ConcatProperties
    <3> QED
      BY <1>8, <3>1, <3>2 DEF rest
  <2> HIDE DEF s
  <2>3. ASSUME NEW j \in 1 .. old + new
        PROVE  s[j] = Ahead + j - 1
    <3>1. CASE j <= old
      <4>1. j \in 1 .. old
        BY <1>3, <1>4, <3>1
      <4>2. s[j] = used[j]
        BY <2>2, <3>1
      <4> QED
        BY <1>2, <1>8, <4>1, <4>2
    <3>2. CASE j > old
      <4>1. j - old \in 1 .. new
        BY <1>3, <1>4, <3>2
      <4>2. s[j] = Bytes(taken, new)[j - old]
        BY <1>3, <2>2, <3>2
      <4>3. s[j] = taken + (j - old) - 1
        BY <2>1, <4>1, <4>2
      <4>4. old = left
        BY <1>2, <1>3, <1>4, <4>1
      <4> QED
        BY <1>1, <1>2, <1>3, <4>3, <4>4
    <3> QED
      BY <1>3, <1>4, <3>1, <3>2
  <2> QED
    BY <2>2, <2>3
<1> HIDE DEF s
<1>10. /\ Put(m, p, s) \in Memory
       /\ \A a \in 0 .. WindowEnd - 1 :
            Put(m, p, s)[a] = IF p <= a /\ a < p + (old + new) THEN Ahead + a - p ELSE m[a]
  <2>1. Ahead \in Int /\ old + new \in Nat
    BY <1>2, <1>3, <1>4
  <2> QED
    BY <1>9, <2>1, PutIs
<1>11. /\ temp' \in Seq(Int) /\ tempPos' \in Nat /\ taken' \in Nat /\ mpos' \in Nat
       /\ mem' \in Memory
  <2>1. tempPos' \in Nat /\ taken' \in Nat /\ mpos' \in Nat
    BY <1>1, <1>3, <1>4, <1>7
  <2>2. <<>> \in Seq(Int)
    OBVIOUS
  <2>3. temp' = <<>> \/ temp' = temp
    BY <1>7
  <2> QED
    BY <1>1, <1>7, <1>10, <2>1, <2>2, <2>3
<1>12. /\ TempInv' /\ Ahead' = Ahead + old + new
  <2>1. CASE tempPos + old = Len(temp)
    <3>1. temp' = <<>> /\ tempPos' = 0 /\ Len(temp') = 0 /\ old = left
      BY <1>1, <1>3, <1>7, <2>1
    <3>2. Ahead' = Ahead + old + new
      BY <1>1, <1>2, <1>3, <1>4, <1>7, <3>1 DEF Ahead
    <3> QED
      BY <1>1, <1>4, <1>7, <3>1, <3>2 DEF TempInv
  <2>2. CASE tempPos + old # Len(temp)
    <3>1. tempPos' = tempPos + old /\ temp' = temp
      BY <1>7, <2>2
    <3>2. old # left
      BY <1>1, <1>3, <2>2
    <3>3. new = 0
      BY <1>2, <1>3, <1>4, <3>2
    <3>4. taken' = taken
      BY <1>1, <1>7, <3>3
    <3>5. Ahead' = Ahead + old + new
      BY <1>1, <1>2, <1>3, <3>1, <3>3, <3>4 DEF Ahead
    <3>6. tempPos + old <= Len(temp)
      BY <1>1, <1>2, <1>3
    <3>7. whole => FALSE
      BY <1>1, <1>3, <2>2, <3>6
    <3> QED
      BY <1>1, <1>7, <3>1, <3>4, <3>5, <3>6, <3>7 DEF TempInv
  <2> QED
    BY <2>1, <2>2
<1>13. /\ old + new \in Nat /\ old + new <= w - p /\ old + new <= inputSize - Ahead
       /\ old + new = w - p \/ old + new = inputSize - Ahead
       /\ mpos' = p + (old + new) /\ Ahead' = Ahead + (old + new)
  <2>1. PICK a \in Nat, k \in Nat, x \in Nat, r \in Nat :
          a = Ahead /\ k = w - p /\ x = left /\ r = inputSize - taken
    BY <1>2
  <2>2. PICK i \in Nat, j \in Nat : i = old /\ j = new
    BY <1>3, <1>4
  <2>3. inputSize - Ahead = r + x
    BY <1>1, <1>2, <2>1
  <2>4. /\ i <= k /\ i <= x /\ (i = k \/ i = x)
        /\ j <= k - i /\ j <= r /\ (j = k - i \/ j = r)
    BY <1>3, <1>4, <2>1, <2>2
  <2>5. i + j \in Nat /\ i + j <= k /\ i + j <= r + x /\ (i + j = k \/ i + j = r + x)
    BY <2>4
  <2>6. mpos' = p + (i + j)
    <3>1. mpos' = p + i + j
      BY <1>7, <2>2
    <3> QED
      BY <3>1
  <2>7. Ahead' = a + (i + j)
    <3>1. Ahead' = a + i + j
      BY <1>12, <2>1, <2>2
    <3> QED
      BY <3>1
  <2> QED
    BY <2>1, <2>2, <2>3, <2>5, <2>6, <2>7
<1>14. ReadIn(m, p, w)
  BY <1>7, <1>10, <1>13 DEF ReadIn
<1> QED
  BY <1>7, <1>11, <1>12, <1>14

\* The window that begins at o has been read up to t; what is behind t is what
\* was in m.
Refilled(m, o, t) ==
  /\ inputSize' = inputSize /\ temp' \in Seq(Int) /\ tempPos' \in Nat
  /\ taken' \in Nat /\ mpos' \in Nat /\ mem' \in Memory
  /\ TempInv'
  /\ mpos' = Clip(t, inputSize - o) /\ Ahead' = AtMost(inputSize, o + t)
  /\ \A a \in 0 .. mpos' - 1 : mem'[a] = o + a
  /\ \A a \in t .. WindowEnd - 1 : mem'[a] = m[a]

\* A refill of the window that begins at o and has been read up to t0, with w
\* the place up to which it is to be read: afterwards it has been read up to t.
LEMMA RefillIs ==
  ASSUME WindowTypes, TempInv, whole' = whole,
         NEW m \in Memory, NEW p \in Nat, NEW w \in Nat, NEW o \in Nat,
         NEW t0 \in Nat, NEW t \in Nat, t0 <= t, t <= WindowEnd, p <= w,
         p = Clip(t0, inputSize - o), p = t0 => w = t,
         Ahead = AtMost(inputSize, o + t0),
         \A a \in 0 .. p - 1 : m[a] = o + a,
         Fill(m, p, w)
  PROVE  Refilled(m, o, t)
<1>1. /\ inputSize' = inputSize /\ temp' \in Seq(Int) /\ tempPos' \in Nat
      /\ taken' \in Nat /\ mpos' \in Nat /\ mem' \in Memory
      /\ TempInv'
      /\ ReadIn(m, p, w)
  BY FillIs
<1>2. PICK n \in Nat :
        /\ n <= w - p /\ n <= inputSize - Ahead
        /\ n = w - p \/ n = inputSize - Ahead
        /\ mpos' = p + n /\ Ahead' = Ahead + n
        /\ \A a \in 0 .. WindowEnd - 1 :
             mem'[a] = IF p <= a /\ a < p + n THEN Ahead + a - p ELSE m[a]
  BY <1>1 DEF ReadIn
<1>3. inputSize \in Nat /\ WindowEnd \in Nat
  BY OffFacts DEF WindowTypes
<1>4. CASE inputSize - o >= t0
  <2>1. p = t0 /\ w = t /\ Ahead = o + t0
    BY <1>3, <1>4 DEF Clip, AtMost
  <2>2. mpos' = Clip(t, inputSize - o)
    BY <1>2, <1>3, <1>4, <2>1 DEF Clip
  <2>3. Ahead' = AtMost(inputSize, o + t)
    BY <1>2, <1>3, <1>4, <2>1 DEF AtMost
  <2>4. p + n <= t
    BY <1>2, <2>1
  <2>5. ASSUME NEW a \in 0 .. mpos' - 1
        PROVE  mem'[a] = o + a
    <3>1. a \in 0 .. WindowEnd - 1 /\ a < p + n /\ a \in Nat
      BY <1>2, <1>3, <2>4
    <3>2. mem'[a] = IF p <= a /\ a < p + n THEN Ahead + a - p ELSE m[a]
      BY <1>2, <3>1
    <3>3. CASE p <= a
      BY <2>1, <3>1, <3>2, <3>3
    <3>4. CASE ~(p <= a)
      <4>1. a \in 0 .. p - 1
        BY <3>1, <3>4
      <4> QED
        BY <3>2, <3>4, <4>1
    <3> QED
      BY <3>3, <3>4
  <2>6. ASSUME NEW a \in t .. WindowEnd - 1
        PROVE  mem'[a] = m[a]
    <3>1. a \in 0 .. WindowEnd - 1 /\ ~(a < p + n)
      BY <2>4
    <3> QED
      BY <1>2, <3>1
  <2> QED
    BY <1>1, <2>2, <2>3, <2>5, <2>6 DEF Refilled
<1>5. CASE ~(inputSize - o >= t0)
  <2>1. Ahead = inputSize /\ n = 0
    BY <1>2, <1>3, <1>5 DEF AtMost
  <2>3. mpos' = p /\ Ahead' = inputSize
    BY <1>2, <1>3, <2>1
  <2>4. mpos' = Clip(t, inputSize - o) /\ Ahead' = AtMost(inputSize, o + t)
    BY <1>3, <1>5, <2>3 DEF Clip, AtMost
  <2>5. p <= t
    BY <1>3, <1>5 DEF Clip
  <2>6. \A a \in 0 .. WindowEnd - 1 : mem'[a] = m[a]
    BY <1>2, <2>1
  <2>7. ASSUME NEW a \in 0 .. mpos' - 1
        PROVE  mem'[a] = o + a
    <3>1. a \in 0 .. WindowEnd - 1 /\ a \in 0 .. p - 1
      BY <1>3, <2>3, <2>5
    <3> QED
      BY <2>6, <3>1
  <2>8. \A a \in t .. WindowEnd - 1 : a \in 0 .. WindowEnd - 1
    OBVIOUS
  <2> QED
    BY <1>1, <2>4, <2>6, <2>7, <2>8 DEF Refilled
<1> QED
  BY <1>4, <1>5

-----------------------------------------------------------------------------
(* LoadEx and Load *)

\* The window that LoadEx and Load fill, whether its first part is there yet
\* or not.
NextOrigin == Base + Off(FSlots)

\* When the window is whole, its lookahead becomes the first chunk of the next.
LEMMA FrontMoved ==
  ASSUME Window, findex = 0, NEW k, k = Kept, NEW t \in Nat, FSize <= t
  PROVE  /\ k \in Nat /\ k <= FSize /\ k = Clip(FSize, inputSize - NextOrigin)
         /\ Ahead = AtMost(inputSize, NextOrigin + FSize)
         /\ MoveToFront(mem) \in Memory
         /\ \A a \in 0 .. k - 1 : MoveToFront(mem)[a] = NextOrigin + a
         /\ \A a \in t .. WindowEnd - 1 : MoveToFront(mem)[a] = mem[a]
<1>1. /\ inputSize \in Nat /\ mpos \in Nat /\ mem \in Memory /\ Base \in Nat
      /\ FSize \in Nat /\ Off(FSlots) \in Nat /\ WindowEnd = Off(FSlots) + FSize
      /\ FillInv /\ MemInv
  BY OffFacts DEF Window, WindowTypes, PlaceInv, Memory
<1>2. k = Clip(FSize, mpos - Off(FSlots))
  BY <1>1, KeptIs
<1>3. k \in Nat /\ k <= FSize
  BY <1>1, <1>2 DEF Clip
<1>4. mpos = Clip(WindowEnd, inputSize - Base) /\ Ahead = AtMost(inputSize, Base + WindowEnd)
  BY <1>1 DEF FillInv, Origin, Top
<1>5. k = Clip(FSize, inputSize - NextOrigin)
  BY <1>1, <1>2, <1>4 DEF Clip, NextOrigin
<1>6. Ahead = AtMost(inputSize, NextOrigin + FSize)
  BY <1>1, <1>4 DEF AtMost, NextOrigin
<1>7. /\ MoveToFront(mem) \in Memory
      /\ \A a \in 0 .. k - 1 : MoveToFront(mem)[a] = mem[Off(FSlots) + a]
      /\ \A a \in k .. WindowEnd - 1 : MoveToFront(mem)[a] = mem[a]
  BY <1>1, <1>3, MovedIs
<1>8. ASSUME NEW a \in 0 .. k - 1
      PROVE  MoveToFront(mem)[a] = NextOrigin + a
  <2>1. Off(FSlots) + a \in 0 .. mpos - 1
    BY <1>1, <1>2 DEF Clip
  <2>2. mem[Off(FSlots) + a] = Base + (Off(FSlots) + a)
    BY <1>1, <2>1 DEF MemInv, Origin
  <2> QED
    BY <1>1, <1>7, <2>2 DEF NextOrigin
<1>9. \A a \in t .. WindowEnd - 1 : MoveToFront(mem)[a] = mem[a]
  BY <1>1, <1>3, <1>7
<1> QED
  BY <1>3, <1>5, <1>6, <1>7, <1>8, <1>9

\* What LoadEx reads is the chunk that is the lookahead of the slot at FIndex.
LEMMA LoadExReads ==
  ASSUME Window, LoadEx, whole' = whole, NEW t \in Nat, t = Off(findex + 2)
  PROVE  Refilled(mem, NextOrigin, t)
<1> DEFINE o == NextOrigin
           t0 == Off(findex + 1)
<1>1. /\ WindowTypes /\ TempInv /\ PlaceInv /\ FillInv /\ MemInv
      /\ inputSize \in Nat /\ mpos \in Nat /\ mem \in Memory /\ Base \in Nat
      /\ findex \in Slots
  BY DEF Window, WindowTypes, PlaceInv, Memory
<1>2. /\ findex \in Nat /\ findex < FSlots /\ t0 \in Nat /\ t = t0 + FSize
      /\ t <= WindowEnd /\ WindowEnd \in Nat /\ FSize \in Nat /\ o \in Nat
  <2>1. findex \in Nat /\ findex < FSlots /\ findex + 1 \in Nat /\ findex + 1 + 1 = findex + 2
    BY <1>1, SlotFits
  <2>2. t0 \in Nat /\ t = t0 + FSize /\ t0 = Off(findex) + FSize
    BY <2>1, OffFacts
  <2>3. t <= WindowEnd
    <3>1. Off(findex) + 2 * FSize <= WindowEnd /\ Off(findex) \in Nat /\ FSize \in Nat
      BY <1>1, SlotFits, OffFacts
    <3>2. t = Off(findex) + FSize + FSize
      BY <2>2
    <3> HIDE DEF t0
    <3> QED
      BY <3>1, <3>2
  <2> QED
    BY <1>1, <2>1, <2>2, <2>3, OffFacts DEF NextOrigin
<1>3. CASE findex = 0
  <2>1. PICK k \in Nat : k = Kept /\ k <= FSize
    BY <1>2, <1>3, FrontMoved
  <2>2. Fill(MoveToFront(mem), k, k + FSize)
    BY <1>3, <2>1 DEF LoadEx
  <2>3. t0 = FSize
    BY <1>3, OffFacts
  <2>4. /\ k = Clip(t0, inputSize - o) /\ Ahead = AtMost(inputSize, o + t0)
        /\ MoveToFront(mem) \in Memory
        /\ \A a \in 0 .. k - 1 : MoveToFront(mem)[a] = o + a
        /\ \A a \in t .. WindowEnd - 1 : MoveToFront(mem)[a] = mem[a]
    BY <1>2, <1>3, <2>1, <2>3, FrontMoved
  <2>5. k + FSize \in Nat /\ k <= k + FSize /\ t0 <= t /\ (k = t0 => k + FSize = t)
    BY <1>2, <2>1
  <2> HIDE DEF o, t0
  <2>6. Refilled(MoveToFront(mem), o, t)
    BY <1>1, <1>2, <2>1, <2>2, <2>4, <2>5, RefillIs
  <2> QED
    BY <2>4, <2>6 DEF o, Refilled
<1>4. CASE findex # 0
  <2>1. Fill(mem, mpos, mpos + FSize)
    BY <1>4 DEF LoadEx
  <2>2. mpos = Clip(t0, inputSize - o) /\ Ahead = AtMost(inputSize, o + t0)
    BY <1>1, <1>4 DEF FillInv, Origin, Top, NextOrigin
  <2>3. \A a \in 0 .. mpos - 1 : mem[a] = o + a
    BY <1>1, <1>4 DEF MemInv, Origin, NextOrigin
  <2>4. /\ mpos + FSize \in Nat /\ mpos <= mpos + FSize /\ t0 <= t
        /\ mpos = t0 => mpos + FSize = t
    BY <1>1, <1>2
  <2> HIDE DEF o, t0
  <2>5. Refilled(mem, o, t)
    BY <1>1, <1>2, <2>1, <2>2, <2>3, <2>4, RefillIs
  <2> QED
    BY <2>5 DEF o, Refilled
<1> QED
  BY <1>3, <1>4

\* Load reads the rest of the next window.
LEMMA LoadReads ==
  ASSUME Window, findex = 0, Load, whole' = whole
  PROVE  Refilled(mem, NextOrigin, WindowEnd)
<1> DEFINE o == NextOrigin
           t == WindowEnd
<1>1. /\ WindowTypes /\ TempInv /\ PlaceInv
      /\ inputSize \in Nat /\ Base \in Nat
      /\ t \in Nat /\ FSize \in Nat /\ FSize <= t /\ o \in Nat
  <2>1. WindowTypes /\ TempInv /\ PlaceInv /\ inputSize \in Nat /\ Base \in Nat
    BY DEF Window, WindowTypes, PlaceInv
  <2>2. t \in Nat /\ FSize \in Nat /\ FSize <= t /\ Off(FSlots) \in Nat
    BY OffFacts
  <2> QED
    BY <2>1, <2>2 DEF NextOrigin
<1>2. PICK k \in Nat : k = Kept /\ k <= FSize
  BY <1>1, FrontMoved
<1>3. Fill(MoveToFront(mem), k, t)
  BY <1>2 DEF Load, WindowEnd, Off
<1>4. /\ k = Clip(FSize, inputSize - o) /\ Ahead = AtMost(inputSize, o + FSize)
      /\ MoveToFront(mem) \in Memory
      /\ \A a \in 0 .. k - 1 : MoveToFront(mem)[a] = o + a
      /\ \A a \in t .. WindowEnd - 1 : MoveToFront(mem)[a] = mem[a]
  BY <1>1, <1>2, FrontMoved
<1>5. k <= t
  BY <1>1, <1>2
<1> HIDE DEF o
<1>6. Refilled(MoveToFront(mem), o, t)
  BY <1>1, <1>2, <1>3, <1>4, <1>5, RefillIs
<1> QED
  BY <1>4, <1>6 DEF o, Refilled

\* LoadEx keeps the window: the slot at FIndex is a window further on.
LEMMA LoadExKeeps ==
  ASSUME Window, LoadEx, whole' = whole
  PROVE  /\ Window'
         /\ findex' = IF findex + 1 = FSlots THEN 0 ELSE findex + 1
         /\ Base' = IF findex + 1 = FSlots THEN NextOrigin ELSE Base
<1> DEFINE t == Off(findex + 2)
           i0 == findex
<1>1. /\ WindowTypes /\ PlaceInv /\ MemInv /\ FillInv /\ SizeInv
      /\ inputSize \in Nat /\ Base \in Nat /\ Base \in Int /\ findex \in Slots
      /\ positions \in [Slots -> Int] /\ size \in [Slots -> Nat]
  BY DEF Window, WindowTypes, PlaceInv
<1>2. /\ findex \in Nat /\ findex < FSlots /\ FSlots \in Nat /\ FSize \in Nat
      /\ Off(findex) \in Nat /\ Off(FSlots) \in Nat /\ NextOrigin \in Nat
      /\ t = Off(findex) + 2 * FSize /\ t \in Nat /\ t <= WindowEnd
      /\ WindowEnd = Off(FSlots) + FSize /\ WindowEnd \in Nat
      /\ FSlots - 1 \in Slots
  <2>1. /\ findex \in Nat /\ findex < FSlots /\ Off(findex) \in Nat
        /\ Off(findex + 1) = Off(findex) + FSize
        /\ Off(findex) + 2 * FSize <= WindowEnd
    BY <1>1, SlotFits
  <2>2. findex + 1 \in Nat /\ findex + 1 + 1 = findex + 2
    BY <2>1
  <2>3. t = Off(findex) + FSize + FSize
    BY <2>1, <2>2, OffFacts
  <2>4. FSlots - 1 \in Slots
    BY OffFacts DEF Slots
  <2> HIDE DEF t
  <2> QED
    BY <1>1, <2>1, <2>3, <2>4, OffFacts DEF NextOrigin
<1> HIDE DEF t
<1>3. /\ inputSize' = inputSize /\ temp' \in Seq(Int) /\ tempPos' \in Nat
      /\ taken' \in Nat /\ mpos' \in Nat /\ mem' \in Memory
      /\ TempInv'
      /\ mpos' = Clip(t, inputSize - NextOrigin) /\ Ahead' = AtMost(inputSize, NextOrigin + t)
      /\ \A a \in 0 .. mpos' - 1 : mem'[a] = NextOrigin + a
      /\ \A a \in t .. WindowEnd - 1 : mem'[a] = mem[a]
  BY <1>2, LoadExReads DEF t, Refilled
<1>4. /\ findex' = IF findex + 1 = FSlots THEN 0 ELSE findex + 1
      /\ positions' = [positions EXCEPT ![findex] = @ + FSlots * FSize]
      /\ size' = [size EXCEPT ![findex] = SlotSize(findex, mpos')]
  BY DEF LoadEx
<1>5. findex' \in Slots
  BY <1>2, <1>4 DEF Slots
<1>6. /\ positions' \in [Slots -> Int]
      /\ positions'[findex] = NextOrigin + Off(findex)
      /\ \A i \in Slots : i # findex => positions'[i] = positions[i]
  <2>1. Off(FSlots) = FSlots * FSize
    BY DEF Off
  <2>2. positions' = [positions EXCEPT ![findex] = @ + Off(FSlots)]
    BY <1>4, <2>1
  <2>3. positions[findex] = Base + Off(findex)
    BY <1>1, <1>2 DEF PlaceInv
  <2> QED
    BY <1>1, <1>2, <2>2, <2>3 DEF NextOrigin
<1>7. Base' = IF findex + 1 = FSlots THEN NextOrigin ELSE Base
  <2>1. Base' = positions'[FSlots - 1] - Off(FSlots - 1)
    BY DEF Base, Off
  <2>2. CASE findex = FSlots - 1
    BY <1>2, <1>6, <2>1, <2>2
  <2>3. CASE findex # FSlots - 1
    <3>1. positions'[FSlots - 1] = positions[FSlots - 1]
      BY <1>2, <1>6, <2>3
    <3> QED
      BY <1>2, <2>1, <2>3, <3>1 DEF Base
  <2> QED
    BY <2>2, <2>3
<1>8. PlaceInv'
  <2>1. ASSUME NEW i \in Slots
        PROVE  positions'[i] = Base' + Off(i) + (IF i < findex' THEN Off(FSlots) ELSE 0)
    <3>1. /\ positions[i] = Base + Off(i) + (IF i < findex THEN Off(FSlots) ELSE 0)
          /\ i \in Nat /\ i < FSlots /\ Off(i) \in Nat
      BY <1>1, SlotFits DEF PlaceInv
    <3>2. CASE i = findex
      BY <1>1, <1>2, <1>4, <1>6, <1>7, <3>1, <3>2 DEF NextOrigin
    <3>3. CASE i # findex
      BY <1>1, <1>2, <1>4, <1>6, <1>7, <3>1, <3>3 DEF NextOrigin
    <3> QED
      BY <3>2, <3>3
  <2>2. Base' \in Nat
    BY <1>1, <1>2, <1>7
  <2> QED
    BY <2>1, <2>2 DEF PlaceInv, Off
<1>9. Origin' = NextOrigin /\ Top' = t
  <2>1. Origin' = IF findex' = 0 THEN Base' ELSE Base' + Off(FSlots)
    BY DEF Origin, Off
  <2>2. Top' = IF findex' = 0 THEN WindowEnd ELSE Off(findex' + 1)
    BY DEF Top, Off, WindowEnd
  <2>3. CASE findex + 1 = FSlots
    <3>1. findex' = 0 /\ Base' = NextOrigin
      BY <1>4, <1>7, <2>3
    <3>2. t = WindowEnd
      BY <1>2, <2>3 DEF t, WindowEnd
    <3> QED
      BY <2>1, <2>2, <3>1, <3>2
  <2>4. CASE findex + 1 # FSlots
    <3>1. findex' = findex + 1 /\ findex' # 0 /\ Base' = Base /\ findex' + 1 = findex + 2
      BY <1>2, <1>4, <1>7, <2>4
    <3> QED
      BY <2>1, <2>2, <3>1 DEF t, NextOrigin
  <2> QED
    BY <2>3, <2>4
<1>10. FillInv'
  BY <1>3, <1>9 DEF FillInv
<1>11. MemInv'
  <2>1. \A a \in 0 .. mpos' - 1 : mem'[a] = Origin' + a
    BY <1>3, <1>9
  <2>2. ASSUME NEW a \in Top' .. WindowEnd - 1, Base' + a < inputSize'
        PROVE  mem'[a] = Base' + a
    <3>1. a \in t .. WindowEnd - 1 /\ mem'[a] = mem[a] /\ a \in Int
      BY <1>2, <1>3, <1>9
    <3>2. findex + 1 # FSlots
      <4> SUFFICES ASSUME findex + 1 = FSlots PROVE FALSE
        OBVIOUS
      <4>1. t = WindowEnd
        BY <1>2 DEF t, WindowEnd
      <4> QED
        BY <1>2, <3>1, <4>1
    <3>3. Base' = Base
      BY <1>7, <3>2
    <3>4. CASE findex = 0
      <4>1. mpos = Clip(WindowEnd, inputSize - Base) /\ Origin = Base
        BY <1>1, <3>4 DEF FillInv, Origin, Top
      <4>2. a \in 0 .. mpos - 1
        BY <1>1, <1>2, <1>3, <2>2, <3>1, <3>3, <4>1 DEF Clip
      <4>3. mem[a] = Base + a
        BY <1>1, <4>1, <4>2 DEF MemInv
      <4> QED
        BY <3>1, <3>3, <4>3
    <3>5. CASE findex # 0
      <4>1. Top = Off(findex + 1) /\ Off(findex + 1) = Off(findex) + FSize
        BY <1>1, <3>5, SlotFits DEF Top
      <4>2. a \in Top .. WindowEnd - 1
        BY <1>2, <3>1, <4>1
      <4>3. mem[a] = Base + a
        BY <1>1, <1>3, <2>2, <3>3, <4>2 DEF MemInv
      <4> QED
        BY <3>1, <3>3, <4>3
    <3> QED
      BY <3>4, <3>5
  <2> QED
    BY <2>1, <2>2 DEF MemInv, WindowEnd, Off
<1>12. SlotSize(findex, mpos') \in Nat
       /\ SlotSize(findex, mpos') = Clip(2 * FSize, inputSize - (NextOrigin + Off(findex)))
  <2>1. SlotSize(findex, mpos') = Clip(2 * FSize, mpos' - Off(findex))
    BY <1>1, <1>3, SlotSizeIs
  <2>2. mpos' = Clip(Off(findex) + 2 * FSize, inputSize - NextOrigin)
    BY <1>2, <1>3
  <2>3. Clip(2 * FSize, mpos' - Off(findex)) \in Nat
    <3>1. mpos' - Off(findex) \in Int /\ 2 * FSize \in Nat
      BY <1>2, <1>3
    <3> QED
      BY <3>1, ClipFits
  <2>4. inputSize - NextOrigin \in Int /\ 2 * FSize \in Nat
        /\ inputSize - (NextOrigin + Off(findex)) = inputSize - NextOrigin - Off(findex)
    BY <1>1, <1>2
  <2>5. Clip(2 * FSize, mpos' - Off(findex)) = Clip(2 * FSize, inputSize - NextOrigin - Off(findex))
    <3>1. Off(findex) + 2 * FSize \in Nat /\ Off(findex) + 2 * FSize <= Off(findex) + 2 * FSize
      BY <1>2
    <3> QED
      BY <1>2, <2>2, <2>4, <3>1, ClipOfClip
  <2> QED
    BY <2>1, <2>3, <2>4, <2>5
<1>13. size' \in [Slots -> Nat]
  BY <1>1, <1>4, <1>12
<1>14. SizeInv'
  <2>1. ASSUME NEW i \in Slots
        PROVE  size'[i] = Clip(2 * FSize, inputSize' - positions'[i])
    <3>1. CASE i = findex
      BY <1>1, <1>3, <1>4, <1>6, <1>12, <3>1
    <3>2. CASE i # findex
      <4>1. size'[i] = size[i] /\ positions'[i] = positions[i]
        BY <1>1, <1>4, <1>6, <3>2
      <4> QED
        BY <1>1, <1>3, <4>1 DEF SizeInv
    <3> QED
      BY <3>1, <3>2
  <2> QED
    BY <2>1 DEF SizeInv
<1>15. WindowTypes'
  <2>1. inputSize' \in Nat /\ mem' \in [0 .. WindowEnd - 1 -> Int]
    BY <1>1, <1>3 DEF Memory
  <2> QED
    BY <1>3, <1>5, <1>6, <1>13, <2>1 DEF WindowTypes, WindowEnd, Off
<1> QED
  BY <1>3, <1>4, <1>7, <1>8, <1>10, <1>11, <1>14, <1>15 DEF Window

\* Load keeps the window: it is a window further on as a whole.
LEMMA LoadKeeps ==
  ASSUME Window, findex = 0, Load, whole' = whole
  PROVE  Window' /\ findex' = 0 /\ Base' = NextOrigin
<1>1. /\ WindowTypes /\ PlaceInv
      /\ inputSize \in Nat /\ Base \in Nat /\ findex \in Slots
      /\ positions \in [Slots -> Int]
  BY DEF Window, WindowTypes, PlaceInv
<1>2. /\ FSlots \in Nat /\ FSlots > 0 /\ FSize \in Nat
      /\ Off(FSlots) \in Nat /\ Off(FSlots) = FSlots * FSize
      /\ WindowEnd = Off(FSlots) + FSize /\ WindowEnd \in Nat
      /\ FSlots - 1 \in Slots
  BY OffFacts DEF Off, Slots
<1>3. NextOrigin = Base + Off(FSlots) /\ NextOrigin \in Nat
  BY <1>1, <1>2 DEF NextOrigin
<1>4. /\ inputSize' = inputSize /\ temp' \in Seq(Int) /\ tempPos' \in Nat
      /\ taken' \in Nat /\ mpos' \in Nat /\ mem' \in Memory
      /\ TempInv'
      /\ mpos' = Clip(WindowEnd, inputSize - NextOrigin)
      /\ Ahead' = AtMost(inputSize, NextOrigin + WindowEnd)
      /\ \A a \in 0 .. mpos' - 1 : mem'[a] = NextOrigin + a
  BY LoadReads DEF Refilled
<1>5. /\ findex' = 0
      /\ positions' = [i \in Slots |-> positions[i] + FSlots * FSize]
      /\ size' = [i \in Slots |-> SlotSize(i, mpos')]
  BY DEF Load
<1>6. \A i \in Slots : positions[i] = Base + Off(i) /\ i \in Nat /\ Off(i) \in Nat
  <2>1. ASSUME NEW i \in Slots
        PROVE  positions[i] = Base + Off(i) /\ i \in Nat /\ Off(i) \in Nat
    <3>1. /\ positions[i] = Base + Off(i) + (IF i < 0 THEN Off(FSlots) ELSE 0)
          /\ i \in Nat /\ Off(i) \in Nat
      BY <1>1, SlotFits DEF PlaceInv
    <3> QED
      BY <1>1, <3>1
  <2> QED
    BY <2>1
<1>7. positions' \in [Slots -> Int] /\ \A i \in Slots : positions'[i] = NextOrigin + Off(i)
  <2>1. \A i \in Slots : positions'[i] = positions[i] + Off(FSlots)
    BY <1>2, <1>5
  <2>2. \A i \in Slots : positions'[i] = NextOrigin + Off(i)
    BY <1>1, <1>2, <1>3, <1>6, <2>1
  <2>3. \A i \in Slots : positions[i] + Off(FSlots) \in Int
    BY <1>1, <1>2
  <2>4. positions' = [i \in Slots |-> positions[i] + Off(FSlots)]
    BY <1>2, <1>5
  <2> QED
    BY <2>2, <2>3, <2>4
<1>8. Base' = NextOrigin
  <2>1. Base' = positions'[FSlots - 1] - Off(FSlots - 1)
    BY DEF Base, Off
  <2>2. Off(FSlots - 1) \in Nat
    BY <1>2, <1>6
  <2> QED
    BY <1>2, <1>3, <1>7, <2>1, <2>2
<1>9. PlaceInv'
  <2>1. ASSUME NEW i \in Slots
        PROVE  positions'[i] = Base' + Off(i) + (IF i < findex' THEN Off(FSlots) ELSE 0)
    BY <1>3, <1>5, <1>6, <1>7, <1>8
  <2> QED
    BY <1>3, <1>8, <2>1 DEF PlaceInv, Off
<1>10. Origin' = NextOrigin /\ Top' = WindowEnd
  BY <1>5, <1>8 DEF Origin, Top, Off, WindowEnd
<1>11. FillInv'
  BY <1>4, <1>10 DEF FillInv
<1>12. MemInv'
  <2>1. \A a \in 0 .. mpos' - 1 : mem'[a] = Origin' + a
    BY <1>4, <1>10
  <2>2. ASSUME NEW a \in Top' .. WindowEnd - 1 PROVE FALSE
    BY <1>2, <1>10
  <2> QED
    BY <2>1, <2>2 DEF MemInv, WindowEnd, Off
<1>13. \A i \in Slots :
         /\ SlotSize(i, mpos') \in Nat
         /\ SlotSize(i, mpos') = Clip(2 * FSize, inputSize - (NextOrigin + Off(i)))
  <2>1. ASSUME NEW i \in Slots
        PROVE  /\ SlotSize(i, mpos') \in Nat
               /\ SlotSize(i, mpos') = Clip(2 * FSize, inputSize - (NextOrigin + Off(i)))
    <3>1. SlotSize(i, mpos') = Clip(2 * FSize, mpos' - Off(i))
      BY <1>4, SlotSizeIs
    <3>2. /\ Off(i) \in Nat /\ Off(i) + 2 * FSize <= WindowEnd
      BY SlotFits
    <3>3. /\ mpos' - Off(i) \in Int /\ 2 * FSize \in Nat /\ inputSize - NextOrigin \in Int
          /\ inputSize - (NextOrigin + Off(i)) = inputSize - NextOrigin - Off(i)
      BY <1>1, <1>2, <1>3, <1>4, <3>2
    <3>4. Clip(2 * FSize, mpos' - Off(i)) \in Nat
      BY <3>3, ClipFits
    <3>5. Clip(2 * FSize, Clip(WindowEnd, inputSize - NextOrigin) - Off(i))
            = Clip(2 * FSize, inputSize - NextOrigin - Off(i))
      BY <1>2, <3>2, <3>3, ClipOfClip
    <3> QED
      BY <1>4, <3>1, <3>3, <3>4, <3>5
  <2> QED
    BY <2>1
<1>14. size' \in [Slots -> Nat]
  BY <1>5, <1>13
<1>15. SizeInv'
  BY <1>4, <1>5, <1>7, <1>13 DEF SizeInv
<1>16. WindowTypes'
  <2>1. inputSize' \in Nat /\ mem' \in [0 .. WindowEnd - 1 -> Int] /\ findex' \in Slots
    BY <1>1, <1>4, <1>5 DEF Memory, Slots
  <2> QED
    BY <1>4, <1>7, <1>14, <2>1 DEF WindowTypes, WindowEnd, Off
<1> QED
  BY <1>4, <1>5, <1>8, <1>9, <1>11, <1>12, <1>15, <1>16 DEF Window

-----------------------------------------------------------------------------
(* The first window of an input, and Read *)

\* The store after the first Load.
FirstState ==
  /\ inputSize \in Nat /\ taken = Have(inputSize) /\ temp = <<>> /\ tempPos = 0
  /\ mem = FirstMem(inputSize) /\ mpos = Have(inputSize)
  /\ size = FirstSize(inputSize) /\ positions = FirstPositions /\ findex = 0

\* What the first Load of an input of n bytes leaves.
LEMMA FirstIs ==
  ASSUME NEW n \in Nat
  PROVE  /\ Have(n) \in Nat /\ Have(n) <= n /\ Have(n) <= WindowEnd
         /\ Have(n) = AtMost(n, WindowEnd) /\ Have(n) = Clip(WindowEnd, n)
         /\ FirstMem(n) \in Memory
         /\ \A a \in 0 .. Have(n) - 1 : FirstMem(n)[a] = a
         /\ FirstSize(n) \in [Slots -> Nat]
         /\ \A i \in Slots : FirstSize(n)[i] = Clip(2 * FSize, n - Off(i))
         /\ FirstPositions \in [Slots -> Int]
         /\ \A i \in Slots : FirstPositions[i] = Off(i)
<1> DEFINE h == Have(n)
           m == [a \in 0 .. WindowEnd - 1 |-> -1]
<1>1. WindowEnd \in Nat /\ FSize \in Nat
  BY OffFacts
<1>2. h = AtMost(n, WindowEnd)
  BY <1>1, MinIs DEF Have, WindowEnd, Off
<1> HIDE DEF h
<1>3. h \in Nat /\ h <= n /\ h <= WindowEnd /\ h = Clip(WindowEnd, n)
  BY <1>1, <1>2 DEF AtMost, Clip
<1>4. /\ Bytes(0, h) \in Seq(Int) /\ Len(Bytes(0, h)) = h
      /\ \A j \in 1 .. h : Bytes(0, h)[j] = 0 + j - 1
  BY <1>3, BytesAre
<1>5. m \in Memory
  BY DEF Memory
<1>6. FirstMem(n) = Put(m, 0, Bytes(0, h))
  BY DEF FirstMem, WindowEnd, Off, h
<1> HIDE DEF m
<1>7. /\ Put(m, 0, Bytes(0, h)) \in Memory
      /\ \A a \in 0 .. WindowEnd - 1 :
           Put(m, 0, Bytes(0, h))[a] = IF 0 <= a /\ a < 0 + h THEN 0 + a - 0 ELSE m[a]
  <2> DEFINE b == Bytes(0, h)
  <2>1. b \in Seq(Int) /\ Len(b) = h /\ \A j \in 1 .. h : b[j] = 0 + j - 1
    BY <1>4
  <2> HIDE DEF b
  <2>2. 0 \in Nat /\ 0 \in Int
    OBVIOUS
  <2>3. /\ Put(m, 0, b) \in Memory
        /\ \A a \in 0 .. WindowEnd - 1 :
             Put(m, 0, b)[a] = IF 0 <= a /\ a < 0 + h THEN 0 + a - 0 ELSE m[a]
    BY <1>3, <1>5, <2>1, <2>2, PutIs
  <2> QED
    BY <2>3 DEF b
<1>8. \A a \in 0 .. h - 1 : FirstMem(n)[a] = a
  BY <1>1, <1>3, <1>6, <1>7
<1>9. ASSUME NEW i \in Slots
      PROVE  /\ SlotSize(i, h) \in Nat /\ SlotSize(i, h) = Clip(2 * FSize, n - Off(i))
             /\ Off(i) \in Nat
  <2>1. SlotSize(i, h) = Clip(2 * FSize, h - Off(i))
    BY <1>3, SlotSizeIs
  <2>2. Off(i) \in Nat /\ Off(i) + 2 * FSize <= WindowEnd /\ 2 * FSize \in Nat
    BY <1>1, SlotFits
  <2>3. Clip(2 * FSize, Clip(WindowEnd, n) - Off(i)) = Clip(2 * FSize, n - Off(i))
    BY <1>1, <2>2, ClipOfClip
  <2>4. Clip(2 * FSize, h - Off(i)) \in Nat
    <3>1. h - Off(i) \in Int
      BY <1>3, <2>2
    <3> QED
      BY <2>2, <3>1, ClipFits
  <2> QED
    BY <1>3, <2>1, <2>2, <2>3, <2>4
<1>10. /\ FirstSize(n) \in [Slots -> Nat]
       /\ \A i \in Slots : FirstSize(n)[i] = Clip(2 * FSize, n - Off(i))
  BY <1>9 DEF FirstSize, h
<1>11. FirstPositions \in [Slots -> Int] /\ \A i \in Slots : FirstPositions[i] = Off(i)
  BY <1>9 DEF FirstPositions, Off
<1> QED
  BY <1>2, <1>3, <1>6, <1>7, <1>8, <1>10, <1>11 DEF h

\* The window of the first Load begins at byte 0.
LEMMA FirstWindow == FirstState => Window /\ Base = 0
<1> SUFFICES ASSUME FirstState PROVE Window /\ Base = 0
  OBVIOUS
<1> DEFINE n == inputSize
<1>1. /\ n \in Nat /\ taken = Have(n) /\ temp = <<>> /\ tempPos = 0
      /\ mem = FirstMem(n) /\ mpos = Have(n)
      /\ size = FirstSize(n) /\ positions = FirstPositions /\ findex = 0
  BY DEF FirstState
<1>2. /\ Have(n) \in Nat /\ Have(n) <= n /\ Have(n) <= WindowEnd
      /\ Have(n) = AtMost(n, WindowEnd) /\ Have(n) = Clip(WindowEnd, n)
      /\ mem \in Memory /\ \A a \in 0 .. Have(n) - 1 : mem[a] = a
      /\ size \in [Slots -> Nat]
      /\ \A i \in Slots : size[i] = Clip(2 * FSize, n - Off(i))
      /\ positions \in [Slots -> Int] /\ \A i \in Slots : positions[i] = Off(i)
  BY <1>1, FirstIs
<1>3. FSlots - 1 \in Slots /\ 0 \in Slots /\ WindowEnd \in Nat
  BY OffFacts DEF Slots
<1>4. Off(FSlots - 1) \in Nat
  BY <1>3, SlotFits
<1>5. Base = 0
  BY <1>2, <1>3, <1>4 DEF Base
<1>6. WindowTypes
  <2>1. temp \in Seq(Int)
    BY <1>1
  <2> QED
    BY <1>1, <1>2, <1>3, <2>1 DEF WindowTypes, Memory
<1>7. TempInv
  BY <1>1, <1>2 DEF TempInv
<1>8. PlaceInv
  <2>1. \A i \in Slots : positions[i] = 0 + Off(i) + (IF i < 0 THEN Off(FSlots) ELSE 0)
    BY <1>2, SlotFits
  <2> QED
    BY <1>1, <1>5, <2>1 DEF PlaceInv
<1>9. Origin = 0 /\ Top = WindowEnd
  BY <1>1, <1>5 DEF Origin, Top
<1>10. Len(temp) = 0
  BY <1>1
<1>11. FillInv
  <2>1. Ahead = Have(n)
    BY <1>1, <1>2, <1>10 DEF Ahead
  <2>2. n - Origin = n /\ Origin + Top = WindowEnd
    BY <1>1, <1>3, <1>9
  <2> QED
    BY <1>1, <1>2, <1>9, <2>1, <2>2 DEF FillInv
<1>12. MemInv
  BY <1>1, <1>2, <1>3, <1>5, <1>9 DEF MemInv
<1>13. SizeInv
  BY <1>2 DEF SizeInv
<1> QED
  BY <1>5, <1>6, <1>7, <1>8, <1>11, <1>12, <1>13 DEF Window

\* The same after a ChangeInput.
LEMMA FirstWindowNext == FirstState' => (Window /\ Base = 0)'
BY FirstWindow, PTL

\* What a step that does not touch the store leaves as it is.
LEMMA WindowStays ==
  ASSUME Window, UNCHANGED <<whole, inputVars, storeVars>>
  PROVE  Window' /\ Base' = Base /\ findex' = findex /\ inputSize' = inputSize
<1>1. /\ whole' = whole /\ inputSize' = inputSize /\ taken' = taken /\ temp' = temp
      /\ tempPos' = tempPos /\ mem' = mem /\ mpos' = mpos /\ size' = size
      /\ positions' = positions /\ findex' = findex
  BY DEF inputVars, storeVars
<1>2. Base' = Base
  BY <1>1 DEF Base, Off
<1>3. WindowTypes'
  BY <1>1 DEF Window, WindowTypes, WindowEnd, Off
<1>4. TempInv'
  BY <1>1 DEF Window, TempInv
<1>5. PlaceInv'
  BY <1>1, <1>2 DEF Window, PlaceInv, Off
<1>6. Origin' = Origin /\ Top' = Top /\ Ahead' = Ahead
  BY <1>1, <1>2 DEF Origin, Top, Ahead, Off, WindowEnd
<1>7. FillInv'
  BY <1>1, <1>6 DEF Window, FillInv
<1>8. MemInv'
  BY <1>1, <1>2, <1>6 DEF Window, MemInv, WindowEnd, Off
<1>9. SizeInv'
  BY <1>1 DEF Window, SizeInv
<1> QED
  BY <1>1, <1>2, <1>3, <1>4, <1>5, <1>7, <1>8, <1>9 DEF Window

\* Read moves bytes from the input to FTemp; no Fill has used them yet.
LEMMA ReadFutureKeeps ==
  ASSUME Window, ReadFuture
  PROVE  /\ Window' /\ Base' = Base
         /\ UNCHANGED <<whole, inputSize, findex, phase, slot, emitted>>
<1>1. /\ inputSize \in Nat /\ taken \in Nat /\ tempPos \in Nat /\ temp \in Seq(Int)
      /\ Len(temp) \in Nat /\ tempPos <= Len(temp) /\ Len(temp) <= taken
      /\ \A j \in 1 .. Len(temp) : temp[j] = taken - Len(temp) + j - 1
  BY DEF Window, WindowTypes, TempInv
<1>2. PICK n \in 1 .. MaxFuture :
        n <= inputSize - taken /\ temp' = temp \o Bytes(taken, n) /\ taken' = taken + n
  BY DEF ReadFuture
<1>3. /\ whole' = whole /\ ~whole /\ inputSize' = inputSize /\ tempPos' = tempPos
      /\ mem' = mem /\ mpos' = mpos /\ size' = size /\ positions' = positions
      /\ findex' = findex /\ phase' = phase /\ slot' = slot /\ emitted' = emitted
  BY DEF ReadFuture, storeVars
<1>4. n \in Nat
  BY <1>2, StoreAssumption
<1>5. /\ Bytes(taken, n) \in Seq(Int) /\ Len(Bytes(taken, n)) = n
      /\ \A j \in 1 .. n : Bytes(taken, n)[j] = taken + j - 1
  BY <1>1, <1>4, BytesAre
<1>6. /\ temp' \in Seq(Int) /\ Len(temp') = Len(temp) + n
      /\ \A j \in 1 .. Len(temp) + n :
           temp'[j] = IF j <= Len(temp) THEN temp[j] ELSE Bytes(taken, n)[j - Len(temp)]
  <2> DEFINE b == Bytes(taken, n)
  <2>1. b \in Seq(Int) /\ Len(b) = n /\ temp' = temp \o b
    BY <1>2, <1>5
  <2> HIDE DEF b
  <2>2. /\ temp \o b \in Seq(Int)
        /\ Len(temp \o b) = Len(temp) + Len(b)
        /\ \A j \in 1 .. Len(temp) + Len(b) :
             (temp \o b)[j] = IF j <= Len(temp) THEN temp[j] ELSE b[j - Len(temp)]
    BY <1>1, <2>1, ConcatProperties
  <2> QED
    BY <2>1, <2>2 DEF b
<1>7. \A j \in 1 .. Len(temp') : temp'[j] = taken' - Len(temp') + j - 1
  <2>1. ASSUME NEW j \in 1 .. Len(temp) + n
        PROVE  temp'[j] = taken + n - (Len(temp) + n) + j - 1
    <3>3. taken + n - (Len(temp) + n) + j - 1 = taken - Len(temp) + j - 1
      BY <1>1, <1>4
    <3>1. CASE j <= Len(temp)
      <4>1. j \in 1 .. Len(temp) /\ temp'[j] = temp[j]
        BY <1>1, <1>4, <1>6, <3>1
      <4> QED
        BY <1>1, <3>3, <4>1
    <3>2. CASE ~(j <= Len(temp))
      <4>1. j - Len(temp) \in 1 .. n
        BY <1>1, <1>4, <3>2
      <4> QED
        BY <1>1, <1>4, <1>5, <1>6, <3>2, <4>1
    <3> QED
      BY <3>1, <3>2
  <2>2. ASSUME NEW j \in 1 .. Len(temp')
        PROVE  temp'[j] = taken' - Len(temp') + j - 1
    <3>1. j \in 1 .. Len(temp) + n /\ taken' = taken + n /\ Len(temp') = Len(temp) + n
      BY <1>2, <1>6
    <3>2. temp'[j] = taken + n - (Len(temp) + n) + j - 1
      BY <2>1, <3>1
    <3>3. taken' - Len(temp') + j - 1 = taken - Len(temp) + j - 1
      BY <1>1, <1>4, <3>1
    <3>4. taken + n - (Len(temp) + n) + j - 1 = taken - Len(temp) + j - 1
      BY <1>1, <1>4
    <3> QED
      BY <3>2, <3>3, <3>4
  <2> QED
    BY <2>2
<1>8. TempInv'
  BY <1>1, <1>2, <1>3, <1>4, <1>6, <1>7 DEF TempInv
<1>9. Ahead' = Ahead
  BY <1>1, <1>2, <1>3, <1>4, <1>6 DEF Ahead
<1>10. Base' = Base
  BY <1>3 DEF Base, Off
<1>11. WindowTypes'
  <2>1. taken' \in Nat
    BY <1>1, <1>2, <1>4
  <2> QED
    BY <1>3, <1>6, <2>1 DEF Window, WindowTypes, WindowEnd, Off
<1>12. PlaceInv'
  BY <1>3, <1>10 DEF Window, PlaceInv, Off
<1>13. Origin' = Origin /\ Top' = Top
  BY <1>3, <1>10 DEF Origin, Top, Off, WindowEnd
<1>14. FillInv'
  BY <1>3, <1>9, <1>13 DEF Window, FillInv
<1>15. MemInv'
  BY <1>3, <1>10, <1>13 DEF Window, MemInv, WindowEnd, Off
<1>16. SizeInv'
  BY <1>3 DEF Window, SizeInv
<1> QED
  BY <1>3, <1>8, <1>10, <1>11, <1>12, <1>14, <1>15, <1>16 DEF Window

-----------------------------------------------------------------------------
(* What is written out *)

\* The memory of a slot has the bytes of its chunk, and in a whole window those
\* of the lookahead, as far as the input goes.
LEMMA SlotBytesAre ==
  ASSUME Window, NEW i \in Slots, NEW n \in Nat,
         n > 0 => Base + Off(i) + n <= inputSize,
         (findex = 0 /\ n <= 2 * FSize) \/ (findex < i /\ n <= FSize)
  PROVE  SlotBytes(i, n) = Bytes(Base + Off(i), n)
<1>1. /\ inputSize \in Nat /\ mpos \in Nat /\ Base \in Nat /\ findex \in Slots
      /\ FillInv /\ MemInv
  BY DEF Window, WindowTypes, PlaceInv
<1>2. /\ i \in Nat /\ i < FSlots /\ Off(i) \in Nat /\ FSize \in Nat /\ WindowEnd \in Nat
      /\ Off(i) + 2 * FSize <= WindowEnd /\ findex \in Nat
  BY <1>1, SlotFits, OffFacts
<1>3. ASSUME NEW j \in 1 .. n
      PROVE  mem[i * FSize + j - 1] = Base + Off(i) + j - 1
  <2>1. PICK a \in Nat : a = Off(i) + j - 1 /\ a < Off(i) + n
    <3>1. Off(i) + j - 1 \in Nat /\ Off(i) + j - 1 < Off(i) + n
      BY <1>2
    <3> QED
      BY <3>1
  <2>2. Base + a < inputSize
    BY <1>1, <1>2, <2>1
  <2>3. CASE findex = 0
    <3>1. mpos = Clip(WindowEnd, inputSize - Base) /\ Origin = Base
      BY <1>1, <2>3 DEF FillInv, Origin, Top
    <3>2. a < WindowEnd
      BY <1>2, <2>1, <2>3
    <3>3. a \in 0 .. mpos - 1
      BY <1>1, <1>2, <2>1, <2>2, <3>1, <3>2 DEF Clip
    <3>4. mem[a] = Base + a
      BY <1>1, <3>1, <3>3 DEF MemInv
    <3> QED
      BY <1>1, <1>2, <2>1, <3>4 DEF Off
  <2>4. CASE findex # 0
    <3>1. findex < i /\ n <= FSize
      BY <1>2, <2>4
    <3>2. Top = Off(findex + 1) /\ Off(findex + 1) \in Nat
      BY <1>2, <2>4, OffFacts DEF Top
    <3>3. Off(findex + 1) <= Off(i)
      <4>1. CASE findex + 1 = i
        BY <1>2, <4>1
      <4>2. CASE findex + 1 # i
        <5>1. findex + 1 \in Nat /\ findex + 1 < i
          BY <1>2, <3>1, <4>2
        <5>2. Off(findex + 1) + FSize <= Off(i)
          BY <1>2, <5>1, OffGrows
        <5> QED
          BY <1>2, <3>2, <5>2
      <4> QED
        BY <4>1, <4>2
    <3>4. a \in Top .. WindowEnd - 1
      BY <1>2, <2>1, <3>1, <3>2, <3>3
    <3>5. mem[a] = Base + a
      BY <1>1, <2>2, <3>4 DEF MemInv
    <3> QED
      BY <1>1, <1>2, <2>1, <3>5 DEF Off
  <2> QED
    BY <2>3, <2>4
<1> QED
  BY <1>3 DEF SlotBytes, Bytes

\* Size(I), without the lookahead.
LEMMA SizeOfIs ==
  ASSUME Window, NEW i \in Slots, findex <= i
  PROVE  /\ SizeOf(i) \in Nat /\ SizeOf(i) <= FSize
         /\ SizeOf(i) = Clip(FSize, inputSize - (Base + Off(i)))
<1>1. /\ inputSize \in Nat /\ Base \in Nat /\ findex \in Slots /\ FSize \in Nat
      /\ i \in Nat /\ findex \in Nat /\ Off(i) \in Nat /\ size[i] \in Nat
  BY SlotFits, OffFacts DEF Window, WindowTypes, PlaceInv
<1>2. positions[i] = Base + Off(i)
  <2>1. positions[i] = Base + Off(i) + (IF i < findex THEN Off(FSlots) ELSE 0)
    BY DEF Window, PlaceInv
  <2>2. ~(i < findex)
    BY <1>1
  <2> QED
    BY <1>1, <2>1, <2>2
<1>3. size[i] = Clip(2 * FSize, inputSize - (Base + Off(i)))
  BY <1>2 DEF Window, SizeInv
<1>4. SizeOf(i) = AtMost(FSize, size[i])
  BY <1>1, MinIs DEF SizeOf
<1>5. PICK z \in Int : z = inputSize - (Base + Off(i))
  BY <1>1
<1>6. AtMost(FSize, Clip(2 * FSize, z)) = Clip(FSize, z)
  BY <1>1 DEF AtMost, Clip
<1> QED
  BY <1>1, <1>3, <1>4, <1>5, <1>6, ClipFits

\* The chunk of a slot is written out behind those before it.
LEMMA EmitKeeps ==
  ASSUME StoreInv, Emit
  PROVE  StoreInv'
<1>1. /\ LoopTypes /\ Window /\ BehindInv /\ EmitInv /\ phase = "emit"
      /\ slot \in Slots /\ emitted \in Seq(Int) /\ Len(emitted) \in Nat
      /\ whole \in BOOLEAN
  BY DEF StoreInv, LoopTypes, Emit
<1>2. /\ inputSize \in Nat /\ Base \in Nat /\ FSize \in Nat /\ findex \in Nat
      /\ slot \in Nat /\ slot < FSlots /\ Off(slot) \in Nat /\ FSlots \in Nat
      /\ Off(slot + 1) = Off(slot) + FSize
  BY <1>1, SlotFits, OffFacts DEF Window, WindowTypes, PlaceInv
<1>3. Window' /\ Base' = Base /\ findex' = findex /\ inputSize' = inputSize /\ whole' = whole
  BY <1>1, WindowStays DEF Emit, inputVars
<1>4. findex = 0 \/ findex < slot
  BY <1>1, <1>2 DEF BehindInv
<1>5. /\ SizeOf(slot) \in Nat /\ SizeOf(slot) <= FSize
      /\ SizeOf(slot) = Clip(FSize, inputSize - (Base + Off(slot)))
  BY <1>1, <1>2, <1>4, SizeOfIs
<1>6. PICK n \in Nat : n = SizeOf(slot)
  BY <1>5
<1>7. SlotBytes(slot, n) = Bytes(Base + Off(slot), n)
  <2>1. n > 0 => Base + Off(slot) + n <= inputSize
    BY <1>2, <1>5, <1>6 DEF Clip
  <2>2. (findex = 0 /\ n <= 2 * FSize) \/ (findex < slot /\ n <= FSize)
    BY <1>2, <1>4, <1>5, <1>6
  <2> QED
    BY <1>1, <2>1, <2>2, SlotBytesAre
<1>8. Len(emitted) = AtMost(inputSize, Base + Off(slot))
  BY <1>1 DEF EmitInv
<1>9. /\ emitted' \in Seq(Int) /\ Len(emitted') = Len(emitted) + n
      /\ \A j \in 1 .. Len(emitted') : emitted'[j] = j - 1
  <2> DEFINE b == Bytes(Base + Off(slot), n)
  <2>1. /\ b \in Seq(Int) /\ Len(b) = n
        /\ \A j \in 1 .. n : b[j] = Base + Off(slot) + j - 1
    <3>1. Base + Off(slot) \in Int
      BY <1>2
    <3> QED
      BY <3>1, BytesAre
  <2>2. emitted' = emitted \o b
    BY <1>6, <1>7 DEF Emit
  <2> HIDE DEF b
  <2>3. /\ emitted \o b \in Seq(Int)
        /\ Len(emitted \o b) = Len(emitted) + Len(b)
        /\ \A j \in 1 .. Len(emitted) + Len(b) :
             (emitted \o b)[j] = IF j <= Len(emitted) THEN emitted[j] ELSE b[j - Len(emitted)]
    BY <1>1, <2>1, ConcatProperties
  <2>4. ASSUME NEW j \in 1 .. Len(emitted) + n
        PROVE  emitted'[j] = j - 1
    <3>1. CASE j <= Len(emitted)
      <4>1. j \in 1 .. Len(emitted)
        BY <1>1, <3>1
      <4>2. emitted'[j] = emitted[j]
        BY <2>1, <2>2, <2>3, <3>1
      <4>3. emitted[j] = j - 1
        BY <1>1, <4>1 DEF EmitInv
      <4> QED
        BY <4>2, <4>3
    <3>2. CASE ~(j <= Len(emitted))
      <4>1. j - Len(emitted) \in 1 .. n /\ n > 0
        BY <1>1, <3>2
      <4>2. emitted'[j] = b[j - Len(emitted)]
        BY <2>1, <2>2, <2>3, <3>2
      <4>3. Len(emitted) = Base + Off(slot)
        BY <1>2, <1>5, <1>6, <1>8, <4>1 DEF AtMost, Clip
      <4>4. b[j - Len(emitted)] = Base + Off(slot) + (j - Len(emitted)) - 1
        BY <2>1, <4>1
      <4> QED
        BY <1>1, <1>2, <4>2, <4>3, <4>4
    <3> QED
      BY <3>1, <3>2
  <2> QED
    BY <2>1, <2>2, <2>3, <2>4
<1>10. Len(emitted') = AtMost(inputSize, Base + Off(slot + 1))
  BY <1>1, <1>2, <1>5, <1>6, <1>8, <1>9 DEF AtMost, Clip
<1>11. AfterEmit
  BY DEF Emit
<1>12. CASE slot > 0 /\ ~whole
  <2>1. phase' = "load" /\ slot' = slot
    BY <1>11, <1>12 DEF AfterEmit
  <2>2. LoopTypes'
    BY <1>1, <1>3, <1>9, <2>1 DEF LoopTypes, Phases
  <2>3. BehindInv'
    BY <1>1, <1>3, <1>12, <2>1 DEF BehindInv
  <2>4. EmitInv'
    BY <1>3, <1>9, <1>10, <2>1 DEF EmitInv, Off
  <2> QED
    BY <1>3, <2>2, <2>3, <2>4 DEF StoreInv
<1>13. CASE ~(slot > 0 /\ ~whole) /\ slot + 1 < FSlots
  <2>1. phase' = "emit" /\ slot' = slot + 1
    BY <1>1, <1>11, <1>13 DEF AfterEmit
  <2>2. slot + 1 \in Slots
    BY <1>2, <1>13 DEF Slots
  <2>3. LoopTypes'
    BY <1>1, <1>3, <1>9, <2>1, <2>2 DEF LoopTypes, Phases
  <2>4. BehindInv'
    BY <1>1, <1>2, <1>3, <1>13, <2>1 DEF BehindInv
  <2>5. EmitInv'
    BY <1>3, <1>9, <1>10, <2>1 DEF EmitInv, Off
  <2> QED
    BY <1>3, <2>3, <2>4, <2>5 DEF StoreInv
<1>14. CASE ~(slot > 0 /\ ~whole) /\ ~(slot + 1 < FSlots)
  <2>1. phase' = "last" /\ slot' = slot
    BY <1>11, <1>14 DEF AfterEmit
  <2>2. slot = FSlots - 1
    BY <1>2, <1>14
  <2>3. LoopTypes'
    BY <1>1, <1>3, <1>9, <2>1 DEF LoopTypes, Phases
  <2>4. BehindInv'
    BY <1>1, <1>2, <1>3, <1>14, <2>1, <2>2 DEF BehindInv
  <2>5. EmitInv'
    BY <1>3, <1>9, <1>10, <2>1 DEF EmitInv, Off
  <2> QED
    BY <1>3, <2>3, <2>4, <2>5 DEF StoreInv
<1> QED
  BY <1>12, <1>13, <1>14

-----------------------------------------------------------------------------
(* The other steps *)

\* The scans do not change the store; when slot 0 is empty, all is written out.
LEMMA ScannedKeeps ==
  ASSUME StoreInv, Scanned
  PROVE  StoreInv'
<1>1. /\ LoopTypes /\ Window /\ BehindInv /\ EmitInv /\ phase = "scan"
      /\ whole' = whole /\ emitted' = emitted /\ slot' = 0
      /\ phase' = IF Done THEN "done" ELSE "emit"
  BY DEF StoreInv, Scanned
<1>2. Window' /\ Base' = Base /\ findex' = findex /\ inputSize' = inputSize
  BY <1>1, WindowStays DEF Scanned
<1>3. findex = 0 /\ Len(emitted) = AtMost(inputSize, Base)
  BY <1>1 DEF BehindInv, EmitInv
<1>4. 0 \in Slots /\ Off(0) = 0 /\ FSize \in Nat /\ FSize > 0
  BY OffFacts DEF Slots
<1>5. LoopTypes'
  BY <1>1, <1>4 DEF LoopTypes, Phases
<1>6. BehindInv'
  BY <1>1, <1>2, <1>3 DEF BehindInv
<1>7. inputSize \in Nat /\ Base \in Nat
  BY <1>1 DEF Window, WindowTypes, PlaceInv
<1>8. Done => Len(emitted) = inputSize
  <2>1. positions[0] = Base
    <3>1. positions[0] = Base + Off(0) + (IF 0 < findex THEN Off(FSlots) ELSE 0)
      BY <1>1, <1>4 DEF Window, PlaceInv
    <3> QED
      BY <1>3, <1>4, <1>7, <3>1
  <2>2. size[0] = Clip(2 * FSize, inputSize - Base)
    BY <1>1, <1>4, <2>1 DEF Window, SizeInv
  <2> QED
    BY <1>3, <1>4, <1>7, <2>2 DEF Done, Clip, AtMost
<1>9. EmitInv'
  <2>1. \A j \in 1 .. Len(emitted') : emitted'[j] = j - 1
    BY <1>1 DEF EmitInv
  <2>2. Len(emitted) = AtMost(inputSize, Base + Off(0))
    BY <1>3, <1>4, <1>7
  <2> QED
    BY <1>1, <1>2, <1>8, <2>1, <2>2 DEF EmitInv, Off
<1> QED
  BY <1>2, <1>5, <1>6, <1>9 DEF StoreInv

\* LoadEx follows the loop one slot behind.
LEMMA EmitLoadKeeps ==
  ASSUME StoreInv, EmitLoad
  PROVE  StoreInv'
<1>1. /\ LoopTypes /\ Window /\ BehindInv /\ EmitInv /\ phase = "load"
      /\ slot \in Slots /\ whole' = whole /\ emitted' = emitted /\ LoadEx
      /\ ~whole /\ slot > 0 /\ findex = slot - 1
  BY DEF StoreInv, LoopTypes, EmitLoad, BehindInv
<1>2. /\ slot \in Nat /\ slot < FSlots /\ FSlots \in Nat
  BY <1>1, SlotFits, OffFacts
<1>3. Window' /\ findex' = slot /\ Base' = Base
  <2>1. findex + 1 = slot /\ findex + 1 # FSlots
    BY <1>1, <1>2
  <2> QED
    BY <1>1, <2>1, LoadExKeeps
<1>4. inputSize' = inputSize
  BY <1>1 DEF LoadEx, Fill
<1>5. Len(emitted) = AtMost(inputSize, Base + Off(slot + 1))
  BY <1>1 DEF EmitInv
<1>6. \A j \in 1 .. Len(emitted') : emitted'[j] = j - 1
  BY <1>1 DEF EmitInv
<1>7. CASE slot + 1 < FSlots
  <2>1. slot' = slot + 1 /\ phase' = "emit" /\ slot + 1 \in Slots
    BY <1>2, <1>7 DEF EmitLoad, Slots
  <2>2. LoopTypes'
    BY <1>1, <2>1 DEF LoopTypes, Phases
  <2>3. BehindInv'
    BY <1>1, <1>2, <1>3, <2>1 DEF BehindInv
  <2>4. EmitInv'
    BY <1>1, <1>3, <1>4, <1>5, <1>6, <2>1 DEF EmitInv, Off
  <2> QED
    BY <1>3, <2>2, <2>3, <2>4 DEF StoreInv
<1>8. CASE ~(slot + 1 < FSlots)
  <2>1. slot' = slot /\ phase' = "last" /\ slot = FSlots - 1
    BY <1>2, <1>8 DEF EmitLoad
  <2>2. LoopTypes'
    BY <1>1, <2>1 DEF LoopTypes, Phases
  <2>3. BehindInv'
    BY <1>1, <1>2, <1>3, <2>1 DEF BehindInv
  <2>4. EmitInv'
    BY <1>1, <1>3, <1>4, <1>5, <1>6, <2>1 DEF EmitInv, Off
  <2> QED
    BY <1>3, <2>2, <2>3, <2>4 DEF StoreInv
<1> QED
  BY <1>7, <1>8

\* After the last refill of a round the window is whole again.
LEMMA EndRoundKeeps ==
  ASSUME StoreInv, EndRound
  PROVE  StoreInv'
<1>1. /\ LoopTypes /\ Window /\ BehindInv /\ EmitInv /\ phase = "last"
      /\ slot = FSlots - 1
      /\ whole \/ findex = FSlots - 1
      /\ slot' = slot /\ whole' = whole /\ emitted' = emitted /\ phase' = "scan"
      /\ IF whole THEN Load ELSE LoadEx
      /\ whole => findex = 0
  BY DEF StoreInv, EndRound, BehindInv
<1>2. /\ slot \in Slots /\ slot + 1 = FSlots
      /\ inputSize' = inputSize
  <2>1. slot \in Slots
    BY <1>1 DEF LoopTypes
  <2>2. slot + 1 = FSlots
    <3>1. slot = FSlots - 1 /\ FSlots \in Nat
      BY <1>1, OffFacts
    <3> QED
      BY <3>1
  <2>3. inputSize' = inputSize
    BY <1>1 DEF LoadEx, Load, Fill
  <2> QED
    BY <2>1, <2>2, <2>3
<1>3. Window' /\ findex' = 0 /\ Base' = NextOrigin
  <2>1. CASE whole
    BY <1>1, <2>1, LoadKeeps
  <2>2. CASE ~whole
    <3>1. findex + 1 = FSlots
      BY <1>1, <2>2, OffFacts
    <3> QED
      BY <1>1, <2>2, <3>1, LoadExKeeps
  <2> QED
    BY <2>1, <2>2
<1>4. Len(emitted) = AtMost(inputSize, NextOrigin)
  BY <1>1, <1>2 DEF EmitInv, NextOrigin
<1>5. LoopTypes'
  BY <1>1 DEF LoopTypes, Phases
<1>6. BehindInv'
  BY <1>1, <1>3 DEF BehindInv
<1>7. EmitInv'
  <2>1. \A j \in 1 .. Len(emitted') : emitted'[j] = j - 1
    BY <1>1 DEF EmitInv
  <2> QED
    BY <1>1, <1>2, <1>3, <1>4, <2>1 DEF EmitInv
<1> QED
  BY <1>3, <1>5, <1>6, <1>7 DEF StoreInv

\* The loop at the start of an input.
LoopFirst ==
  /\ whole \in BOOLEAN /\ phase = "scan" /\ slot = 0 /\ emitted = <<>>

\* The invariant holds when an input is begun.
LEMMA FirstInv == FirstState /\ LoopFirst => StoreInv
<1> SUFFICES ASSUME FirstState, LoopFirst PROVE StoreInv
  OBVIOUS
<1>1. Window /\ Base = 0 /\ findex = 0 /\ inputSize \in Nat
  BY FirstWindow DEF FirstState
<1>2. /\ whole \in BOOLEAN /\ phase = "scan" /\ slot = 0 /\ emitted = <<>>
      /\ emitted \in Seq(Int) /\ Len(emitted) = 0
  BY DEF LoopFirst
<1>3. 0 \in Slots
  BY OffFacts DEF Slots
<1>4. LoopTypes
  BY <1>2, <1>3 DEF LoopTypes, Phases
<1>5. BehindInv
  BY <1>1, <1>2 DEF BehindInv
<1>6. EmitInv
  BY <1>1, <1>2 DEF EmitInv, AtMost
<1> QED
  BY <1>1, <1>4, <1>5, <1>6 DEF StoreInv

\* The same after a ChangeInput.
LEMMA FirstInvNext == FirstState' /\ LoopFirst' => StoreInv'
BY FirstInv, PTL

\* The next file of a tool.
LEMMA ChangeInputKeeps ==
  ASSUME StoreInv, ChangeInput
  PROVE  StoreInv'
<1>1. whole /\ whole' = whole /\ temp = <<>> /\ tempPos = 0
  BY DEF ChangeInput, StoreInv, Window, TempInv
<1>2. temp' = <<>> /\ tempPos' = 0
  BY <1>1 DEF ChangeInput
<1>3. inputSize' \in Nat
  BY StoreAssumption DEF ChangeInput
<1>4. FirstState'
  BY <1>2, <1>3
     DEF ChangeInput, FirstState, Have, FirstMem, FirstSize, FirstPositions, SlotSize, Put, Bytes
<1>5. LoopFirst'
  BY <1>1 DEF ChangeInput, LoopFirst, StoreInv, LoopTypes
<1> QED
  BY <1>4, <1>5, FirstInvNext

\* ReadFuture leaves the loop and what it has written out alone.
LEMMA ReadKeeps ==
  ASSUME StoreInv, ReadFuture
  PROVE  StoreInv'
<1>1. LoopTypes /\ Window /\ BehindInv /\ EmitInv
  BY DEF StoreInv
<1>2. /\ Window' /\ Base' = Base
      /\ whole' = whole /\ inputSize' = inputSize /\ findex' = findex
      /\ phase' = phase /\ slot' = slot /\ emitted' = emitted
  BY <1>1, ReadFutureKeeps
<1>3. LoopTypes' /\ BehindInv'
  BY <1>1, <1>2 DEF LoopTypes, BehindInv
<1>4. EmitInv'
  BY <1>1, <1>2 DEF EmitInv, Off
<1> QED
  BY <1>2, <1>3, <1>4 DEF StoreInv

\* Behind the end of the input EncData writes the table of the duplicates and
\* the decoder begins; the store is not used any more.
LEMMA PhaseKeeps ==
  ASSUME StoreInv, UNCHANGED <<whole, inputVars, storeVars, slot, emitted>>,
         phase' = phase \/ phase' \in {"decode", "decoded"},
         phase' # phase => phase \in {"done", "decode"}
  PROVE  StoreInv'
<1>1. /\ LoopTypes /\ Window /\ BehindInv /\ EmitInv
      /\ whole' = whole /\ slot' = slot /\ emitted' = emitted
  BY DEF StoreInv
<1>2. Window' /\ Base' = Base /\ findex' = findex /\ inputSize' = inputSize
  BY <1>1, WindowStays
<1>3. CASE phase' = phase
  <2>1. LoopTypes' /\ BehindInv'
    BY <1>1, <1>2, <1>3 DEF LoopTypes, BehindInv
  <2>2. EmitInv'
    BY <1>1, <1>2, <1>3 DEF EmitInv, Off
  <2> QED
    BY <1>2, <2>1, <2>2 DEF StoreInv
<1>4. CASE phase' # phase
  <2>1. phase' \in {"decode", "decoded"} /\ phase \in {"done", "decode"}
    BY <1>4
  <2>2. LoopTypes'
    BY <1>1, <2>1 DEF LoopTypes, Phases
  <2>3. BehindInv'
    BY <1>1, <1>2, <2>1 DEF BehindInv
  <2>4. EmitInv'
    BY <1>1, <2>1 DEF EmitInv
  <2> QED
    BY <1>2, <2>2, <2>3, <2>4 DEF StoreInv
<1> QED
  BY <1>3, <1>4

-----------------------------------------------------------------------------
(* Theorems *)

\* The store's invariant holds in every behaviour of the encoder and decoder.
THEOREM StoreInductive == EncSpec => []StoreInv
<1>1. EncInit => StoreInv
  <2> SUFFICES ASSUME EncInit PROVE StoreInv
    OBVIOUS
  <2>1. Init
    BY DEF EncInit
  <2>2. inputSize \in Nat
    BY <2>1, StoreAssumption DEF Init
  <2>3. FirstState /\ LoopFirst
    BY <2>1, <2>2 DEF Init, FirstState, LoopFirst
  <2> QED
    BY <2>3, FirstInv
<1>2. StoreInv /\ [EncNext]_allVars => StoreInv'
  <2> SUFFICES ASSUME StoreInv, [EncNext]_allVars PROVE StoreInv'
    OBVIOUS
  <2>1. ASSUME UNCHANGED vars PROVE StoreInv'
    BY <2>1, PhaseKeeps DEF vars
  <2>2. CASE Scan
    BY <2>2, ScannedKeeps DEF Scan
  <2>3. CASE WriteBlock
    <3>1. Emit \/ UNCHANGED vars
      BY <2>3 DEF WriteBlock
    <3> QED
      BY <2>1, <3>1, EmitKeeps
  <2>4. CASE PassSlot
    BY <2>4, EmitKeeps DEF PassSlot
  <2>5. CASE Refill
    BY <2>5, ReadKeeps, EmitLoadKeeps, EndRoundKeeps, ChangeInputKeeps DEF Refill
  <2>6. CASE Finish
    BY <2>6, PhaseKeeps DEF Finish
  <2>7. CASE DecodeBlock
    BY <2>1, <2>7 DEF DecodeBlock
  <2>8. CASE DecodeEnd
    BY <2>8, PhaseKeeps DEF DecodeEnd
  <2>9. CASE Stop
    BY <2>1, <2>9 DEF Stop, allVars
  <2>10. CASE UNCHANGED allVars
    BY <2>1, <2>10 DEF allVars
  <2> QED
    BY <2>2, <2>3, <2>4, <2>5, <2>6, <2>7, <2>8, <2>9, <2>10 DEF EncNext
<1> QED
  BY <1>1, <1>2, PTL DEF EncSpec

\* Whatever is written out of the slots, by EncData or a tool of io/, is the
\* input in order, and all of it when the store has nothing left; for every
\* number of slots, size of a chunk and length of the input, and whatever Read
\* has taken from the input beyond the window.
THEOREM StoreEmitsTheInput == EncSpec => []EmittedRight
<1>1. StoreInv => EmittedRight
  <2> SUFFICES ASSUME StoreInv PROVE EmittedRight
    OBVIOUS
  <2>1. /\ emitted \in Seq(Int) /\ EmitInv
    BY DEF StoreInv, LoopTypes
  <2>2. /\ Len(emitted) \in Nat /\ emitted = [j \in 1 .. Len(emitted) |-> emitted[j]]
        /\ \A j \in 1 .. Len(emitted) : emitted[j] = j - 1
    BY <2>1, LenProperties DEF EmitInv
  <2>3. \A j \in 1 .. Len(emitted) : emitted[j] = 0 + j - 1
    BY <2>2
  <2>4. emitted = Bytes(0, Len(emitted))
    BY <2>2, <2>3 DEF Bytes
  <2> QED
    BY <2>1, <2>4 DEF EmittedRight, EmitInv
<1> QED
  BY <1>1, StoreInductive, PTL

\* Whenever the slots are scanned, each has in memory the chunk at its position
\* and the chunk behind it, as far as the input goes.
THEOREM StoreShowsTheWindow == EncSpec => []WindowRight
<1>1. StoreInv => WindowRight
  <2> SUFFICES ASSUME StoreInv, phase = "scan", NEW i \in Slots
               PROVE  /\ size[i] = Min({2 * FSize, Max({0, inputSize - positions[i]})})
                      /\ SlotBytes(i, size[i]) = Bytes(positions[i], size[i])
    BY DEF WindowRight
  <2>1. /\ Window /\ findex = 0 /\ inputSize \in Nat /\ Base \in Nat /\ size[i] \in Nat
        /\ FSize \in Nat /\ i \in Nat /\ Off(i) \in Nat
    BY SlotFits, OffFacts DEF StoreInv, Window, WindowTypes, PlaceInv, BehindInv
  <2>2. positions[i] = Base + Off(i)
    <3>1. positions[i] = Base + Off(i) + (IF i < findex THEN Off(FSlots) ELSE 0)
      BY <2>1 DEF Window, PlaceInv
    <3> QED
      BY <2>1, <3>1
  <2>3. size[i] = Clip(2 * FSize, inputSize - positions[i])
    BY <2>1 DEF Window, SizeInv
  <2>4. Min({2 * FSize, Max({0, inputSize - positions[i]})})
          = Clip(2 * FSize, inputSize - positions[i])
    <3>1. 2 * FSize \in Nat /\ inputSize - positions[i] \in Int
      BY <2>1, <2>2
    <3> QED
      BY <3>1, ClipIs
  <2>5. size[i] <= 2 * FSize /\ (size[i] > 0 => Base + Off(i) + size[i] <= inputSize)
    BY <2>1, <2>2, <2>3 DEF Clip
  <2>6. SlotBytes(i, size[i]) = Bytes(Base + Off(i), size[i])
    BY <2>1, <2>5, SlotBytesAre
  <2> QED
    BY <2>2, <2>3, <2>4, <2>6
<1> QED
  BY <1>1, StoreInductive, PTL
=============================================================================
