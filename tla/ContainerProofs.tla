-------------------------- MODULE ContainerProofs --------------------------
(***************************************************************************)
(* decode(precomp(x)) = x, as Container has it: for every input, all the   *)
(* streams the scans may find in it, every size of the slots and of the    *)
(* memory for streams that come again, the decoder writes the input from   *)
(* its first byte on, and in the end all of it.                            *)
(*                                                                         *)
(* DecodedRight says nothing of what is written until it is read, so it is *)
(* far from inductive.  ContainerInv says of every block which bytes of    *)
(* the input and which streams it is (BlockRight), that the blocks follow  *)
(* each other without a gap (Chain), that the table names the streams that *)
(* come again with the number of their copies (TableRight), and of the     *)
(* decoder in front of each stream that its manager holds the bytes of     *)
(* every earlier stream that is still to be copied (ManagerFits).          *)
(*                                                                         *)
(* That the memory in the table is what the decoder comes to rests on the  *)
(* same invariant: in front of each stream the rooms of the encoder's      *)
(* simulation are the blocks of the manager, a free one where a block has  *)
(* no copies left (AsForetold).                                            *)
(*                                                                         *)
(* The parts, in the order in which they rest on each other: the array,    *)
(* the manager, the lists of the deduplication and the table, what is      *)
(* foretold, one stream and one block decoded; a stream numbered, the      *)
(* walk, the scans, a block written, the table written; the invariant and  *)
(* the steps.                                                              *)
(***************************************************************************)
EXTENDS DataStoreProofs, CommonLemmas

-----------------------------------------------------------------------------
(* The array of the data manager: a part in memory and a part in a file *)

\* A stream of the array.
PartType == [data : Seq(Int), pos : Nat, max : Nat]

\* The bytes that array a holds, and how many it may hold.
Held(a) == Len(a.parts[1].data) + Len(a.parts[2].data)
\* What both streams may hold together.
Limit(a) == a.parts[1].max + a.parts[2].max

\* The byte at p of the array.
ByteAt(a, p) ==
  IF p < Len(a.parts[1].data) THEN a.parts[1].data[p + 1]
  ELSE a.parts[2].data[p - Len(a.parts[1].data) + 1]

\* The second part is used when the first one is full.
ArrayRight(a) ==
  /\ a = [index |-> a.index, parts |-> a.parts] /\ a.index \in 1 .. 2
  /\ a.parts \in [1 .. 2 -> PartType]
  /\ \A i \in 1 .. 2 : Len(a.parts[i].data) <= a.parts[i].max
  /\ Len(a.parts[2].data) > 0 => Len(a.parts[1].data) = a.parts[1].max

\* The lesser and the greater of two numbers.
LEMMA LeastOf ==
  ASSUME NEW a \in Int, NEW b \in Int
  PROVE  Min({a, b}) = (IF a < b THEN a ELSE b) /\ Max({a, b}) = (IF a < b THEN b ELSE a)
<1> DEFINE w == IF a < b THEN a ELSE b
           v == IF a < b THEN b ELSE a
<1>1. w \in {a, b} /\ (\A x \in {a, b} : w <= x) /\ v \in {a, b} /\ (\A x \in {a, b} : v >= x)
  OBVIOUS
<1>2. \A x \in {a, b} : ((\A y \in {a, b} : x <= y) => x = w) /\ ((\A y \in {a, b} : x >= y) => x = v)
  OBVIOUS
<1> HIDE DEF w, v
<1>3. (CHOOSE x \in {a, b} : \A y \in {a, b} : x <= y) = w
  BY <1>1, <1>2
<1>4. (CHOOSE x \in {a, b} : \A y \in {a, b} : x >= y) = v
  BY <1>1, <1>2
<1> QED
  BY <1>3, <1>4 DEF Min, Max, w, v

\* Of two parts.
LEMMA TwoParts ==
  ASSUME NEW a, a.parts \in [1 .. 2 -> PartType]
  PROVE  /\ Len(a.parts) = 2 /\ DOMAIN a.parts = 1 .. 2
         /\ \A i \in 1 .. 2 : a.parts[i] \in PartType
         /\ Len(a.parts[1].data) \in Nat /\ Len(a.parts[2].data) \in Nat
         /\ SizeUpTo(a, 0) = 0 /\ SizeUpTo(a, 1) = Len(a.parts[1].data)
         /\ SizeUpTo(a, 2) = Held(a)
<1>1. Len(a.parts) = 2 /\ DOMAIN a.parts = 1 .. 2
  OBVIOUS
<1>2. Len(a.parts[1].data) \in Nat /\ Len(a.parts[2].data) \in Nat
  BY DEF PartType
<1> DEFINE x == Len(a.parts[1].data)
           y == Len(a.parts[2].data)
           Solves(g) == g = [j \in 0 .. Len(a.parts) |->
                               IF j = 0 THEN 0 ELSE g[j - 1] + Len(a.parts[j].data)]
           u == CHOOSE g : Solves(g)
           s == [j \in 0 .. 2 |-> IF j = 0 THEN 0 ELSE IF j = 1 THEN x ELSE x + y]
<1>3. Solves(s)
  <2>1. \A j \in 0 .. 2 : j = 0 \/ j = 1 \/ j = 2
    OBVIOUS
  <2>2. s[0] = 0 /\ s[1] = x /\ s[2] = x + y
    OBVIOUS
  <2>3. \A j \in 0 .. 2 : s[j] = IF j = 0 THEN 0 ELSE s[j - 1] + Len(a.parts[j].data)
    <3>1. 0 + x = x /\ 1 - 1 = 0 /\ 2 - 1 = 1
      BY <1>2
    <3> HIDE DEF s
    <3>2. s[0] = 0 /\ s[1] = s[0] + x /\ s[2] = s[1] + y
      BY <2>2, <3>1
    <3> QED
      BY <2>1, <3>1, <3>2
  <2>4. s = [j \in 0 .. 2 |-> s[j]]
    OBVIOUS
  <2> HIDE DEF s
  <2> QED
    BY <1>1, <2>3, <2>4
<1>4. Solves(u)
  BY <1>3
<1>5. u[0] = 0 /\ u[1] = x /\ u[2] = x + y
  <2> HIDE DEF u
  <2>1. u[0] = 0
    BY <1>1, <1>4
  <2>2. u[1] = u[0] + x
    BY <1>1, <1>4
  <2>3. u[2] = u[1] + y
    BY <1>1, <1>4
  <2> QED
    BY <1>2, <2>1, <2>2, <2>3
<1>6. \A i : SizeUpTo(a, i) = u[i]
  BY DEF SizeUpTo
<1> QED
  BY <1>1, <1>2, <1>5, <1>6 DEF Held

\* Where SetPosition puts the two parts.
LEMMA PositionSet ==
  ASSUME NEW a, ArrayRight(a), NEW p \in Nat, p <= Held(a), NEW r, r = SetPosition(a, p)
  PROVE  /\ ArrayRight(r)
         /\ \A i \in 1 .. 2 : r.parts[i].data = a.parts[i].data /\ r.parts[i].max = a.parts[i].max
         /\ p <= Len(a.parts[1].data) => r.index = 1 /\ r.parts[1].pos = p /\ r.parts[2].pos = 0
         /\ p > Len(a.parts[1].data) =>
              r.index = 2 /\ r.parts[2].pos = p - Len(a.parts[1].data)
<1> DEFINE x == Len(a.parts[1].data)
           y == Len(a.parts[2].data)
           PosIn(i) == Min({Len(a.parts[i].data), Max({0, p - SizeUpTo(a, i - 1)})})
           reached == {i \in DOMAIN a.parts : p <= SizeUpTo(a, i)}
<1>1. /\ DOMAIN a.parts = 1 .. 2 /\ x \in Nat /\ y \in Nat /\ a.parts \in [1 .. 2 -> PartType]
      /\ SizeUpTo(a, 0) = 0 /\ SizeUpTo(a, 1) = x /\ SizeUpTo(a, 2) = x + y /\ p <= x + y
  BY TwoParts DEF ArrayRight, Held
<1>2. /\ r.index = IF reached = {} THEN 1 ELSE Min(reached)
      /\ r.parts = [i \in 1 .. 2 |-> [a.parts[i] EXCEPT !.pos = PosIn(i)]]
      /\ r = [index |-> r.index, parts |-> r.parts]
  BY <1>1 DEF SetPosition
<1>0. /\ PosIn(1) = Min({x, Max({0, p - 0})})
      /\ PosIn(2) = Min({y, Max({0, p - x})})
      /\ \A i : i \in reached <=> i \in 1 .. 2 /\ p <= SizeUpTo(a, i)
  <2>1. 1 - 1 = 0 /\ 2 - 1 = 1
    OBVIOUS
  <2>2. PosIn(1) = Min({x, Max({0, p - SizeUpTo(a, 0)})})
    BY <2>1
  <2>3. PosIn(2) = Min({y, Max({0, p - SizeUpTo(a, 1)})})
    BY <2>1
  <2>4. \A i : i \in reached <=> i \in 1 .. 2 /\ p <= SizeUpTo(a, i)
    BY <1>1
  <2> QED
    BY <1>1, <2>2, <2>3, <2>4
<1> HIDE DEF x, y, PosIn, reached
<1>3. PosIn(1) = IF p <= x THEN p ELSE x
  <2>2. Max({0, p - 0}) = p
    BY LeastOf
  <2>3. Min({x, p}) = IF p <= x THEN p ELSE x
    BY <1>1, LeastOf
  <2> QED
    BY <1>0, <2>2, <2>3
<1>4. PosIn(2) = IF p <= x THEN 0 ELSE p - x
  <2>1. p - x \in Int /\ (p <= x <=> ~(0 < p - x))
    BY <1>1
  <2>2. Max({0, p - x}) = IF p <= x THEN 0 ELSE p - x
    BY <2>1, LeastOf
  <2>3. Min({y, IF p <= x THEN 0 ELSE p - x}) = IF p <= x THEN 0 ELSE p - x
    <3> DEFINE z == IF p <= x THEN 0 ELSE p - x
    <3>1. z \in Nat /\ z <= y
      BY <1>1
    <3> HIDE DEF z
    <3>2. Min({y, z}) = z
      BY <1>1, <3>1, LeastOf
    <3> QED
      BY <3>2 DEF z
  <2> QED
    BY <1>0, <2>2, <2>3
<1>5. r.index = IF p <= x THEN 1 ELSE 2
  <2>1. CASE p <= x
    <3>1. p <= x + y
      BY <1>1
    <3>2. \A i : i \in reached <=> i = 1 \/ i = 2
      BY <1>0, <1>1, <2>1, <3>1
    <3>3. reached = {1, 2}
      BY <3>2
    <3>4. Min({1, 2}) = 1
      BY LeastOf
    <3> QED
      BY <1>2, <2>1, <3>3, <3>4
  <2>2. CASE p > x
    <3>1. \A i : i \in reached <=> i = 2
      <4>1. ~(p <= x)
        BY <1>1, <2>2
      <4> QED
        BY <1>0, <1>1, <4>1
    <3>2. reached = {2, 2}
      BY <3>1
    <3>3. Min({2, 2}) = 2
      BY LeastOf
    <3>4. ~(p <= x)
      BY <1>1, <2>2
    <3> QED
      BY <1>2, <3>2, <3>3, <3>4
  <2> QED
    BY <1>1, <2>1, <2>2
<1>6. \A i \in 1 .. 2 : PosIn(i) \in Nat
  BY <1>1, <1>3, <1>4
<1>7. ASSUME NEW i \in 1 .. 2
      PROVE  /\ r.parts[i] \in PartType /\ r.parts[i].pos = PosIn(i)
             /\ r.parts[i].data = a.parts[i].data /\ r.parts[i].max = a.parts[i].max
  <2>1. r.parts[i] = [a.parts[i] EXCEPT !.pos = PosIn(i)] /\ a.parts[i] \in PartType
    BY <1>1, <1>2
  <2>2. PICK u \in Nat : u = PosIn(i)
    BY <1>6
  <2> QED
    BY <2>1, <2>2 DEF PartType
<1>8. r.parts \in [1 .. 2 -> PartType] /\ r.index \in 1 .. 2
  BY <1>1, <1>2, <1>5, <1>7
<1>9. ArrayRight(r)
  BY <1>2, <1>7, <1>8 DEF ArrayRight
<1> QED
  BY <1>1, <1>3, <1>4, <1>5, <1>7, <1>9 DEF x, y

\* From the first part, when it stands at its end, to the second one.
Second(a) ==
  [index |-> 2, parts |-> [i \in 1 .. 2 |-> IF i = 2 THEN [a.parts[i] EXCEPT !.pos = 0]
                                            ELSE a.parts[i]]]

\* FUpdateRead and FUpdateWrite move on to the file only from the end of the
\* memory, and never back.
LEMMA GivesWay ==
  ASSUME NEW a, ArrayRight(a)
  PROVE  /\ a.index = 2 => ForWrite(a) = a /\ ForRead(a) = a
         /\ a.index = 1 /\ a.parts[1].pos # a.parts[1].max => ForWrite(a) = a
         /\ a.index = 1 /\ a.parts[1].pos # Len(a.parts[1].data) => ForRead(a) = a
         /\ a.index = 1 /\ a.parts[1].pos = a.parts[1].max => ForWrite(a) = Second(a)
         /\ a.index = 1 /\ a.parts[1].pos = Len(a.parts[1].data) => ForRead(a) = Second(a)
<1>1. Len(a.parts) = 2 /\ DOMAIN a.parts = 1 .. 2
  BY TwoParts DEF ArrayRight
<1>2. a.index = 2 => a.index + 1 .. Len(a.parts) = {}
  BY <1>1
<1>3. a.index = 1 => a.index + 1 .. Len(a.parts) = {2}
  BY <1>1
<1>4. {2} = {2, 2} /\ Min({2, 2}) = 2
  BY LeastOf
<1>5. a.index = 2 => ForWrite(a) = a /\ ForRead(a) = a
  BY <1>2 DEF ForWrite, ForRead, GiveWay
<1>6. ASSUME a.index = 1 PROVE a.parts[a.index].pos # a.parts[1].max => ForWrite(a) = a
  BY <1>6 DEF ForWrite, GiveWay
<1>7. ASSUME a.index = 1 PROVE a.parts[a.index].pos # Len(a.parts[1].data) => ForRead(a) = a
  BY <1>7 DEF ForRead, GiveWay
<1>8. {i \in {2} : a.parts[i].max > 0 \/ i = 2} = {2}
      /\ {i \in {2} : Len(a.parts[i].data) > 0 \/ i = 2} = {2}
  OBVIOUS
<1>9. a.index = 1 => \A i \in 1 .. 2 : i \in a.index + 1 .. 2 <=> i = 2
  OBVIOUS
<1>10. ASSUME a.index = 1, a.parts[1].pos = a.parts[1].max
       PROVE  ForWrite(a) = Second(a)
  <2>1. ForWrite(a) = [index |-> 2,
           parts |-> [i \in DOMAIN a.parts |->
                        IF i \in a.index + 1 .. 2 THEN [a.parts[i] EXCEPT !.pos = 0]
                        ELSE a.parts[i]]]
    BY <1>1, <1>3, <1>4, <1>8, <1>10, ZenonT(30) DEF ForWrite, GiveWay
  <2> QED
    BY <1>1, <1>9, <1>10, <2>1 DEF Second
<1>11. ASSUME a.index = 1, a.parts[1].pos = Len(a.parts[1].data)
       PROVE  ForRead(a) = Second(a)
  <2>1. ForRead(a) = [index |-> 2,
           parts |-> [i \in DOMAIN a.parts |->
                        IF i \in a.index + 1 .. 2 THEN [a.parts[i] EXCEPT !.pos = 0]
                        ELSE a.parts[i]]]
    BY <1>1, <1>3, <1>4, <1>8, <1>11, ZenonT(30) DEF ForRead, GiveWay
  <2> QED
    BY <1>1, <1>9, <1>11, <2>1 DEF Second
<1> QED
  BY <1>5, <1>6, <1>7, <1>10, <1>11

\* The array that has moved on to the file stands at its beginning.
LEMMA SecondIs ==
  ASSUME NEW a, ArrayRight(a), NEW b, b = Second(a)
  PROVE  /\ ArrayRight(b) /\ b.index = 2 /\ b.parts[2].pos = 0 /\ b.parts[1] = a.parts[1]
         /\ b.parts[2].data = a.parts[2].data /\ b.parts[2].max = a.parts[2].max
<1>1. a.parts \in [1 .. 2 -> PartType] /\ a.parts[1] \in PartType /\ a.parts[2] \in PartType
  BY DEF ArrayRight
<1>2. /\ b.index = 2 /\ b.parts[1] = a.parts[1] /\ b.parts[2] = [a.parts[2] EXCEPT !.pos = 0]
      /\ b.parts = [i \in 1 .. 2 |-> b.parts[i]] /\ b = [index |-> b.index, parts |-> b.parts]
  BY DEF Second
<1>3. /\ b.parts[2] \in PartType /\ b.parts[2].pos = 0
      /\ b.parts[2].data = a.parts[2].data /\ b.parts[2].max = a.parts[2].max
  BY <1>1, <1>2, SMTT(40) DEF PartType
<1>4. b.parts \in [1 .. 2 -> PartType]
  <2>1. \A i \in 1 .. 2 : i = 1 \/ i = 2
    OBVIOUS
  <2> QED
    BY <1>1, <1>2, <1>3, <2>1
<1>5. \A i \in 1 .. 2 : Len(b.parts[i].data) <= b.parts[i].max
  <2>1. \A i \in 1 .. 2 : i = 1 \/ i = 2
    OBVIOUS
  <2> QED
    BY <1>2, <1>3, <2>1 DEF ArrayRight
<1> QED
  BY <1>2, <1>3, <1>4, <1>5 DEF ArrayRight

\* What is written at p of data, which may grow.
LEMMA OverwrittenIs ==
  ASSUME NEW d \in Seq(Int), NEW p \in Nat, p <= Len(d), NEW b \in Seq(Int),
         NEW r, r = Overwritten(d, p, b)
  PROVE  /\ r \in Seq(Int)
         /\ Len(r) = IF p + Len(b) < Len(d) THEN Len(d) ELSE p + Len(b)
         /\ \A j \in 1 .. Len(r) :
              r[j] = IF p < j /\ j <= p + Len(b) THEN b[j - p] ELSE d[j]
<1> DEFINE n == Len(b)
           m == Len(d)
<1>1. n \in Nat /\ m \in Nat /\ p + n \in Nat /\ m <= m
  OBVIOUS
<1>2. PICK front : front = SubSeq(d, 1, p)
  OBVIOUS
<1>3. PICK back : back = SubSeq(d, p + n + 1, m)
  OBVIOUS
<1>4. PICK f : f = front \o b
  OBVIOUS
<1>5. r = f \o back
  BY <1>2, <1>3, <1>4 DEF Overwritten
<1> HIDE DEF n, m
<1>6. front \in Seq(Int) /\ Len(front) = p /\ \A j \in 1 .. p : front[j] = d[j]
  <2>1. front = SubSeq(d, 0 + 1, p)
    BY <1>2
  <2>2. /\ front \in Seq(Int) /\ Len(front) = (IF 0 < p THEN p - 0 ELSE 0)
        /\ \A j \in 1 .. Len(front) : front[j] = d[0 + j]
    BY <2>1, PieceIs
  <2> QED
    BY <2>2
<1>7. /\ back \in Seq(Int) /\ Len(back) = (IF p + n < m THEN m - (p + n) ELSE 0)
      /\ \A j \in 1 .. Len(back) : back[j] = d[p + n + j]
  BY <1>1, <1>3, PieceIs DEF m
<1>8. /\ f \in Seq(Int) /\ Len(f) = p + n
      /\ \A j \in 1 .. p + n : f[j] = IF j <= p THEN d[j] ELSE b[j - p]
  <2>1. /\ f \in Seq(Int) /\ Len(f) = Len(front) + Len(b)
        /\ \A j \in 1 .. Len(f) : f[j] = IF j <= Len(front) THEN front[j] ELSE b[j - Len(front)]
    BY <1>4, <1>6, JoinIs
  <2>2. ASSUME NEW j \in 1 .. p + n PROVE f[j] = IF j <= p THEN d[j] ELSE b[j - p]
    BY <1>1, <1>6, <2>1, <2>2, SMTT(40) DEF n
  <2> QED
    BY <1>6, <2>1, <2>2 DEF n
<1>9. /\ r \in Seq(Int) /\ Len(r) = p + n + Len(back)
      /\ \A j \in 1 .. Len(r) : r[j] = IF j <= p + n THEN f[j] ELSE back[j - (p + n)]
  <2>1. /\ r \in Seq(Int) /\ Len(r) = Len(f) + Len(back)
        /\ \A j \in 1 .. Len(r) : r[j] = IF j <= Len(f) THEN f[j] ELSE back[j - Len(f)]
    <3>1. f \in Seq(Int) /\ back \in Seq(Int)
      BY <1>7, <1>8
    <3> QED
      BY <1>5, <3>1, JoinIs
  <2> QED
    BY <1>8, <2>1
<1>10. Len(r) = IF p + n < m THEN m ELSE p + n
  BY <1>1, <1>7, <1>9
<1>11. ASSUME NEW j \in 1 .. Len(r)
       PROVE  r[j] = IF p < j /\ j <= p + n THEN b[j - p] ELSE d[j]
  <2>0. j \in Nat /\ j >= 1 /\ Len(r) \in Nat /\ Len(back) \in Nat
    BY <1>1, <1>7, <1>9
  <2>1. CASE j <= p + n
    <3>1. j \in 1 .. p + n
      BY <1>1, <2>0, <2>1
    <3>2. r[j] = IF j <= p THEN d[j] ELSE b[j - p]
      BY <1>8, <1>9, <2>1, <3>1
    <3> QED
      BY <2>0, <2>1, <3>2
  <2>2. CASE j > p + n
    <3>1. j - (p + n) \in 1 .. Len(back) /\ p + n + (j - (p + n)) = j /\ ~(j <= p + n)
      BY <1>1, <1>9, <2>0, <2>2
    <3>2. r[j] = back[j - (p + n)]
      BY <1>9, <3>1
    <3>3. back[j - (p + n)] = d[p + n + (j - (p + n))]
      BY <1>7, <3>1
    <3> QED
      BY <3>1, <3>2, <3>3
  <2> QED
    BY <1>1, <2>0, <2>1, <2>2
<1> QED
  BY <1>9, <1>10, <1>11 DEF n, m

\* Bytes b may be written at p of data d.
CanOverwrite(d, p, b) == d \in Seq(Int) /\ p \in Nat /\ p <= Len(d) /\ b \in Seq(Int)

\* What r is then.
IsOverwritten(r, d, p, b) ==
  /\ r \in Seq(Int)
  /\ Len(r) = IF p + Len(b) < Len(d) THEN Len(d) ELSE p + Len(b)
  /\ \A j \in 1 .. Len(r) :
       r[j] = IF p < j /\ j <= p + Len(b) THEN b[j - p] ELSE d[j]

\* The same, for provers that do not look at the arithmetic.
LEMMA OverwrittenRight ==
  ASSUME NEW d, NEW p, NEW b, CanOverwrite(d, p, b)
  PROVE  IsOverwritten(Overwritten(d, p, b), d, p, b)
<1>1. d \in Seq(Int) /\ p \in Nat /\ p <= Len(d) /\ b \in Seq(Int)
  BY DEF CanOverwrite
<1>2. PICK r : r = Overwritten(d, p, b)
  OBVIOUS
<1>3. /\ r \in Seq(Int)
      /\ Len(r) = IF p + Len(b) < Len(d) THEN Len(d) ELSE p + Len(b)
      /\ \A j \in 1 .. Len(r) :
           r[j] = IF p < j /\ j <= p + Len(b) THEN b[j - p] ELSE d[j]
  BY <1>1, <1>2, OverwrittenIs
<1> QED
  BY <1>2, <1>3 DEF IsOverwritten

\* A part that holds d and stands n bytes further; an array with this part.
MovedPart(part, d, n) == [part EXCEPT !.data = d, !.pos = part.pos + n]
\* The array with another stream i.
WithPart(a, i, part) == [a EXCEPT !.parts[i] = part]

\* n bytes of b are written at the place of a part that has room for them.
LEMMA PartWritten ==
  ASSUME NEW part \in PartType, part.pos <= Len(part.data), Len(part.data) <= part.max,
         NEW b \in Seq(Int), NEW n \in Nat, n <= Len(b), part.pos + n <= part.max,
         NEW d, d = Overwritten(part.data, part.pos, SubSeq(b, 1, n)),
         NEW new, new = MovedPart(part, d, n)
  PROVE  /\ new \in PartType /\ new.data = d /\ new.pos = part.pos + n /\ new.max = part.max
         /\ Len(d) = IF part.pos + n < Len(part.data) THEN Len(part.data) ELSE part.pos + n
         /\ Len(d) <= part.max
<1>1. PICK c : c = SubSeq(b, 1, n)
  OBVIOUS
<1>2. c \in Seq(Int) /\ Len(c) = n
  BY <1>1, CutIs
<1>3. part.pos \in Nat /\ part.data \in Seq(Int) /\ part.max \in Nat
  BY DEF PartType
<1>4. PICK p \in Nat : p = part.pos
  BY <1>3
<1>5. PICK e \in Seq(Int) : e = part.data
  BY <1>3
<1>6. d = Overwritten(e, p, c) /\ p <= Len(e)
  BY <1>1, <1>4, <1>5
<1>7. d \in Seq(Int) /\ Len(d) = IF p + Len(c) < Len(e) THEN Len(e) ELSE p + Len(c)
  BY <1>2, <1>6, OverwrittenIs
<1>8. Len(d) = IF p + n < Len(e) THEN Len(e) ELSE p + n
  BY <1>2, <1>7
<1>9. PICK q \in Nat : q = part.pos + n
  BY <1>3
<1>10. new \in PartType /\ new.data = d /\ new.pos = part.pos + n /\ new.max = part.max
  BY <1>7, <1>9 DEF PartType, MovedPart
<1>11. Len(d) <= part.max
  BY <1>3, <1>4, <1>5, <1>8
<1> QED
  BY <1>4, <1>5, <1>8, <1>10, <1>11

\* The array with another part at its index.
LEMMA PartReplaced ==
  ASSUME NEW a, ArrayRight(a), NEW i, i = a.index, NEW new \in PartType,
         new.max = a.parts[i].max, Len(new.data) <= new.max,
         Len(new.data) >= Len(a.parts[i].data),
         i = 2 /\ Len(new.data) > 0 => Len(a.parts[1].data) = a.parts[1].max,
         NEW t, t = WithPart(a, i, new)
  PROVE  /\ ArrayRight(t) /\ t.index = i /\ t.parts[i] = new
         /\ t.parts[3 - i] = a.parts[3 - i]
<1>1. /\ i \in 1 .. 2 /\ a.parts \in [1 .. 2 -> PartType]
      /\ a = [index |-> i, parts |-> a.parts]
  BY DEF ArrayRight
<1>2. t = [index |-> i, parts |-> [a.parts EXCEPT ![i] = new]]
  BY <1>1 DEF WithPart
<1>3. /\ t.index = i /\ t.parts = [a.parts EXCEPT ![i] = new]
      /\ t = [index |-> t.index, parts |-> t.parts]
  BY <1>2
<1>4. t.parts \in [1 .. 2 -> PartType] /\ t.parts[i] = new /\ t.parts[3 - i] = a.parts[3 - i]
  BY <1>1, <1>3
<1>5. \A j \in 1 .. 2 : j = i \/ j = 3 - i
  BY <1>1
<1>6. \A j \in 1 .. 2 : Len(t.parts[j].data) <= t.parts[j].max
  <2>1. \A j \in 1 .. 2 : Len(a.parts[j].data) <= a.parts[j].max
    BY DEF ArrayRight
  <2> QED
    BY <1>1, <1>4, <1>5, <2>1
<1>7. ASSUME Len(t.parts[2].data) > 0 PROVE Len(t.parts[1].data) = t.parts[1].max
  <2>1. CASE i = 2
    BY <1>4, <1>7, <2>1
  <2>2. CASE i = 1
    <3>1. t.parts[2] = a.parts[2] /\ t.parts[1] = new
      BY <1>4, <2>2
    <3>2. Len(a.parts[1].data) = a.parts[1].max
      BY <1>7, <3>1 DEF ArrayRight
    <3>3. /\ Len(new.data) \in Nat /\ new.max \in Nat /\ Len(a.parts[1].data) \in Nat
          /\ Len(new.data) >= Len(a.parts[1].data) /\ new.max = a.parts[1].max
      BY <1>1, <2>2 DEF PartType
    <3> QED
      BY <3>1, <3>2, <3>3
  <2> QED
    BY <1>1, <2>1, <2>2
<1> QED
  BY <1>1, <1>3, <1>4, <1>6, <1>7 DEF ArrayRight

\* One call of Write.
Fits(a, b) ==
  LET room == a.parts[a.index].max - a.parts[a.index].pos
  IN IF room < Len(b) THEN room ELSE Len(b)

\* One call of the stream that takes its turn: Write puts the first n bytes
\* behind its position and leaves the other stream alone.
LEMMA WriteCall ==
  ASSUME NEW s, NEW a, a = ForWrite(s.array), ArrayRight(a), s.bytes \in Seq(Int),
         a.parts[a.index].pos <= Len(a.parts[a.index].data),
         NEW n, n = Fits(a, s.bytes), n > 0,
         a.index = 2 => Len(a.parts[1].data) = a.parts[1].max,
         NEW t, t = Write(s)
  PROVE  /\ n \in Nat /\ n <= Len(s.bytes)
         /\ a.parts[a.index].pos + n <= a.parts[a.index].max
         /\ t.bytes = SubSeq(s.bytes, n + 1, Len(s.bytes)) /\ t.bytes \in Seq(Int)
         /\ Len(t.bytes) = Len(s.bytes) - n
         /\ ArrayRight(t.array) /\ t.array.index = a.index
         /\ t.array.parts[3 - a.index] = a.parts[3 - a.index]
         /\ t.array.parts[a.index].pos = a.parts[a.index].pos + n
         /\ t.array.parts[a.index].max = a.parts[a.index].max
         /\ t.array.parts[a.index].data =
              Overwritten(a.parts[a.index].data, a.parts[a.index].pos, SubSeq(s.bytes, 1, n))
<1>1. PICK i : i = a.index
  OBVIOUS
<1>2. PICK part : part = a.parts[i]
  OBVIOUS
<1>3. i \in 1 .. 2 /\ part \in PartType /\ Len(part.data) <= part.max
  BY <1>1, <1>2 DEF ArrayRight
<1>4. /\ part.pos \in Nat /\ part.max \in Nat /\ part.data \in Seq(Int) /\ Len(part.data) \in Nat
      /\ part.pos <= Len(part.data)
  BY <1>1, <1>2, <1>3 DEF PartType
<1>5. PICK x \in Int : x = part.max - part.pos
  BY <1>4
<1>6. PICK y \in Nat : y = Len(s.bytes)
  OBVIOUS
<1>7. n = IF x < y THEN x ELSE y
  BY <1>1, <1>2, <1>5, <1>6 DEF Fits
<1>8. n \in Nat /\ n <= y /\ part.pos + n <= part.max
  BY <1>4, <1>5, <1>7
<1>9. Min({x, y}) = n
  BY <1>7, LeastOf
<1>10. PICK d : d = Overwritten(part.data, part.pos, SubSeq(s.bytes, 1, n))
  OBVIOUS
<1>11. PICK new : new = MovedPart(part, d, n)
  OBVIOUS
<1>12. /\ new \in PartType /\ new.data = d /\ new.pos = part.pos + n /\ new.max = part.max
       /\ Len(d) = IF part.pos + n < Len(part.data) THEN Len(part.data) ELSE part.pos + n
       /\ Len(d) <= part.max
  <2>1. PICK b \in Seq(Int) : b = s.bytes
    OBVIOUS
  <2>2. n <= Len(b) /\ d = Overwritten(part.data, part.pos, SubSeq(b, 1, n))
    BY <1>6, <1>8, <1>10, <2>1
  <2> QED
    BY <1>3, <1>4, <1>8, <1>11, <2>2, PartWritten, SMTT(40)
<1>13. t = [array |-> WithPart(a, i, new), bytes |-> SubSeq(s.bytes, n + 1, Len(s.bytes))]
  <2>1. Min({a.parts[a.index].max - a.parts[a.index].pos, Len(s.bytes)}) = n
    BY <1>1, <1>2, <1>5, <1>6, <1>9
  <2>2. n # 0
    BY <1>8
  <2> QED
    BY <1>1, <1>2, <1>10, <1>11, <2>1, <2>2, Zenon DEF Write, WithPart, MovedPart
<1>14. PICK u : u = WithPart(a, i, new)
  OBVIOUS
<1>15. t.array = u /\ t.bytes = SubSeq(s.bytes, n + 1, Len(s.bytes))
  <2>1. PICK r : r = SubSeq(s.bytes, n + 1, Len(s.bytes))
    OBVIOUS
  <2>2. t = [array |-> u, bytes |-> r]
    BY <1>13, <1>14, <2>1
  <2>3. t.array = u /\ t.bytes = r
    BY <2>2
  <2> QED
    BY <2>1, <2>3
<1>16. t.bytes \in Seq(Int) /\ Len(t.bytes) = Len(s.bytes) - n
  <2>1. n \in Nat /\ n <= Len(s.bytes)
    BY <1>6, <1>8
  <2> QED
    BY <1>15, <2>1, CutIs, SMTT(40)
<1>17. Len(new.data) >= Len(a.parts[i].data) /\ Len(new.data) <= new.max
  BY <1>2, <1>4, <1>8, <1>12
<1>18. ArrayRight(u) /\ u.index = i /\ u.parts[i] = new /\ u.parts[3 - i] = a.parts[3 - i]
  <2>1. new.max = a.parts[i].max
    BY <1>2, <1>12
  <2> QED
    <3>1. i = 2 /\ Len(new.data) > 0 => Len(a.parts[1].data) = a.parts[1].max
      BY <1>1
    <3>2. new \in PartType
      BY <1>12
    <3>3. ArrayRight(a) /\ i = a.index /\ u = WithPart(a, i, new)
      BY <1>1, <1>14
    <3>4. Len(new.data) <= new.max /\ Len(new.data) >= Len(a.parts[i].data)
      BY <1>17
    <3> QED
      BY <2>1, <3>1, <3>2, <3>3, <3>4, PartReplaced
<1> QED
  BY <1>1, <1>2, <1>6, <1>8, <1>10, <1>12, <1>15, <1>16, <1>18

\* Where the array stands, in its bytes; that this is a place it has; and that
\* the second part is not before its turn.
Place(a) == IF a.index = 1 THEN a.parts[1].pos ELSE Len(a.parts[1].data) + a.parts[2].pos
\* No stream stands behind its end, and the file is written only when the
\* memory is full.
Stands(a) == a.parts[a.index].pos <= Len(a.parts[a.index].data)
InTurn(a) == a.index = 2 => Len(a.parts[1].data) = a.parts[1].max

\* The same bytes.
SameBytes(a, b) ==
  \A i \in 1 .. 2 : b.parts[i].data = a.parts[i].data /\ b.parts[i].max = a.parts[i].max

\* The fields of SameBytes, one by one.
LEMMA SameIs ==
  ASSUME NEW a, NEW b, SameBytes(a, b)
  PROVE  Held(b) = Held(a) /\ Limit(b) = Limit(a) /\ \A q : ByteAt(b, q) = ByteAt(a, q)
<1>1. 1 \in 1 .. 2 /\ 2 \in 1 .. 2
  OBVIOUS
<1> QED
  BY <1>1 DEF SameBytes, Held, Limit, ByteAt

\* Both streams of a right array are well formed and within their bounds.
LEMMA ArrayParts ==
  ASSUME NEW a, ArrayRight(a), NEW i \in 1 .. 2
  PROVE  /\ a.parts[i] \in PartType /\ a.parts[i].data \in Seq(Int) /\ a.parts[i].pos \in Nat
         /\ a.parts[i].max \in Nat /\ Len(a.parts[i].data) \in Nat
         /\ Len(a.parts[i].data) <= a.parts[i].max
<1>1. a.parts[i] \in PartType /\ Len(a.parts[i].data) <= a.parts[i].max
  BY DEF ArrayRight
<1> QED
  BY <1>1 DEF PartType

\* FSetPos changes no byte, and the array stands at the place it was told.
LEMMA PositionStands ==
  ASSUME NEW a, ArrayRight(a), NEW p \in Nat, p <= Held(a), NEW r, r = SetPosition(a, p)
  PROVE  ArrayRight(r) /\ SameBytes(a, r) /\ Stands(r) /\ InTurn(r) /\ Place(r) = p
<1>1. /\ ArrayRight(r)
      /\ \A i \in 1 .. 2 : r.parts[i].data = a.parts[i].data /\ r.parts[i].max = a.parts[i].max
      /\ p <= Len(a.parts[1].data) => r.index = 1 /\ r.parts[1].pos = p /\ r.parts[2].pos = 0
      /\ p > Len(a.parts[1].data) =>
              r.index = 2 /\ r.parts[2].pos = p - Len(a.parts[1].data)
  BY PositionSet
<1>2. PICK x \in Nat : x = Len(a.parts[1].data)
  BY ArrayParts
<1>3. PICK y \in Nat : y = Len(a.parts[2].data)
  BY ArrayParts
<1>4. p <= x + y
  BY <1>2, <1>3 DEF Held
<1>5. Len(r.parts[1].data) = x /\ Len(r.parts[2].data) = y
  BY <1>1, <1>2, <1>3
<1>6. CASE p <= x
  <2>1. r.index = 1 /\ r.parts[1].pos = p
    BY <1>1, <1>2, <1>6
  <2> QED
    BY <1>1, <1>5, <1>6, <2>1 DEF SameBytes, Stands, InTurn, Place
<1>7. CASE p > x
  <2>1. r.index = 2 /\ r.parts[2].pos = p - x /\ y > 0 /\ p - x <= y /\ x + (p - x) = p
    BY <1>1, <1>2, <1>4, <1>7
  <2>2. Len(a.parts[1].data) = a.parts[1].max
    BY <1>3, <2>1 DEF ArrayRight
  <2> QED
    BY <1>1, <1>2, <1>5, <2>1, <2>2, SMTT(40) DEF SameBytes, Stands, InTurn, Place
<1> QED
  BY <1>6, <1>7

\* What ForWrite and ForRead leave.
LEMMA WriteTurn ==
  ASSUME NEW s, ArrayRight(s), Stands(s), InTurn(s), NEW a, a = ForWrite(s)
  PROVE  /\ ArrayRight(a) /\ Stands(a) /\ InTurn(a) /\ Place(a) = Place(s) /\ SameBytes(s, a)
         /\ s.index = 2 => a.index = 2
         /\ s.index = 1 => a.index = IF s.parts[1].pos = s.parts[1].max THEN 2 ELSE 1
<1>1. s.index \in 1 .. 2
  BY DEF ArrayRight
<1>2. CASE s.index = 1 /\ s.parts[1].pos = s.parts[1].max
  <2>1. a = Second(s)
    BY <1>2, GivesWay
  <2>2. /\ ArrayRight(a) /\ a.index = 2 /\ a.parts[2].pos = 0 /\ a.parts[1] = s.parts[1]
        /\ a.parts[2].data = s.parts[2].data /\ a.parts[2].max = s.parts[2].max
    BY <2>1, SecondIs
  <2>3. Len(s.parts[1].data) = s.parts[1].max /\ s.parts[1].max \in Nat
    <3>1. s.parts[1].pos <= Len(s.parts[1].data)
      BY <1>2 DEF Stands
    <3>2. /\ Len(s.parts[1].data) <= s.parts[1].max /\ Len(s.parts[1].data) \in Nat
          /\ s.parts[1].max \in Nat
      BY ArrayParts
    <3> QED
      BY <1>2, <3>1, <3>2
  <2>4. Stands(a)
    <3>1. 0 <= Len(a.parts[2].data)
      BY <2>2, ArrayParts
    <3> QED
      BY <2>2, <3>1 DEF Stands
  <2>5. SameBytes(s, a)
    <3>1. \A i \in 1 .. 2 : i = 1 \/ i = 2
      OBVIOUS
    <3> QED
      BY <2>2, <3>1 DEF SameBytes
  <2>6. Place(a) = Place(s) /\ InTurn(a)
    BY <1>2, <2>2, <2>3 DEF Place, InTurn
  <2> QED
    BY <1>2, <2>2, <2>4, <2>5, <2>6
<1>3. CASE ~(s.index = 1 /\ s.parts[1].pos = s.parts[1].max)
  <2>1. a = s
    BY <1>1, <1>3, GivesWay
  <2> QED
    BY <1>1, <1>3, <2>1 DEF SameBytes
<1> QED
  BY <1>2, <1>3

\* The stream whose turn it is to be read: nothing else moves.
LEMMA ReadTurn ==
  ASSUME NEW s, ArrayRight(s), Stands(s), NEW a, a = ForRead(s)
  PROVE  /\ ArrayRight(a) /\ Stands(a) /\ Place(a) = Place(s) /\ SameBytes(s, a)
         /\ s.index = 2 => a.index = 2
         /\ s.index = 1 => a.index = IF s.parts[1].pos = Len(s.parts[1].data) THEN 2 ELSE 1
<1>1. s.index \in 1 .. 2
  BY DEF ArrayRight
<1>2. CASE s.index = 1 /\ s.parts[1].pos = Len(s.parts[1].data)
  <2>1. a = Second(s)
    BY <1>2, GivesWay
  <2>2. /\ ArrayRight(a) /\ a.index = 2 /\ a.parts[2].pos = 0 /\ a.parts[1] = s.parts[1]
        /\ a.parts[2].data = s.parts[2].data /\ a.parts[2].max = s.parts[2].max
    BY <2>1, SecondIs
  <2>3. Len(s.parts[1].data) \in Nat
    BY ArrayParts
  <2>4. Stands(a)
    <3>1. 0 <= Len(a.parts[2].data)
      BY <2>2, ArrayParts
    <3> QED
      BY <2>2, <3>1 DEF Stands
  <2>5. SameBytes(s, a)
    <3>1. \A i \in 1 .. 2 : i = 1 \/ i = 2
      OBVIOUS
    <3> QED
      BY <2>2, <3>1 DEF SameBytes
  <2>6. Place(a) = Place(s)
    BY <1>2, <2>2, <2>3 DEF Place
  <2> QED
    BY <1>2, <2>2, <2>4, <2>5, <2>6
<1>3. CASE ~(s.index = 1 /\ s.parts[1].pos = Len(s.parts[1].data))
  <2>1. a = s
    BY <1>1, <1>3, GivesWay
  <2> QED
    BY <1>1, <1>3, <2>1 DEF SameBytes
<1> QED
  BY <1>2, <1>3

\* Bytes that are written into one part are written into the array.
LEMMA WrittenAt ==
  ASSUME NEW a, ArrayRight(a), Stands(a), InTurn(a), NEW n \in Nat, n > 0, NEW t, ArrayRight(t),
         NEW b \in Seq(Int), n <= Len(b), t.index = a.index,
         a.parts[a.index].pos + n <= a.parts[a.index].max,
         t.parts[3 - a.index] = a.parts[3 - a.index],
         t.parts[a.index].pos = a.parts[a.index].pos + n,
         t.parts[a.index].max = a.parts[a.index].max,
         t.parts[a.index].data =
           Overwritten(a.parts[a.index].data, a.parts[a.index].pos, SubSeq(b, 1, n))
  PROVE  /\ Stands(t) /\ InTurn(t) /\ Place(t) = Place(a) + n /\ Limit(t) = Limit(a)
         /\ Held(t) = IF Place(a) + n < Held(a) THEN Held(a) ELSE Place(a) + n
         /\ \A q \in 0 .. Held(t) - 1 :
              ByteAt(t, q) = IF Place(a) <= q /\ q < Place(a) + n THEN b[q - Place(a) + 1]
                             ELSE ByteAt(a, q)
<1>1. PICK i \in 1 .. 2 : i = a.index
  BY DEF ArrayRight
<1>2. PICK d \in Seq(Int) : d = a.parts[i].data
  BY ArrayParts
<1>3. PICK p \in Nat : p = a.parts[i].pos
  BY ArrayParts
<1>4. PICK e : e = t.parts[i].data
  OBVIOUS
<1>5. PICK c : c = SubSeq(b, 1, n)
  OBVIOUS
<1>6. c \in Seq(Int) /\ Len(c) = n /\ \A j \in 1 .. n : c[j] = b[j]
  BY <1>5, CutIs
<1>7. p <= Len(d)
  BY <1>1, <1>2, <1>3 DEF Stands
<1>8. /\ e \in Seq(Int) /\ Len(e) = IF p + n < Len(d) THEN Len(d) ELSE p + n
      /\ \A j \in 1 .. Len(e) : e[j] = IF p < j /\ j <= p + n THEN c[j - p] ELSE d[j]
  <2>1. e = Overwritten(d, p, c)
    BY <1>1, <1>2, <1>3, <1>4, <1>5
  <2>2. /\ e \in Seq(Int) /\ Len(e) = IF p + Len(c) < Len(d) THEN Len(d) ELSE p + Len(c)
        /\ \A j \in 1 .. Len(e) : e[j] = IF p < j /\ j <= p + Len(c) THEN c[j - p] ELSE d[j]
    <3>1. CanOverwrite(d, p, c)
      BY <1>6, <1>7 DEF CanOverwrite
    <3>2. IsOverwritten(e, d, p, c)
      BY <2>1, <3>1, OverwrittenRight, Zenon
    <3> QED
      BY <3>2, Zenon DEF IsOverwritten
  <2> QED
    BY <1>6, <2>2
<1>9. PICK m \in Nat : m = Len(d)
  BY <1>2
<1>10. PICK k \in Nat : k = Len(e) /\ k = (IF p + n < m THEN m ELSE p + n)
  <2>1. Len(e) = IF p + n < m THEN m ELSE p + n
    BY <1>8, <1>9
  <2>2. Len(e) \in Nat
    BY <1>8
  <2> QED
    BY <2>1, <2>2
<1>11. t.index = i /\ t.parts[i].pos = p + n /\ t.parts[3 - i] = a.parts[3 - i]
       /\ t.parts[i].max = a.parts[i].max /\ p <= m /\ p + n <= k
  <2>1. t.index = i /\ t.parts[i].pos = p + n /\ t.parts[3 - i] = a.parts[3 - i]
        /\ t.parts[i].max = a.parts[i].max
    BY <1>1, <1>3, Zenon
  <2>2. p <= m
    BY <1>7, <1>9, Zenon
  <2>3. p + n <= k
    BY <1>10
  <2> QED
    BY <2>1, <2>2, <2>3, Zenon
<1>12. ASSUME NEW j \in 1 .. k
       PROVE  e[j] = IF p < j /\ j <= p + n THEN b[j - p] ELSE d[j]
  <2>1. e[j] = IF p < j /\ j <= p + n THEN c[j - p] ELSE d[j]
    BY <1>8, <1>10
  <2>2. p < j /\ j <= p + n => j - p \in 1 .. n
    OBVIOUS
  <2> QED
    BY <1>6, <2>1, <2>2
<1>13. CASE i = 1
  <2>1. 3 - i = 2
    BY <1>13
  <2>2. PICK y \in Nat : y = Len(a.parts[2].data)
    BY ArrayParts, SMTT(40)
  <2>3. y > 0 => m = a.parts[1].max
    BY <1>2, <1>9, <1>13, <2>2 DEF ArrayRight
  <2>4. y > 0 => k = m
    <3>1. p + n <= a.parts[1].max
      BY <1>1, <1>3, <1>13
    <3> QED
      BY <1>10, <2>3, <3>1, SMTT(40)
  <2>5. Place(a) = p /\ Place(t) = p + n
    BY <1>1, <1>3, <1>11, <1>13 DEF Place
  <2>6. Stands(t) /\ InTurn(t)
    <3>1. t.index = 1 /\ t.parts[1].pos = p + n /\ Len(t.parts[1].data) = k
      BY <1>4, <1>10, <1>11, <1>13
    <3> QED
      BY <1>11, <3>1 DEF Stands, InTurn
  <2>7. Limit(t) = Limit(a)
    BY <1>11, <1>13, <2>1 DEF Limit
  <2>8. Held(a) = m + y /\ Held(t) = k + y
    BY <1>2, <1>4, <1>9, <1>10, <1>11, <1>13, <2>1, <2>2 DEF Held
  <2>9. Held(t) = IF p + n < Held(a) THEN Held(a) ELSE p + n
    BY <1>10, <2>4, <2>8
  <2>10. ASSUME NEW q \in 0 .. Held(t) - 1
         PROVE  ByteAt(t, q) = IF p <= q /\ q < p + n THEN b[q - p + 1] ELSE ByteAt(a, q)
    <3>1. ByteAt(t, q) = IF q < k THEN e[q + 1] ELSE a.parts[2].data[q - k + 1]
      BY <1>4, <1>10, <1>11, <1>13, <2>1 DEF ByteAt
    <3>2. ByteAt(a, q) = IF q < m THEN d[q + 1] ELSE a.parts[2].data[q - m + 1]
      BY <1>2, <1>9, <1>13 DEF ByteAt
    <3>3. CASE q < k
      <4>1. q + 1 \in 1 .. k /\ q + 1 - p = q - p + 1
        BY <2>8, <3>3
      <4>2. ByteAt(t, q) = IF p < q + 1 /\ q + 1 <= p + n THEN b[q - p + 1] ELSE d[q + 1]
        BY <1>12, <3>1, <3>3, <4>1, SMTT(40)
      <4>3. ~(p <= q /\ q < p + n) => q < m
        BY <1>10, <1>11, <2>8, <3>3
      <4> QED
        BY <2>8, <3>2, <4>2, <4>3
    <3>4. CASE q >= k
      <4>1. y > 0 /\ k = m
        BY <2>4, <2>8, <3>4
      <4>2. ~(q < k) /\ ~(q < m) /\ ~(q < p + n)
        BY <1>11, <2>8, <3>4, <4>1
      <4> QED
        BY <3>1, <3>2, <4>1, <4>2
    <3> QED
      BY <2>8, <3>3, <3>4
  <2> QED
    BY <2>5, <2>6, <2>7, <2>9, <2>10
<1>14. CASE i = 2
  <2>1. 3 - i = 1
    BY <1>14
  <2>2. PICK x \in Nat : x = Len(a.parts[1].data)
    <3>1. 1 \in 1 .. 2
      OBVIOUS
    <3>2. Len(a.parts[1].data) \in Nat
      BY <3>1, ArrayParts, Zenon
    <3> QED
      BY <3>2, Zenon
  <2>5. Place(a) = x + p /\ Place(t) = x + p + n
    <3>1. t.parts[1] = a.parts[1]
      BY <1>11, <2>1
    <3>2. Place(t) = x + (p + n)
      <4>1. t.index = 2 /\ t.parts[2].pos = p + n
        BY <1>11, <1>14
      <4> QED
        BY <2>2, <3>1, <4>1 DEF Place
    <3>3. Place(a) = x + p
      BY <1>1, <1>3, <1>14, <2>2 DEF Place
    <3> QED
      BY <3>2, <3>3
  <2>6. Stands(t) /\ InTurn(t)
    BY <1>1, <1>4, <1>10, <1>11, <1>14, <2>1 DEF Stands, InTurn
  <2>7. Limit(t) = Limit(a)
    BY <1>11, <1>14, <2>1 DEF Limit
  <2>8. Held(a) = x + m /\ Held(t) = x + k
    BY <1>2, <1>4, <1>9, <1>10, <1>11, <1>14, <2>1, <2>2 DEF Held
  <2>9. Held(t) = IF x + p + n < Held(a) THEN Held(a) ELSE x + p + n
    BY <1>10, <2>8
  <2>10. ASSUME NEW q \in 0 .. Held(t) - 1
         PROVE  ByteAt(t, q) = IF x + p <= q /\ q < x + p + n THEN b[q - (x + p) + 1]
                               ELSE ByteAt(a, q)
    <3>1. ByteAt(t, q) = IF q < x THEN a.parts[1].data[q + 1] ELSE e[q - x + 1]
      BY <1>4, <1>11, <1>14, <2>1, <2>2 DEF ByteAt
    <3>2. ByteAt(a, q) = IF q < x THEN a.parts[1].data[q + 1] ELSE d[q - x + 1]
      BY <1>2, <1>14, <2>2 DEF ByteAt
    <3>3. CASE q < x
      BY <2>8, <3>1, <3>2, <3>3
    <3>4. CASE q >= x
      <4>1. q - x + 1 \in 1 .. k /\ q - x + 1 - p = q - (x + p) + 1 /\ ~(q < x)
        BY <2>8, <3>4, SMTT(40)
      <4>2. e[q - x + 1] = IF p < q - x + 1 /\ q - x + 1 <= p + n THEN b[q - x + 1 - p]
                           ELSE d[q - x + 1]
        BY <1>12, <4>1
      <4>3. (p < q - x + 1 /\ q - x + 1 <= p + n) <=> (x + p <= q /\ q < x + p + n)
        BY <2>8, SMTT(40)
      <4> QED
        BY <3>1, <3>2, <4>1, <4>2, <4>3
    <3> QED
      BY <2>8, <3>3, <3>4
  <2> QED
    BY <2>5, <2>6, <2>7, <2>9, <2>10
<1> QED
  BY <1>13, <1>14

\* The array with what is left to write, or with what has been read.
State(a, bytes) == [array |-> a, bytes |-> bytes]

\* The fields of the state of a loop.
LEMMA StateIs ==
  ASSUME NEW a, NEW bytes
  PROVE  State(a, bytes).array = a /\ State(a, bytes).bytes = bytes
BY DEF State

\* The loop of the array calls Write at most once for each stream.
LEMMA WriteCalls ==
  ASSUME NEW a, a.parts \in [1 .. 2 -> PartType], NEW bytes
  PROVE  WriteArray(a, bytes) = Write(Write(State(a, bytes))).array
<1>1. Len(a.parts) = 2
  BY TwoParts
<1> DEFINE c0 == State(a, bytes)
           Solves(g) == g = [i \in 0 .. Len(a.parts) |->
                               IF i = 0 THEN [array |-> a, bytes |-> bytes] ELSE Write(g[i - 1])]
           u == CHOOSE g : Solves(g)
           s == [i \in 0 .. 2 |-> IF i = 0 THEN c0 ELSE IF i = 1 THEN Write(c0) ELSE Write(Write(c0))]
<1>2. Solves(s)
  <2>1. \A i \in 0 .. 2 : i = 0 \/ i = 1 \/ i = 2
    OBVIOUS
  <2>2. s[0] = c0 /\ s[1] = Write(c0) /\ s[2] = Write(Write(c0)) /\ 1 - 1 = 0 /\ 2 - 1 = 1
    OBVIOUS
  <2>3. s = [i \in 0 .. 2 |-> s[i]]
    OBVIOUS
  <2> HIDE DEF s
  <2>4. \A i \in 0 .. 2 : s[i] = IF i = 0 THEN c0 ELSE Write(s[i - 1])
    BY <2>1, <2>2
  <2>5. c0 = [array |-> a, bytes |-> bytes]
    BY DEF State
  <2> HIDE DEF c0
  <2> QED
    BY <1>1, <2>3, <2>4, <2>5
<1>3. Solves(u)
  BY <1>2
<1>4. u[2] = Write(Write(c0))
  <2> HIDE DEF u
  <2>1. u[0] = [array |-> a, bytes |-> bytes]
    BY <1>1, <1>3
  <2>2. u[0] = c0
    BY <2>1 DEF State
  <2>3. u[1] = Write(u[0])
    BY <1>1, <1>3
  <2>4. u[2] = Write(u[1])
    BY <1>1, <1>3
  <2> QED
    BY <2>2, <2>3, <2>4
<1> QED
  BY <1>1, <1>4 DEF WriteArray

\* The loop of the array calls Read at most once for each stream.
LEMMA ReadCalls ==
  ASSUME NEW a, a.parts \in [1 .. 2 -> PartType], NEW n
  PROVE  ReadArray(a, n) = Read(Read(State(a, <<>>), n), n)
<1>1. Len(a.parts) = 2
  BY TwoParts
<1> DEFINE c0 == State(a, <<>>)
           Solves(g) == g = [i \in 0 .. Len(a.parts) |->
                               IF i = 0 THEN [array |-> a, bytes |-> <<>>] ELSE Read(g[i - 1], n)]
           u == CHOOSE g : Solves(g)
           s == [i \in 0 .. 2 |-> IF i = 0 THEN c0 ELSE IF i = 1 THEN Read(c0, n)
                                  ELSE Read(Read(c0, n), n)]
<1>2. Solves(s)
  <2>1. \A i \in 0 .. 2 : i = 0 \/ i = 1 \/ i = 2
    OBVIOUS
  <2>2. s[0] = c0 /\ s[1] = Read(c0, n) /\ s[2] = Read(Read(c0, n), n) /\ 1 - 1 = 0 /\ 2 - 1 = 1
    OBVIOUS
  <2>3. s = [i \in 0 .. 2 |-> s[i]]
    OBVIOUS
  <2> HIDE DEF s
  <2>4. \A i \in 0 .. 2 : s[i] = IF i = 0 THEN c0 ELSE Read(s[i - 1], n)
    BY <2>1, <2>2
  <2>5. c0 = [array |-> a, bytes |-> <<>>]
    BY DEF State
  <2> HIDE DEF c0
  <2> QED
    BY <1>1, <2>3, <2>4, <2>5
<1>3. Solves(u)
  BY <1>2
<1>4. u[2] = Read(Read(c0, n), n)
  <2> HIDE DEF u
  <2>1. u[0] = [array |-> a, bytes |-> <<>>]
    BY <1>1, <1>3
  <2>2. u[0] = c0
    BY <2>1 DEF State
  <2>3. u[1] = Read(u[0], n)
    BY <1>1, <1>3
  <2>4. u[2] = Read(u[1], n)
    BY <1>1, <1>3
  <2> QED
    BY <2>2, <2>3, <2>4
<1> QED
  BY <1>1, <1>4 DEF ReadArray

\* A call that has nothing to write.
LEMMA NothingToWrite ==
  ASSUME NEW s, ArrayRight(s.array), Stands(s.array), InTurn(s.array), s.bytes \in Seq(Int),
         Len(s.bytes) = 0
  PROVE  Write(s) = s
<1>1. PICK a : a = ForWrite(s.array)
  OBVIOUS
<1>2. ArrayRight(a) /\ Stands(a)
  BY <1>1, WriteTurn
<1>3. PICK i \in 1 .. 2 : i = a.index
  BY <1>2 DEF ArrayRight
<1>4. /\ a.parts[i].pos \in Nat /\ a.parts[i].max \in Nat /\ Len(a.parts[i].data) \in Nat
      /\ Len(a.parts[i].data) <= a.parts[i].max
  BY <1>2, ArrayParts
<1>5. PICK x \in Int : x = a.parts[i].max - a.parts[i].pos
  BY <1>4
<1>6. x >= 0
  BY <1>2, <1>3, <1>4, <1>5 DEF Stands
<1>7. Min({x, 0}) = 0
  BY <1>6, LeastOf
<1>8. Min({a.parts[a.index].max - a.parts[a.index].pos, Len(s.bytes)}) = 0
  BY <1>3, <1>5, <1>7
<1> QED
  BY <1>1, <1>8 DEF Write

\* A call that writes n bytes, all of them or as many as the first part takes.
Wrote(s, t, n) ==
  /\ n > 0 /\ n <= Len(s.bytes)
  /\ ArrayRight(t.array) /\ Stands(t.array) /\ InTurn(t.array)
  /\ t.bytes \in Seq(Int) /\ Len(t.bytes) = Len(s.bytes) - n
  /\ \A j \in 1 .. Len(t.bytes) : t.bytes[j] = s.bytes[n + j]
  /\ Place(t.array) = Place(s.array) + n /\ Limit(t.array) = Limit(s.array)
  /\ Held(t.array) = (IF Place(s.array) + n < Held(s.array) THEN Held(s.array)
                      ELSE Place(s.array) + n)
  /\ \A q \in 0 .. Held(t.array) - 1 :
       ByteAt(t.array, q) =
         IF Place(s.array) <= q /\ q < Place(s.array) + n
         THEN s.bytes[q - Place(s.array) + 1] ELSE ByteAt(s.array, q)
  /\ \/ Len(t.bytes) = 0
     \/ /\ s.array.index = 1 /\ s.array.parts[1].pos # s.array.parts[1].max
        /\ t.array.index = 1 /\ t.array.parts[1].pos = t.array.parts[1].max
\* A call of Write with room for all the bytes writes some of them.
LEMMA WriteSome ==
  ASSUME NEW s, ArrayRight(s.array), Stands(s.array), InTurn(s.array), s.bytes \in Seq(Int),
         Len(s.bytes) > 0, Place(s.array) + Len(s.bytes) <= Limit(s.array), NEW t, t = Write(s)
  PROVE  \E n \in Nat : Wrote(s, t, n)
<1>1. PICK a : a = ForWrite(s.array)
  OBVIOUS
<1>2. /\ ArrayRight(a) /\ Stands(a) /\ InTurn(a) /\ Place(a) = Place(s.array)
      /\ SameBytes(s.array, a)
      /\ s.array.index = 2 => a.index = 2
      /\ s.array.index = 1 =>
           a.index = IF s.array.parts[1].pos = s.array.parts[1].max THEN 2 ELSE 1
  BY <1>1, WriteTurn
<1>3. /\ Held(a) = Held(s.array) /\ Limit(a) = Limit(s.array)
      /\ \A q : ByteAt(a, q) = ByteAt(s.array, q)
  BY <1>2, SameIs
<1>4. PICK i \in 1 .. 2 : i = a.index
  BY <1>2 DEF ArrayRight
<1>5. /\ a.parts[1].pos \in Nat /\ a.parts[1].max \in Nat /\ a.parts[2].pos \in Nat
      /\ a.parts[2].max \in Nat /\ Len(a.parts[1].data) \in Nat /\ Len(a.parts[2].data) \in Nat
      /\ Len(a.parts[1].data) <= a.parts[1].max /\ Len(a.parts[2].data) <= a.parts[2].max
      /\ a.parts[i].pos \in Nat /\ a.parts[i].max \in Nat
  BY <1>2, ArrayParts
<1>6. PICK y \in Nat : y = Len(s.bytes)
  OBVIOUS
<1>7. PICK x \in Int : x = a.parts[i].max - a.parts[i].pos
  BY <1>5
<1>8. x >= 0 /\ (i = 1 => x > 0) /\ (i = 2 => x >= y)
  <2>1. i = 1 => a.parts[1].pos # a.parts[1].max
    <3>1. CASE i = 1
      <4>1. s.array.index = 1 /\ s.array.parts[1].pos # s.array.parts[1].max
        <5>1. s.array.index \in 1 .. 2
          BY DEF ArrayRight
        <5> QED
          BY <1>2, <1>4, <3>1, <5>1
      <4>2. a = s.array
        BY <1>1, <4>1, GivesWay
      <4> QED
        BY <4>1, <4>2
    <3> QED
      BY <3>1
  <2>2. a.parts[i].pos <= Len(a.parts[i].data) /\ Len(a.parts[i].data) <= a.parts[i].max
    BY <1>2, <1>4, ArrayParts DEF Stands
  <2>3. Len(a.parts[i].data) \in Nat
    BY <1>2, ArrayParts
  <2>4. i = 2 => Place(a) = a.parts[1].max + a.parts[2].pos
    BY <1>2, <1>4 DEF Place, InTurn
  <2>5. Place(a) + y <= a.parts[1].max + a.parts[2].max
    BY <1>2, <1>3, <1>6 DEF Limit
  <2>6. i = 2 => x >= y
    <3>1. CASE i = 2
      <4>1. PICK m1 \in Nat : m1 = a.parts[1].max
        BY <1>5
      <4>2. PICK m2 \in Nat : m2 = a.parts[2].max
        BY <1>5
      <4>3. PICK p2 \in Nat : p2 = a.parts[2].pos
        BY <1>5
      <4>4. m1 + p2 + y <= m1 + m2 /\ x = m2 - p2
        BY <1>7, <2>4, <2>5, <3>1, <4>1, <4>2, <4>3
      <4> QED
        BY <4>4
    <3> QED
      BY <3>1
  <2>7. i = 1 => x > 0
    BY <1>5, <1>7, <2>1, <2>2, <2>3, SMTT(40)
  <2>8. x >= 0
    <3>1. PICK z \in Nat : z = Len(a.parts[i].data)
      BY <2>3
    <3>2. PICK pp \in Nat : pp = a.parts[i].pos
      BY <1>5
    <3>3. PICK mm \in Nat : mm = a.parts[i].max
      BY <1>5
    <3>4. pp <= z /\ z <= mm /\ x = mm - pp
      BY <1>7, <2>2, <3>1, <3>2, <3>3
    <3> QED
      BY <3>4
  <2> QED
    BY <2>6, <2>7, <2>8
<1>9. PICK n : n = Fits(a, s.bytes)
  OBVIOUS
<1>10. n = IF x < y THEN x ELSE y
  BY <1>4, <1>6, <1>7, <1>9 DEF Fits
<1>11. n \in Nat /\ n > 0 /\ n <= y
  BY <1>6, <1>8, <1>10
<1>12. /\ a.parts[a.index].pos + n <= a.parts[a.index].max
       /\ t.bytes = SubSeq(s.bytes, n + 1, Len(s.bytes)) /\ t.bytes \in Seq(Int)
       /\ Len(t.bytes) = Len(s.bytes) - n
       /\ ArrayRight(t.array) /\ t.array.index = a.index
       /\ t.array.parts[3 - a.index] = a.parts[3 - a.index]
       /\ t.array.parts[a.index].pos = a.parts[a.index].pos + n
       /\ t.array.parts[a.index].max = a.parts[a.index].max
       /\ t.array.parts[a.index].data =
            Overwritten(a.parts[a.index].data, a.parts[a.index].pos, SubSeq(s.bytes, 1, n))
  <2>1. a.parts[a.index].pos <= Len(a.parts[a.index].data)
    BY <1>2 DEF Stands
  <2>2. a.index = 2 => Len(a.parts[1].data) = a.parts[1].max
    BY <1>2 DEF InTurn
  <2> QED
    <3>1. a = ForWrite(s.array) /\ ArrayRight(a) /\ n = Fits(a, s.bytes) /\ n > 0
      BY <1>1, <1>2, <1>9, <1>11
    <3>2. t.bytes = SubSeq(s.bytes, n + 1, Len(s.bytes))
      BY <2>1, <2>2, <3>1, WriteCall, SMTT(40)
    <3>3. t.bytes \in Seq(Int)
      BY <2>1, <2>2, <3>1, WriteCall
    <3>9. Len(t.bytes) = Len(s.bytes) - n
      BY <2>1, <2>2, <3>1, WriteCall
    <3>5. a.parts[a.index].pos + n <= a.parts[a.index].max
      BY <2>1, <2>2, <3>1, WriteCall
    <3>6. /\ ArrayRight(t.array) /\ t.array.index = a.index
          /\ t.array.parts[a.index].max = a.parts[a.index].max
      BY <2>1, <2>2, <3>1, WriteCall, SMTT(40)
    <3>7. t.array.parts[3 - a.index] = a.parts[3 - a.index]
      BY <2>1, <2>2, <3>1, WriteCall
    <3>8. t.array.parts[a.index].pos = a.parts[a.index].pos + n
      BY <2>1, <2>2, <3>1, WriteCall, SMTT(40)
    <3>4. t.array.parts[a.index].data =
            Overwritten(a.parts[a.index].data, a.parts[a.index].pos, SubSeq(s.bytes, 1, n))
      BY <2>1, <2>2, <3>1, WriteCall, SMTT(40)
    <3> QED
      BY <3>2, <3>3, <3>4, <3>5, <3>6, <3>7, <3>8, <3>9
<1>13. PICK b \in Seq(Int) : b = s.bytes
  OBVIOUS
<1>14. PICK r : r = t.array
  OBVIOUS
<1>15. /\ Stands(r) /\ InTurn(r) /\ Place(r) = Place(a) + n /\ Limit(r) = Limit(a)
       /\ Held(r) = (IF Place(a) + n < Held(a) THEN Held(a) ELSE Place(a) + n)
       /\ \A q \in 0 .. Held(r) - 1 :
            ByteAt(r, q) = IF Place(a) <= q /\ q < Place(a) + n THEN b[q - Place(a) + 1]
                           ELSE ByteAt(a, q)
  <2>1. /\ ArrayRight(r) /\ r.index = a.index
        /\ r.parts[3 - a.index] = a.parts[3 - a.index]
        /\ r.parts[a.index].pos = a.parts[a.index].pos + n
        /\ r.parts[a.index].max = a.parts[a.index].max
        /\ r.parts[a.index].data =
             Overwritten(a.parts[a.index].data, a.parts[a.index].pos, SubSeq(b, 1, n))
    BY <1>12, <1>13, <1>14
  <2>2. n <= Len(b)
    BY <1>6, <1>11, <1>13
  <2>3. a.parts[a.index].pos + n <= a.parts[a.index].max
    BY <1>12
  <2> QED
    BY <1>2, <1>11, <2>1, <2>2, <2>3, WrittenAt
<1>16. \A j \in 1 .. Len(t.bytes) : t.bytes[j] = s.bytes[n + j]
  <2>1. PICK d : d = SubSeq(b, n + 1, Len(b))
    OBVIOUS
  <2>2. n <= Len(b)
    BY <1>6, <1>11, <1>13
  <2>3. \A j \in 1 .. Len(b) - n : d[j] = b[n + j]
    BY <1>11, <2>1, <2>2, CutIs
  <2> QED
    BY <1>12, <1>13, <2>1, <2>3
<1>17. \/ Len(t.bytes) = 0
       \/ /\ s.array.index = 1 /\ s.array.parts[1].pos # s.array.parts[1].max
          /\ r.index = 1 /\ r.parts[1].pos = r.parts[1].max
  <2>1. CASE x < y
    <3>1. i = 1 /\ n = x
      BY <1>8, <1>10, <2>1
    <3>2. s.array.index = 1 /\ s.array.parts[1].pos # s.array.parts[1].max
      <4>1. s.array.index \in 1 .. 2
        BY DEF ArrayRight
      <4> QED
        BY <1>2, <1>4, <3>1, <4>1
    <3>3. r.index = 1 /\ r.parts[1].pos = a.parts[1].pos + n /\ r.parts[1].max = a.parts[1].max
      BY <1>4, <1>12, <1>14, <3>1
    <3>4. a.parts[1].pos + n = a.parts[1].max
      BY <1>5, <1>7, <3>1
    <3> QED
      BY <3>2, <3>3, <3>4
  <2>2. CASE x >= y
    BY <1>6, <1>10, <1>12, <2>2
  <2> QED
    BY <2>1, <2>2
<1> QED
  <2>1. n \in Nat /\ n > 0 /\ n <= Len(s.bytes)
    BY <1>6, <1>11
  <2>2. ArrayRight(t.array) /\ Stands(t.array) /\ InTurn(t.array)
    BY <1>12, <1>14, <1>15
  <2>3. t.bytes \in Seq(Int) /\ Len(t.bytes) = Len(s.bytes) - n
    BY <1>12
  <2>4. Place(t.array) = Place(s.array) + n /\ Limit(t.array) = Limit(s.array)
    BY <1>2, <1>3, <1>14, <1>15
  <2>5. Held(t.array) = IF Place(s.array) + n < Held(s.array) THEN Held(s.array)
                        ELSE Place(s.array) + n
    BY <1>2, <1>3, <1>14, <1>15
  <2>6. \A q \in 0 .. Held(t.array) - 1 :
          ByteAt(t.array, q) =
            IF Place(s.array) <= q /\ q < Place(s.array) + n
            THEN s.bytes[q - Place(s.array) + 1] ELSE ByteAt(s.array, q)
    BY <1>2, <1>3, <1>13, <1>14, <1>15
  <2>7. \/ Len(t.bytes) = 0
        \/ /\ s.array.index = 1 /\ s.array.parts[1].pos # s.array.parts[1].max
           /\ t.array.index = 1 /\ t.array.parts[1].pos = t.array.parts[1].max
    BY <1>14, <1>17
  <2> QED
    BY <1>16, <2>1, <2>2, <2>3, <2>4, <2>5, <2>6, <2>7 DEF Wrote

\* Array t is array a with bytes b at p.
WrittenTo(t, a, p, b) ==
  /\ ArrayRight(t) /\ Limit(t) = Limit(a)
  /\ Held(t) = IF p + Len(b) < Held(a) THEN Held(a) ELSE p + Len(b)
  /\ \A q \in 0 .. Held(t) - 1 :
       ByteAt(t, q) = IF p <= q /\ q < p + Len(b) THEN b[q - p + 1] ELSE ByteAt(a, q)

\* What an array holds, may hold and where it stands are numbers.
LEMMA HeldNat ==
  ASSUME NEW a, ArrayRight(a)
  PROVE  Held(a) \in Nat /\ Limit(a) \in Nat /\ Held(a) <= Limit(a) /\ Place(a) \in Nat
<1>1. /\ a.parts[1].pos \in Nat /\ a.parts[1].max \in Nat /\ a.parts[2].pos \in Nat
      /\ a.parts[2].max \in Nat /\ Len(a.parts[1].data) \in Nat /\ Len(a.parts[2].data) \in Nat
      /\ Len(a.parts[1].data) <= a.parts[1].max /\ Len(a.parts[2].data) <= a.parts[2].max
  BY ArrayParts
<1>2. PICK x1 \in Nat : x1 = Len(a.parts[1].data)
  BY <1>1
<1>3. PICK x2 \in Nat : x2 = Len(a.parts[2].data)
  BY <1>1
<1>4. PICK m1 \in Nat : m1 = a.parts[1].max
  BY <1>1
<1>5. PICK m2 \in Nat : m2 = a.parts[2].max
  BY <1>1
<1>6. Held(a) = x1 + x2 /\ Limit(a) = m1 + m2 /\ x1 <= m1 /\ x2 <= m2
  BY <1>1, <1>2, <1>3, <1>4, <1>5 DEF Held, Limit
<1>7. Place(a) \in Nat
  BY <1>1 DEF Place
<1> QED
  BY <1>6, <1>7

\* WriteArray at p, for bytes that the array has room for.
LEMMA WriteArrayIs ==
  ASSUME NEW a, ArrayRight(a), NEW p \in Nat, p <= Held(a), NEW b \in Seq(Int), Len(b) > 0,
         p + Len(b) <= Limit(a), NEW t, t = WriteArray(SetPosition(a, p), b)
  PROVE  WrittenTo(t, a, p, b)
<1>1. PICK r : r = SetPosition(a, p)
  OBVIOUS
<1>2. ArrayRight(r) /\ SameBytes(a, r) /\ Stands(r) /\ InTurn(r) /\ Place(r) = p
  BY <1>1, PositionStands
<1>3. Held(r) = Held(a) /\ Limit(r) = Limit(a) /\ \A q : ByteAt(r, q) = ByteAt(a, q)
  BY <1>2, SameIs
<1>4. PICK s : s = State(r, b)
  OBVIOUS
<1>5. s.array = r /\ s.bytes = b
  BY <1>4, StateIs
<1>6. PICK u : u = Write(s)
  OBVIOUS
<1>7. PICK v : v = Write(u)
  OBVIOUS
<1>8. t = v.array
  <2>1. r.parts \in [1 .. 2 -> PartType]
    BY <1>2 DEF ArrayRight
  <2> QED
    BY <1>1, <1>4, <1>6, <1>7, <2>1, WriteCalls
<1>9. PICK h \in Nat : h = Held(a)
  BY HeldNat
<1>10. PICK y \in Nat : y = Len(b)
  OBVIOUS
<1>11. PICK n \in Nat : Wrote(s, u, n)
  <2>1. /\ ArrayRight(s.array) /\ Stands(s.array) /\ InTurn(s.array) /\ s.bytes \in Seq(Int)
        /\ Len(s.bytes) > 0 /\ Place(s.array) + Len(s.bytes) <= Limit(s.array)
    BY <1>2, <1>3, <1>5
  <2> QED
    BY <1>6, <2>1, WriteSome
<1>12. PICK k : k = Held(u.array)
  OBVIOUS
<1>13. /\ n > 0 /\ n <= y
       /\ ArrayRight(u.array) /\ Stands(u.array) /\ InTurn(u.array)
       /\ u.bytes \in Seq(Int) /\ Len(u.bytes) = y - n
       /\ \A j \in 1 .. Len(u.bytes) : u.bytes[j] = b[n + j]
       /\ Place(u.array) = p + n /\ Limit(u.array) = Limit(a)
  BY <1>2, <1>3, <1>5, <1>10, <1>11 DEF Wrote
<1>14. k = (IF p + n < h THEN h ELSE p + n)
  BY <1>2, <1>3, <1>5, <1>9, <1>11, <1>12 DEF Wrote
<1>15. \A q \in 0 .. k - 1 :
         ByteAt(u.array, q) = IF p <= q /\ q < p + n THEN b[q - p + 1] ELSE ByteAt(a, q)
  BY <1>2, <1>3, <1>5, <1>11, <1>12 DEF Wrote
<1>16. Len(u.bytes) = 0 \/ (u.array.index = 1 /\ u.array.parts[1].pos = u.array.parts[1].max)
  BY <1>11 DEF Wrote
<1>17. CASE Len(u.bytes) = 0
  <2>1. v = u
    BY <1>7, <1>13, <1>17, NothingToWrite
  <2>2. n = y
    BY <1>13, <1>17
  <2>3. t = u.array
    BY <1>8, <2>1
  <2> QED
    BY <1>9, <1>10, <1>12, <1>13, <1>14, <1>15, <2>2, <2>3 DEF WrittenTo
<1>18. CASE Len(u.bytes) # 0
  <2>1. PICK z \in Nat : z = Len(u.bytes)
    BY <1>13
  <2>2. z > 0 /\ y = n + z
    BY <1>13, <1>18, <2>1
  <2>3. Place(u.array) + Len(u.bytes) <= Limit(u.array)
    BY <1>10, <1>13, <2>1, <2>2
  <2>4. PICK m \in Nat : Wrote(u, v, m)
    <3>1. ArrayRight(u.array) /\ Stands(u.array) /\ InTurn(u.array) /\ u.bytes \in Seq(Int)
      BY <1>13
    <3>2. Len(u.bytes) > 0
      BY <2>1, <2>2
    <3> QED
      BY <1>7, <2>3, <3>1, <3>2, WriteSome
  <2>5. Len(v.bytes) = 0 /\ m = z
    <3>1. Len(v.bytes) = 0
      BY <1>16, <1>18, <2>4 DEF Wrote
    <3>2. Len(v.bytes) = z - m
      BY <2>1, <2>4 DEF Wrote
    <3> QED
      BY <3>1, <3>2
  <2>6. ArrayRight(t) /\ Limit(t) = Limit(a)
    BY <1>8, <1>13, <2>4 DEF Wrote
  <2>7. Held(t) = IF p + n + z < k THEN k ELSE p + n + z
    BY <1>8, <1>12, <1>13, <2>4, <2>5 DEF Wrote
  <2>8. Held(t) = IF p + y < h THEN h ELSE p + y
    BY <1>14, <2>2, <2>7
  <2>9. \A q \in 0 .. Held(t) - 1 :
          ByteAt(t, q) = IF p + n <= q /\ q < p + n + z THEN u.bytes[q - (p + n) + 1]
                         ELSE ByteAt(u.array, q)
    BY <1>8, <1>13, <2>4, <2>5 DEF Wrote
  <2>10. ASSUME NEW q \in 0 .. Held(t) - 1
         PROVE  ByteAt(t, q) = IF p <= q /\ q < p + y THEN b[q - p + 1] ELSE ByteAt(a, q)
    <3>1. q \in Nat /\ Held(t) \in Nat
      BY <2>8
    <3>2. CASE p + n <= q /\ q < p + n + z
      <4>1. ByteAt(t, q) = u.bytes[q - (p + n) + 1]
        BY <2>9, <3>2
      <4>2. q - (p + n) + 1 \in 1 .. z /\ n + (q - (p + n) + 1) = q - p + 1
        BY <3>1, <3>2
      <4>3. u.bytes[q - (p + n) + 1] = b[q - p + 1]
        BY <1>13, <2>1, <4>2
      <4>4. p <= q /\ q < p + y
        BY <2>2, <3>1, <3>2
      <4> QED
        BY <4>1, <4>3, <4>4
    <3>3. CASE ~(p + n <= q /\ q < p + n + z)
      <4>1. ByteAt(t, q) = ByteAt(u.array, q)
        BY <2>9, <3>3
      <4>2. q \in 0 .. k - 1
        BY <1>14, <2>2, <2>8, <3>1, <3>3
      <4>3. ByteAt(u.array, q) = IF p <= q /\ q < p + n THEN b[q - p + 1] ELSE ByteAt(a, q)
        BY <1>15, <4>2
      <4>4. (p <= q /\ q < p + n) <=> (p <= q /\ q < p + y)
        BY <2>2, <3>1, <3>3
      <4> QED
        BY <4>1, <4>3, <4>4
    <3> QED
      BY <3>2, <3>3
  <2> QED
    BY <1>9, <1>10, <2>6, <2>8, <2>10 DEF WrittenTo
<1> QED
  BY <1>17, <1>18

\* A call that reads k bytes, all that are missing or as many as the first part has.
Took(s, t, n, k) ==
  /\ ArrayRight(t.array) /\ Stands(t.array) /\ SameBytes(s.array, t.array)
  /\ Place(t.array) = Place(s.array) + k
  /\ t.bytes \in Seq(Int) /\ Len(t.bytes) = Len(s.bytes) + k /\ Len(t.bytes) <= n
  /\ \A j \in 1 .. Len(s.bytes) : t.bytes[j] = s.bytes[j]
  /\ \A j \in 1 .. k : t.bytes[Len(s.bytes) + j] = ByteAt(s.array, Place(s.array) + j - 1)
  /\ \/ Len(t.bytes) = n
     \/ /\ s.array.index = 1 /\ s.array.parts[1].pos # Len(s.array.parts[1].data)
        /\ t.array.index = 1 /\ t.array.parts[1].pos = Len(t.array.parts[1].data)

\* A part that stands k bytes further.
PassedPart(a, k) == [a EXCEPT !.parts[a.index].pos = @ + k]

\* The array behind k more bytes of its stream.
LEMMA PassedIs ==
  ASSUME NEW a, ArrayRight(a), NEW k \in Nat,
         a.parts[a.index].pos + k <= Len(a.parts[a.index].data), NEW t, t = PassedPart(a, k)
  PROVE  /\ ArrayRight(t) /\ Stands(t) /\ SameBytes(a, t) /\ t.index = a.index
         /\ t.parts[a.index].pos = a.parts[a.index].pos + k /\ Place(t) = Place(a) + k
<1>1. PICK i \in 1 .. 2 : i = a.index
  BY DEF ArrayRight
<1>2. a.parts \in [1 .. 2 -> PartType] /\ a = [index |-> i, parts |-> a.parts]
  BY <1>1 DEF ArrayRight
<1>3. PICK part : part = a.parts[i]
  OBVIOUS
<1>4. part \in PartType
  BY <1>2, <1>3
<1>5. PICK q \in Nat : q = part.pos + k
  BY <1>4 DEF PartType
<1>6. PICK new : new = [part EXCEPT !.pos = q]
  OBVIOUS
<1>7. new \in PartType /\ new.pos = q /\ new.data = part.data /\ new.max = part.max
  BY <1>4, <1>6 DEF PartType
<1>8. t = [index |-> i, parts |-> [a.parts EXCEPT ![i] = new]]
  <2>1. [part EXCEPT !.pos = part.pos + k] = new
    BY <1>5, <1>6
  <2>2. t = [a EXCEPT !.parts[i] = [part EXCEPT !.pos = part.pos + k]]
    BY <1>1, <1>2, <1>3 DEF PassedPart
  <2> QED
    BY <1>2, <2>1, <2>2
<1>9. /\ t.index = i /\ t.parts = [a.parts EXCEPT ![i] = new]
      /\ t = [index |-> t.index, parts |-> t.parts]
  BY <1>8
<1>10. t.parts \in [1 .. 2 -> PartType] /\ t.parts[i] = new /\ t.parts[3 - i] = a.parts[3 - i]
  BY <1>1, <1>2, <1>7, <1>9
<1>11. \A j \in 1 .. 2 : j = i \/ j = 3 - i
  BY <1>1
<1>12. SameBytes(a, t)
  BY <1>3, <1>7, <1>10, <1>11 DEF SameBytes
<1>13. ArrayRight(t)
  <2>1. \A j \in 1 .. 2 : t.parts[j].data = a.parts[j].data /\ t.parts[j].max = a.parts[j].max
    BY <1>12 DEF SameBytes
  <2>2. t.index \in 1 .. 2
    BY <1>1, <1>9
  <2> QED
    BY <1>9, <1>10, <2>1, <2>2 DEF ArrayRight
<1>14. Stands(t)
  BY <1>1, <1>3, <1>5, <1>7, <1>9, <1>10 DEF Stands
<1>15. Place(t) = Place(a) + k
  <2>1. CASE i = 1
    <3>1. t.index = 1 /\ t.parts[1].pos = q
      BY <1>7, <1>9, <1>10, <2>1
    <3> QED
      BY <1>1, <1>3, <1>5, <2>1, <3>1 DEF Place
  <2>2. CASE i = 2
    <3>1. t.index = 2 /\ t.parts[2].pos = q /\ t.parts[1] = a.parts[1]
      BY <1>7, <1>9, <1>10, <2>2
    <3>2. PICK x \in Nat : x = Len(a.parts[1].data)
      BY ArrayParts
    <3>3. PICK p \in Nat : p = part.pos
      BY <1>4 DEF PartType
    <3>4. Place(t) = x + q
      BY <3>1, <3>2 DEF Place
    <3>5. Place(a) = x + p
      <4>1. a.index = 2 /\ a.parts[2].pos = p
        BY <1>1, <1>3, <2>2, <3>3
      <4> QED
        BY <3>2, <4>1 DEF Place
    <3> QED
      BY <1>5, <3>3, <3>4, <3>5
  <2> QED
    BY <2>1, <2>2
<1> QED
  BY <1>1, <1>3, <1>5, <1>7, <1>9, <1>10, <1>12, <1>13, <1>14, <1>15

\* A call of Read takes the bytes that come next.
LEMMA ReadSome ==
  ASSUME NEW s, ArrayRight(s.array), Stands(s.array), s.bytes \in Seq(Int), NEW n \in Nat,
         Len(s.bytes) <= n, Place(s.array) + (n - Len(s.bytes)) <= Held(s.array),
         NEW t, t = Read(s, n)
  PROVE  \E k \in Nat : Took(s, t, n, k)
<1>1. PICK a : a = ForRead(s.array)
  OBVIOUS
<1>2. /\ ArrayRight(a) /\ Stands(a) /\ Place(a) = Place(s.array) /\ SameBytes(s.array, a)
      /\ s.array.index = 2 => a.index = 2
      /\ s.array.index = 1 =>
           a.index = IF s.array.parts[1].pos = Len(s.array.parts[1].data) THEN 2 ELSE 1
  BY <1>1, ReadTurn
<1>3. /\ Held(a) = Held(s.array) /\ \A q : ByteAt(a, q) = ByteAt(s.array, q)
  BY <1>2, SameIs
<1>4. PICK i \in 1 .. 2 : i = a.index
  BY <1>2 DEF ArrayRight
<1>5. PICK d \in Seq(Int) : d = a.parts[i].data
  BY <1>2, ArrayParts
<1>6. PICK p \in Nat : p = a.parts[i].pos
  BY <1>2, ArrayParts
<1>7. PICK m \in Nat : m = Len(d)
  OBVIOUS
<1>8. p <= m
  BY <1>2, <1>4, <1>5, <1>6, <1>7 DEF Stands
<1>9. PICK z \in Nat : z = n - Len(s.bytes)
  <2>1. PICK y \in Nat : y = Len(s.bytes)
    OBVIOUS
  <2>2. n - y \in Nat
    BY <2>1
  <2> QED
    BY <2>1, <2>2
<1>10. PICK x \in Nat : x = m - p
  BY <1>8
<1>11. s.array.index \in 1 .. 2
  BY DEF ArrayRight
<1>12. i = 1 => x > 0 /\ s.array.index = 1 /\ s.array.parts[1].pos # Len(s.array.parts[1].data)
  <2>1. CASE i = 1
    <3>1. s.array.index = 1 /\ s.array.parts[1].pos # Len(s.array.parts[1].data)
      BY <1>2, <1>4, <1>11, <2>1
    <3>2. a = s.array
      BY <1>1, <3>1, GivesWay
    <3>3. p # m
      BY <1>5, <1>6, <1>7, <2>1, <3>1, <3>2
    <3> QED
      BY <1>8, <1>10, <3>1, <3>3
  <2> QED
    BY <2>1
<1>13. i = 2 => x >= z
  <2>1. CASE i = 2
    <3>1. PICK x1 \in Nat : x1 = Len(a.parts[1].data)
      <4>1. 1 \in 1 .. 2
        OBVIOUS
      <4>2. Len(a.parts[1].data) \in Nat
        BY <1>2, <4>1, ArrayParts, Zenon
      <4> QED
        BY <4>2, Zenon
    <3>2. Place(a) = x1 + p
      BY <1>4, <1>6, <2>1, <3>1 DEF Place
    <3>3. Held(a) = x1 + m
      BY <1>5, <1>7, <2>1, <3>1 DEF Held
    <3>4. x1 + p + z <= x1 + m
      BY <1>2, <1>3, <1>9, <3>2, <3>3
    <3> QED
      BY <1>10, <3>4
  <2> QED
    BY <2>1
<1>14. PICK k \in Nat : k = IF x < z THEN x ELSE z
  OBVIOUS
<1>15. Min({x, z}) = k
  BY <1>14, LeastOf
<1>16. Min({Len(a.parts[a.index].data) - a.parts[a.index].pos, n - Len(s.bytes)}) = k
  BY <1>4, <1>5, <1>6, <1>7, <1>9, <1>10, <1>15
<1>17. CASE k = 0
  <2>1. t = s
    BY <1>1, <1>16, <1>17 DEF Read
  <2>2. z = 0
    BY <1>12, <1>13, <1>14, <1>17, <1>4
  <2>3. Len(s.bytes) = n
    <3>1. Len(s.bytes) \in Nat
      OBVIOUS
    <3> QED
      BY <1>9, <2>2, <3>1
  <2>4. SameBytes(s.array, s.array) /\ Place(s.array) \in Nat
    BY HeldNat DEF SameBytes
  <2>5. Took(s, s, n, 0)
    BY <2>3, <2>4 DEF Took
  <2> QED
    BY <2>1, <2>5
<1>18. CASE k # 0
  <2>1. PICK c : c = SubSeq(d, p + 1, p + k)
    OBVIOUS
  <2>2. k <= x /\ k <= z /\ p + k <= m
    BY <1>8, <1>10, <1>14
  <2>3. c \in Seq(Int) /\ Len(c) = k /\ \A j \in 1 .. k : c[j] = d[p + j] /\ p + j \in 1 .. m
    <3>1. PICK e \in Int : e = p + k
      OBVIOUS
    <3>2. e <= Len(d) /\ c = SubSeq(d, p + 1, e)
      BY <1>7, <2>1, <2>2, <3>1
    <3>3. /\ c \in Seq(Int) /\ Len(c) = (IF p < e THEN e - p ELSE 0)
          /\ \A j \in 1 .. Len(c) : c[j] = d[p + j] /\ p + j \in 1 .. e
      BY <3>2, PieceIs
    <3>4. Len(c) = k
      BY <1>18, <3>1, <3>3
    <3> QED
      BY <2>2, <3>1, <3>3, <3>4
  <2>4. PICK r : r = PassedPart(a, k)
    OBVIOUS
  <2>5. t = [array |-> r, bytes |-> s.bytes \o c]
    <3>1. d = a.parts[a.index].data /\ p = a.parts[a.index].pos
      BY <1>4, <1>5, <1>6
    <3> QED
      BY <1>1, <1>16, <1>18, <2>1, <2>4, <3>1, Zenon DEF Read, PassedPart
  <2>6. t.array = r /\ t.bytes = s.bytes \o c
    BY <2>5
  <2>7. /\ ArrayRight(r) /\ Stands(r) /\ SameBytes(a, r) /\ r.index = a.index
        /\ r.parts[a.index].pos = a.parts[a.index].pos + k /\ Place(r) = Place(a) + k
    <3>1. a.parts[a.index].pos + k <= Len(a.parts[a.index].data)
      BY <1>4, <1>5, <1>6, <1>7, <2>2
    <3> QED
      BY <1>2, <2>4, <3>1, PassedIs
  <2>8. SameBytes(s.array, r)
    BY <1>2, <2>7 DEF SameBytes
  <2>9. PICK y \in Nat : y = Len(s.bytes)
    OBVIOUS
  <2>10. /\ t.bytes \in Seq(Int) /\ Len(t.bytes) = y + k
         /\ \A j \in 1 .. y : t.bytes[j] = s.bytes[j]
         /\ \A j \in 1 .. k : t.bytes[y + j] = c[j]
    <3>1. c \in Seq(Int)
      BY <2>3
    <3>2. /\ t.bytes \in Seq(Int) /\ Len(t.bytes) = Len(s.bytes) + Len(c)
          /\ \A j \in 1 .. Len(s.bytes) : t.bytes[j] = s.bytes[j]
          /\ \A j \in 1 .. Len(c) : t.bytes[Len(s.bytes) + j] = c[j]
      BY <2>6, <3>1, JoinIs
    <3> QED
      BY <2>3, <2>9, <3>2
  <2>11. PICK f \in Nat : f = Place(a)
    BY <1>2, HeldNat
  <2>12. ASSUME NEW j \in 1 .. k PROVE c[j] = ByteAt(a, f + j - 1)
    <3>1. c[j] = d[p + j] /\ p + j \in 1 .. m
      BY <2>3
    <3>2. CASE i = 1
      <4>1. f = p
        BY <1>4, <1>6, <2>11, <3>2 DEF Place
      <4>2. f + j - 1 < m /\ f + j - 1 + 1 = p + j
        BY <3>1, <4>1
      <4> QED
        BY <1>5, <1>7, <3>1, <3>2, <4>2 DEF ByteAt
    <3>3. CASE i = 2
      <4>0. 1 \in 1 .. 2 /\ ArrayRight(a)
        BY <1>2
      <4>4. Len(a.parts[1].data) \in Nat
        BY <4>0, ArrayParts
      <4>1. PICK x1 \in Nat : x1 = Len(a.parts[1].data)
        BY <4>4
      <4>2. f = x1 + p
        BY <1>4, <1>6, <2>11, <3>3, <4>1 DEF Place
      <4>3. ~(f + j - 1 < x1) /\ f + j - 1 - x1 + 1 = p + j
        BY <3>1, <4>2
      <4>5. d = a.parts[2].data
        BY <1>5, <3>3
      <4>6. PICK q : q = f + j - 1
        OBVIOUS
      <4>7. ByteAt(a, q) = IF q < x1 THEN a.parts[1].data[q + 1] ELSE d[q - x1 + 1]
        BY <4>1, <4>5 DEF ByteAt
      <4>8. ~(q < x1) /\ q - x1 + 1 = p + j
        BY <4>3, <4>6
      <4> QED
        BY <3>1, <4>6, <4>7, <4>8
    <3> QED
      BY <3>2, <3>3
  <2>13. \/ y + k = n
         \/ /\ s.array.index = 1 /\ s.array.parts[1].pos # Len(s.array.parts[1].data)
            /\ r.index = 1 /\ r.parts[1].pos = Len(r.parts[1].data)
    <3>1. CASE x < z
      <4>1. i = 1 /\ k = x
        BY <1>13, <1>14, <3>1
      <4>2. r.index = 1 /\ r.parts[1].pos = p + k /\ r.parts[1].data = d
        BY <1>4, <1>5, <1>6, <2>7, <4>1 DEF SameBytes
      <4> QED
        BY <1>7, <1>10, <1>12, <4>1, <4>2
    <3>2. CASE ~(x < z)
      <4>1. k = z /\ y + z = n
        BY <1>9, <1>14, <2>9, <3>2
      <4> QED
        BY <4>1
    <3> QED
      BY <3>1, <3>2
  <2>14. y + k <= n
    BY <1>9, <2>2, <2>9
  <2>15. \A j \in 1 .. k : t.bytes[y + j] = ByteAt(s.array, f + j - 1)
    BY <1>3, <2>10, <2>12
  <2>16. Took(s, t, n, k)
    <3>1. ArrayRight(t.array) /\ Stands(t.array) /\ SameBytes(s.array, t.array)
      BY <2>6, <2>7, <2>8
    <3>2. Place(t.array) = Place(s.array) + k /\ f = Place(s.array)
      BY <1>2, <2>6, <2>7, <2>11
    <3> QED
      BY <2>6, <2>9, <2>10, <2>13, <2>14, <2>15, <3>1, <3>2 DEF Took
  <2> QED
    BY <2>16
<1> QED
  BY <1>17, <1>18

\* ReadArray of n bytes from p on, which the array holds.
LEMMA ReadArrayIs ==
  ASSUME NEW a, ArrayRight(a), NEW p \in Nat, NEW n \in Nat, p + n <= Held(a),
         NEW t, t = ReadArray(SetPosition(a, p), n)
  PROVE  /\ ArrayRight(t.array) /\ SameBytes(a, t.array)
         /\ t.bytes \in Seq(Int) /\ Len(t.bytes) = n
         /\ \A j \in 1 .. n : t.bytes[j] = ByteAt(a, p + j - 1)
<1>1. PICK r : r = SetPosition(a, p)
  OBVIOUS
<1>2. ArrayRight(r) /\ SameBytes(a, r) /\ Stands(r) /\ Place(r) = p
  <2>1. p <= Held(a)
    BY HeldNat
  <2> QED
    BY <1>1, <2>1, PositionStands
<1>3. Held(r) = Held(a) /\ \A q : ByteAt(r, q) = ByteAt(a, q)
  BY <1>2, SameIs
<1>4. PICK s : s = State(r, <<>>)
  OBVIOUS
<1>5. s.array = r /\ s.bytes = <<>>
  BY <1>4, StateIs
<1>6. PICK u : u = Read(s, n)
  OBVIOUS
<1>7. t = Read(u, n)
  <2>1. r.parts \in [1 .. 2 -> PartType]
    BY <1>2 DEF ArrayRight
  <2> QED
    BY <1>1, <1>4, <1>6, <2>1, ReadCalls
<1>8. s.bytes \in Seq(Int) /\ Len(s.bytes) = 0
  BY <1>5
<1>9. PICK k \in Nat : Took(s, u, n, k)
  <2>1. Len(s.bytes) <= n /\ Place(s.array) + (n - Len(s.bytes)) <= Held(s.array)
    BY <1>2, <1>3, <1>5, <1>8
  <2> QED
    BY <1>2, <1>5, <1>6, <1>8, <2>1, ReadSome
<1>10. /\ ArrayRight(u.array) /\ Stands(u.array) /\ SameBytes(r, u.array)
       /\ Place(u.array) = p + k /\ u.bytes \in Seq(Int) /\ Len(u.bytes) = k /\ k <= n
       /\ \A j \in 1 .. k : u.bytes[j] = ByteAt(a, p + j - 1)
  <2>1. /\ ArrayRight(u.array) /\ Stands(u.array) /\ SameBytes(r, u.array)
        /\ Place(u.array) = p + k /\ u.bytes \in Seq(Int)
    BY <1>2, <1>5, <1>9 DEF Took
  <2>2. Len(u.bytes) = 0 + k /\ Len(u.bytes) <= n
    BY <1>8, <1>9 DEF Took
  <2>3. \A j \in 1 .. k : u.bytes[0 + j] = ByteAt(r, p + j - 1)
    BY <1>2, <1>5, <1>8, <1>9 DEF Took
  <2> QED
    BY <1>3, <2>1, <2>2, <2>3
<1>11. SameBytes(a, u.array)
  BY <1>2, <1>10 DEF SameBytes
<1>12. Held(u.array) = Held(a) /\ \A q : ByteAt(u.array, q) = ByteAt(a, q)
  BY <1>11, SameIs
<1>13. PICK m \in Nat : Took(u, t, n, m)
  <2>1. Len(u.bytes) <= n /\ Place(u.array) + (n - Len(u.bytes)) <= Held(u.array)
    BY <1>10, <1>12, HeldNat
  <2> QED
    BY <1>7, <1>10, <2>1, ReadSome
<1>14. Len(t.bytes) = n /\ k + m = n
  <2>1. Len(t.bytes) = n \/ u.array.parts[1].pos # Len(u.array.parts[1].data)
    BY <1>13 DEF Took
  <2>2. Len(t.bytes) = n \/ u.array.index = 1
    BY <1>13 DEF Took
  <2>3. Len(u.bytes) = n \/ (u.array.index = 1 /\ u.array.parts[1].pos = Len(u.array.parts[1].data))
    BY <1>9 DEF Took
  <2>4. Len(t.bytes) = k + m /\ Len(t.bytes) <= n
    BY <1>10, <1>13 DEF Took
  <2> QED
    BY <1>10, <2>1, <2>2, <2>3, <2>4
<1>15. /\ ArrayRight(t.array) /\ SameBytes(u.array, t.array) /\ t.bytes \in Seq(Int)
       /\ \A j \in 1 .. k : t.bytes[j] = u.bytes[j]
       /\ \A j \in 1 .. m : t.bytes[k + j] = ByteAt(u.array, p + k + j - 1)
  BY <1>10, <1>13 DEF Took
<1>16. SameBytes(a, t.array)
  BY <1>11, <1>15 DEF SameBytes
<1>17. ASSUME NEW j \in 1 .. n PROVE t.bytes[j] = ByteAt(a, p + j - 1)
  <2>1. CASE j <= k
    <3>1. j \in 1 .. k
      BY <2>1
    <3> QED
      BY <1>10, <1>15, <3>1
  <2>2. CASE j > k
    <3>1. j - k \in 1 .. m /\ k + (j - k) = j /\ p + k + (j - k) - 1 = p + j - 1
      BY <1>14, <2>2
    <3> QED
      BY <1>12, <1>15, <3>1
  <2> QED
    BY <2>1, <2>2
<1> QED
  BY <1>14, <1>15, <1>16, <1>17

-----------------------------------------------------------------------------
(* The data manager *)

\* A block of the manager.
BlockType == [id : Int, at : Nat, used : Nat, full : Nat, count : Nat]

\* The blocks of the manager lie one behind the other in its array.
ManagerRight(m) ==
  /\ m = [blocks |-> m.blocks, total |-> m.total, array |-> m.array, ok |-> TRUE]
  /\ m.blocks \in Seq(BlockType) /\ m.total \in Nat /\ ArrayRight(m.array)
  /\ \A k \in 1 .. Len(m.blocks) :
       /\ m.blocks[k].full > 0 /\ m.blocks[k].used <= m.blocks[k].full
       /\ m.blocks[k].at + m.blocks[k].full <= m.total
  /\ \A k, l \in 1 .. Len(m.blocks) :
       k < l => m.blocks[k].at + m.blocks[k].full <= m.blocks[l].at

\* Block k is the one of id.
SoleBlock(m, id, k) ==
  /\ k \in 1 .. Len(m.blocks) /\ m.blocks[k].id = id /\ m.blocks[k].count > 0
  /\ \A l \in 1 .. Len(m.blocks) : m.blocks[l].id = id /\ m.blocks[l].count > 0 => l = k

\* Block k holds the first u bytes of key.
HasBytes(m, k, key, u) ==
  /\ m.blocks[k].used = u /\ m.blocks[k].at + u <= Held(m.array)
  /\ \A j \in 1 .. u : ByteAt(m.array, m.blocks[k].at + j - 1) = key[j]

\* Every block is well formed and lies within what the manager has given out.
LEMMA BlockIs ==
  ASSUME NEW m, ManagerRight(m), NEW k \in 1 .. Len(m.blocks)
  PROVE  /\ m.blocks[k] \in BlockType /\ m.blocks[k].id \in Int /\ m.blocks[k].at \in Nat
         /\ m.blocks[k].used \in Nat /\ m.blocks[k].full \in Nat /\ m.blocks[k].count \in Nat
         /\ m.blocks[k].full > 0 /\ m.blocks[k].used <= m.blocks[k].full
         /\ m.blocks[k].at + m.blocks[k].full <= m.total
<1>1. m.blocks[k] \in BlockType
  BY DEF ManagerRight
<1>2. /\ m.blocks[k].full > 0 /\ m.blocks[k].used <= m.blocks[k].full
      /\ m.blocks[k].at + m.blocks[k].full <= m.total
  BY DEF ManagerRight
<1> QED
  BY <1>1, <1>2 DEF BlockType

\* The place that SelectInSeq finds, and what FirstBlock makes of it.
LEMMA LeastPlace ==
  ASSUME NEW n \in Nat, NEW I, I \subseteq 1 .. n
  PROVE  I # {} => Min(I) \in I /\ \A j \in I : Min(I) <= j
<1> SUFFICES ASSUME I # {} PROVE Min(I) \in I /\ \A j \in I : Min(I) <= j
  OBVIOUS
<1>1. I \in SUBSET Nat
  OBVIOUS
<1>2. PICK x \in I : \A y \in I : x <= y
  BY <1>1, LeastNumber
<1> QED
  BY <1>2 DEF Min

\* The code looks for a block from the first one on; it is found if it is
\* the only one of its stream.
LEMMA BlockOfIs ==
  ASSUME NEW m, ManagerRight(m), NEW id, NEW k, SoleBlock(m, id, k)
  PROVE  BlockOf(m, id) = k
<1> DEFINE I == {l \in 1 .. Len(m.blocks) : m.blocks[l].id = id /\ m.blocks[l].count > 0}
<1>1. BlockOf(m, id) = IF I # {} THEN Min(I) ELSE 0
  BY DEF BlockOf, FirstBlock, SelectInSeq
<1>2. k \in I /\ \A l \in I : l = k
  BY DEF SoleBlock
<1>3. Len(m.blocks) \in Nat
  BY DEF ManagerRight
<1>4. I \subseteq 1 .. Len(m.blocks)
  OBVIOUS
<1> HIDE DEF I
<1>5. Min(I) \in I
  BY <1>2, <1>3, <1>4, LeastPlace
<1> QED
  BY <1>1, <1>2, <1>5

\* The block that is used again is free and long enough.
LEMMA FreeBlockIs ==
  ASSUME NEW m, ManagerRight(m), NEW n \in Nat, NEW k, k = FreeBlock(m, n)
  PROVE  /\ k \in 0 .. Len(m.blocks)
         /\ k > 0 => m.blocks[k].count <= 0 /\ n <= m.blocks[k].full
<1> DEFINE I == {l \in 1 .. Len(m.blocks) : m.blocks[l].count <= 0 /\ n <= m.blocks[l].full}
<1>1. k = IF I # {} THEN Min(I) ELSE 0
  BY DEF FreeBlock, FirstBlock, SelectInSeq
<1>2. Len(m.blocks) \in Nat
  BY DEF ManagerRight
<1>3. I \subseteq 1 .. Len(m.blocks)
  OBVIOUS
<1>4. I # {} => Min(I) \in I
  <2> HIDE DEF I
  <2> QED
    BY <1>2, <1>3, LeastPlace
<1> QED
  BY <1>1, <1>2, <1>4

\* Manager t is manager m with block k for the first n bytes of a stream.
Added(t, m, id, n, count, k) ==
  /\ ManagerRight(t) /\ t.array = m.array /\ Limit(t.array) = Limit(m.array)
  /\ SoleBlock(t, id, k) /\ t.blocks[k].count = count /\ t.blocks[k].used = 0
  /\ n <= t.blocks[k].full /\ t.blocks[k].at <= m.total
  /\ Len(t.blocks) >= Len(m.blocks)
  /\ \A l \in 1 .. Len(t.blocks) : l # k => l <= Len(m.blocks) /\ t.blocks[l] = m.blocks[l]
  /\ k <= Len(m.blocks) => m.blocks[k].count <= 0
  /\ \/ t.total = m.total
     \/ t.total = m.total + n /\ t.blocks[k].at = m.total

\* The sequence of blocks with one more, or with another in one place.
NewBlock(m, id, n, count) == [id |-> id, at |-> m.total, used |-> 0, full |-> n, count |-> count]
\* Block b, given to another stream.
UsedAgain(b, id, count) == [b EXCEPT !.id = id, !.used = 0, !.count = count]

\* The fields of a new block.
LEMMA NewBlockIs ==
  ASSUME NEW m, m.total \in Nat, NEW id \in Int, NEW n \in Nat, NEW count \in Nat, NEW b,
         b = NewBlock(m, id, n, count)
  PROVE  /\ b \in BlockType /\ b.id = id /\ b.at = m.total /\ b.used = 0 /\ b.full = n
         /\ b.count = count
BY DEF NewBlock, BlockType

\* The fields of a block that is used again.
LEMMA UsedAgainIs ==
  ASSUME NEW old \in BlockType, NEW id \in Int, NEW count \in Nat, NEW b,
         b = UsedAgain(old, id, count)
  PROVE  /\ b \in BlockType /\ b.id = id /\ b.at = old.at /\ b.used = 0 /\ b.full = old.full
         /\ b.count = count
BY DEF UsedAgain, BlockType

\* TDataManager.Add: a stream without a block gets one, free or new, and no
\* other block is touched.
LEMMA AddBlockIs ==
  ASSUME NEW m, ManagerRight(m), NEW id \in Int, NEW n \in Nat, n > 0, NEW count \in Nat,
         count > 0, \A l \in 1 .. Len(m.blocks) : m.blocks[l].count > 0 => m.blocks[l].id # id,
         NEW t, t = AddBlock(m, id, n, count)
  PROVE  \E k \in Nat : Added(t, m, id, n, count, k)
<1>1. PICK N \in Nat : N = Len(m.blocks)
  BY DEF ManagerRight
<1>2. PICK i : i = FreeBlock(m, n)
  OBVIOUS
<1>3. i \in 0 .. N /\ (i > 0 => m.blocks[i].count <= 0 /\ n <= m.blocks[i].full)
  BY <1>1, <1>2, FreeBlockIs
<1>4. /\ m = [blocks |-> m.blocks, total |-> m.total, array |-> m.array, ok |-> TRUE]
      /\ m.blocks \in Seq(BlockType) /\ m.total \in Nat /\ ArrayRight(m.array)
  BY DEF ManagerRight
<1>5. CASE i > 0
  <2>1. PICK b : b = UsedAgain(m.blocks[i], id, count)
    OBVIOUS
  <2>2. t = [m EXCEPT !.blocks[i] = b]
    <3>1. [m.blocks[i] EXCEPT !.id = id, !.used = 0, !.count = count] = b
      BY <2>1 DEF UsedAgain
    <3>2. ~(count <= 0) /\ FreeBlock(m, n) > 0
      BY <1>2, <1>5
    <3> QED
      BY <1>2, <3>1, <3>2 DEF AddBlock
  <2>3. PICK s : s = [m.blocks EXCEPT ![i] = b]
    OBVIOUS
  <2>4. /\ t.blocks = s /\ t.total = m.total /\ t.array = m.array
        /\ t = [blocks |-> s, total |-> m.total, array |-> m.array, ok |-> TRUE]
    <3>1. PICK B : B = m.blocks
      OBVIOUS
    <3>2. PICK T : T = m.total
      OBVIOUS
    <3>3. PICK A : A = m.array
      OBVIOUS
    <3>4. m = [blocks |-> B, total |-> T, array |-> A, ok |-> TRUE]
      BY <1>4, <3>1, <3>2, <3>3
    <3>5. t = [blocks |-> [B EXCEPT ![i] = b], total |-> T, array |-> A, ok |-> TRUE]
      BY <2>2, <3>4
    <3>6. t = [blocks |-> s, total |-> T, array |-> A, ok |-> TRUE]
      BY <2>3, <3>1, <3>5
    <3> QED
      BY <3>2, <3>3, <3>6
  <2>5. i \in 1 .. N
    BY <1>3, <1>5
  <2>6. /\ m.blocks[i] \in BlockType /\ m.blocks[i].at \in Nat /\ m.blocks[i].full \in Nat
        /\ m.blocks[i].full > 0 /\ m.blocks[i].at + m.blocks[i].full <= m.total
    BY <1>1, <2>5, BlockIs
  <2>7. /\ b \in BlockType /\ b.id = id /\ b.at = m.blocks[i].at /\ b.used = 0
        /\ b.full = m.blocks[i].full /\ b.count = count
    BY <2>1, <2>6, UsedAgainIs
  <2>8. /\ s \in Seq(BlockType) /\ Len(s) = N
        /\ \A j \in 1 .. N : s[j] = IF j = i THEN b ELSE m.blocks[j]
    BY <1>1, <1>4, <2>3, <2>5, <2>7, ExceptSeq
  <2>9. \A j \in 1 .. N : s[j].at = m.blocks[j].at /\ s[j].full = m.blocks[j].full
    BY <2>7, <2>8
  <2>10. \A j \in 1 .. N : s[j].used <= s[j].full
    <3>1. \A j \in 1 .. N : m.blocks[j].used <= m.blocks[j].full
      BY <1>1 DEF ManagerRight
    <3> QED
      BY <2>6, <2>7, <2>8, <3>1
  <2>11. ManagerRight(t)
    <3>1. /\ t = [blocks |-> t.blocks, total |-> t.total, array |-> t.array, ok |-> TRUE]
          /\ t.blocks \in Seq(BlockType) /\ t.total \in Nat /\ ArrayRight(t.array)
      BY <1>4, <2>4, <2>8
    <3>2. \A j \in 1 .. Len(t.blocks) :
            /\ t.blocks[j].full > 0 /\ t.blocks[j].used <= t.blocks[j].full
            /\ t.blocks[j].at + t.blocks[j].full <= t.total
      BY <1>1, <2>4, <2>8, <2>9, <2>10 DEF ManagerRight
    <3>3. \A j, l \in 1 .. Len(t.blocks) :
            j < l => t.blocks[j].at + t.blocks[j].full <= t.blocks[l].at
      BY <1>1, <2>4, <2>8, <2>9 DEF ManagerRight
    <3> QED
      BY <3>1, <3>2, <3>3 DEF ManagerRight
  <2>12. SoleBlock(t, id, i)
    BY <1>1, <2>4, <2>5, <2>7, <2>8 DEF SoleBlock
  <2>13. Added(t, m, id, n, count, i)
    <3>1. t.blocks[i] = b /\ Len(t.blocks) = N
      BY <2>4, <2>5, <2>8
    <3>2. t.blocks[i].at <= m.total
      BY <1>4, <2>6, <2>7, <3>1
    <3>3. \A l \in 1 .. Len(t.blocks) : l # i => l <= Len(m.blocks) /\ t.blocks[l] = m.blocks[l]
      BY <1>1, <2>4, <2>8
    <3>4. t.blocks[i].count = count /\ t.blocks[i].used = 0 /\ n <= t.blocks[i].full
      BY <1>3, <1>5, <2>7, <3>1
    <3>5. Len(t.blocks) >= Len(m.blocks) /\ m.blocks[i].count <= 0
      BY <1>1, <1>3, <1>5, <3>1
    <3> QED
      BY <2>4, <2>11, <2>12, <3>2, <3>3, <3>4, <3>5 DEF Added
  <2> QED
    BY <1>3, <2>13
<1>6. CASE i = 0
  <2>1. PICK b : b = NewBlock(m, id, n, count)
    OBVIOUS
  <2>2. t = [m EXCEPT !.blocks = Append(m.blocks, b), !.total = m.total + n]
    <3>1. ~(count <= 0) /\ ~(FreeBlock(m, n) > 0)
      BY <1>2, <1>6
    <3> QED
      BY <2>1, <3>1 DEF AddBlock, NewBlock
  <2>3. PICK s : s = Append(m.blocks, b)
    OBVIOUS
  <2>4. /\ t.blocks = s /\ t.total = m.total + n /\ t.array = m.array
        /\ t = [blocks |-> t.blocks, total |-> t.total, array |-> t.array, ok |-> TRUE]
    <3>1. PICK A : A = m.array
      OBVIOUS
    <3>2. PICK T : T = m.total + n
      OBVIOUS
    <3>3. t = [m EXCEPT !.blocks = s, !.total = T]
      BY <2>2, <2>3, <3>2
    <3>5. PICK B : B = m.blocks
      OBVIOUS
    <3>6. PICK T0 : T0 = m.total
      OBVIOUS
    <3>7. m = [blocks |-> B, total |-> T0, array |-> A, ok |-> TRUE]
      BY <1>4, <3>1, <3>5, <3>6
    <3>4. t = [blocks |-> s, total |-> T, array |-> A, ok |-> TRUE]
      BY <3>3, <3>7
    <3> QED
      BY <3>1, <3>2, <3>4
  <2>5. /\ b \in BlockType /\ b.id = id /\ b.at = m.total /\ b.used = 0 /\ b.full = n
        /\ b.count = count
    BY <1>4, <2>1, NewBlockIs
  <2>6. /\ s \in Seq(BlockType) /\ Len(s) = N + 1 /\ s[N + 1] = b
        /\ \A j \in 1 .. N : s[j] = m.blocks[j]
    BY <1>1, <1>4, <2>3, <2>5
  <2>7. \A j \in 1 .. N + 1 : j = N + 1 \/ j \in 1 .. N
    OBVIOUS
  <2>8. \A j \in 1 .. N : /\ s[j].full > 0 /\ s[j].used <= s[j].full
                          /\ s[j].at + s[j].full <= m.total
                          /\ s[j].at \in Nat /\ s[j].full \in Nat
    BY <1>1, <2>6, BlockIs
  <2>9. ManagerRight(t)
    <3>1. t.blocks \in Seq(BlockType) /\ t.total \in Nat /\ ArrayRight(t.array)
      BY <1>4, <2>4, <2>6
    <3>2. ASSUME NEW j \in 1 .. N + 1
          PROVE  s[j].full > 0 /\ s[j].used <= s[j].full /\ s[j].at + s[j].full <= m.total + n
      <4>1. CASE j = N + 1
        BY <1>4, <2>5, <2>6, <4>1
      <4>2. CASE j \in 1 .. N
        BY <1>4, <2>8, <4>2
      <4> QED
        BY <2>7, <4>1, <4>2
    <3>3. ASSUME NEW j \in 1 .. N + 1, NEW l \in 1 .. N + 1, j < l
          PROVE  s[j].at + s[j].full <= s[l].at
      <4>1. j \in 1 .. N
        BY <3>3
      <4>2. CASE l = N + 1
        BY <2>5, <2>6, <2>8, <4>1, <4>2
      <4>3. CASE l \in 1 .. N
        <5>1. m.blocks[j].at + m.blocks[j].full <= m.blocks[l].at
          BY <1>1, <3>3, <4>1, <4>3 DEF ManagerRight
        <5> QED
          BY <2>6, <4>1, <4>3, <5>1
      <4> QED
        BY <2>7, <4>2, <4>3
    <3> QED
      BY <2>4, <2>6, <3>1, <3>2, <3>3 DEF ManagerRight
  <2>10. SoleBlock(t, id, N + 1)
    <3>1. ASSUME NEW l \in 1 .. N + 1, s[l].id = id, s[l].count > 0 PROVE l = N + 1
      <4>1. CASE l \in 1 .. N
        BY <1>1, <2>6, <3>1, <4>1
      <4> QED
        BY <2>7, <4>1
    <3> QED
      BY <2>4, <2>5, <2>6, <3>1 DEF SoleBlock
  <2>11. Added(t, m, id, n, count, N + 1)
    <3>1. t.blocks[N + 1] = b /\ Len(t.blocks) = N + 1
      BY <2>4, <2>6
    <3>2. \A l \in 1 .. Len(t.blocks) :
            l # N + 1 => l <= Len(m.blocks) /\ t.blocks[l] = m.blocks[l]
      BY <1>1, <2>4, <2>6, <2>7
    <3>3. /\ t.blocks[N + 1].count = count /\ t.blocks[N + 1].used = 0
          /\ n <= t.blocks[N + 1].full /\ t.blocks[N + 1].at = m.total
      BY <2>5, <3>1
    <3>4. Len(t.blocks) >= Len(m.blocks) /\ ~(N + 1 <= Len(m.blocks)) /\ m.total <= m.total
      BY <1>1, <1>4, <3>1
    <3> QED
      BY <2>4, <2>9, <2>10, <3>2, <3>3, <3>4 DEF Added
  <2> QED
    BY <2>11
<1> QED
  BY <1>3, <1>5, <1>6

\* Manager t is manager m with u bytes of key in block k.
Filled(t, m, k, key, u) ==
  /\ ManagerRight(t) /\ t.total = m.total /\ Limit(t.array) = Limit(m.array)
  /\ Len(t.blocks) = Len(m.blocks)
  /\ \A l \in 1 .. Len(m.blocks) : l # k => t.blocks[l] = m.blocks[l]
  /\ t.blocks[k].id = m.blocks[k].id /\ t.blocks[k].at = m.blocks[k].at
  /\ t.blocks[k].full = m.blocks[k].full /\ t.blocks[k].count = m.blocks[k].count
  /\ HasBytes(t, k, key, u)
  /\ Held(t.array) = (IF m.blocks[k].at + u < Held(m.array) THEN Held(m.array)
                      ELSE m.blocks[k].at + u)
  /\ \A l \in 1 .. Len(m.blocks) :
       l # k /\ m.blocks[l].at + m.blocks[l].used <= Held(m.array) =>
         \A j \in 1 .. m.blocks[l].used :
           ByteAt(t.array, m.blocks[l].at + j - 1) = ByteAt(m.array, m.blocks[l].at + j - 1)

\* Block b with n more bytes.
MoreUsed(b, n) == [b EXCEPT !.used = @ + n]

\* Block b is block old with n more bytes.
IsMoreUsed(b, old, n) == old \in BlockType /\ n \in Nat /\ b = MoreUsed(old, n)

\* The fields of a block with more bytes.
LEMMA MoreUsedIs ==
  ASSUME NEW b, NEW old, NEW n, IsMoreUsed(b, old, n)
  PROVE  /\ b \in BlockType /\ b.id = old.id /\ b.at = old.at /\ b.used = old.used + n
         /\ b.full = old.full /\ b.count = old.count
<1>1. old \in BlockType /\ n \in Nat /\ b = MoreUsed(old, n) /\ old.used \in Nat
  BY DEF IsMoreUsed, BlockType
<1>2. PICK q \in Nat : q = old.used + n
  BY <1>1
<1> QED
  BY <1>1, <1>2 DEF MoreUsed, BlockType

\* The manager with another array and another block k.
WithBlock(m, array, k, b) == [m EXCEPT !.array = array, !.blocks[k] = b]

\* A manager with another block k in the same place stays right.
LEMMA WithBlockIs ==
  ASSUME NEW m, ManagerRight(m), NEW k \in 1 .. Len(m.blocks), NEW b \in BlockType,
         b.at = m.blocks[k].at, b.full = m.blocks[k].full, b.used <= b.full,
         NEW array, ArrayRight(array), NEW t, t = WithBlock(m, array, k, b)
  PROVE  /\ ManagerRight(t) /\ t.total = m.total /\ t.array = array
         /\ Len(t.blocks) = Len(m.blocks) /\ t.blocks[k] = b
         /\ \A l \in 1 .. Len(m.blocks) : l # k => t.blocks[l] = m.blocks[l]
<1>1. PICK N \in Nat : N = Len(m.blocks)
  BY DEF ManagerRight
<1>2. PICK B : B = m.blocks
  OBVIOUS
<1>3. PICK T : T = m.total
  OBVIOUS
<1>4. PICK A : A = m.array
  OBVIOUS
<1>5. m = [blocks |-> B, total |-> T, array |-> A, ok |-> TRUE] /\ B \in Seq(BlockType) /\ T \in Nat
  BY <1>2, <1>3, <1>4 DEF ManagerRight
<1>6. PICK s : s = [B EXCEPT ![k] = b]
  OBVIOUS
<1>7. t = [blocks |-> s, total |-> T, array |-> array, ok |-> TRUE]
  BY <1>5, <1>6 DEF WithBlock
<1>8. /\ s \in Seq(BlockType) /\ Len(s) = N
      /\ \A j \in 1 .. N : s[j] = IF j = k THEN b ELSE B[j]
  BY <1>1, <1>2, <1>5, <1>6, ExceptSeq
<1>9. t.blocks = s /\ t.total = T /\ t.array = array
      /\ t = [blocks |-> t.blocks, total |-> t.total, array |-> t.array, ok |-> TRUE]
  BY <1>7
<1>10. \A j \in 1 .. N : s[j].at = m.blocks[j].at /\ s[j].full = m.blocks[j].full
  BY <1>2, <1>8
<1>11. \A j \in 1 .. N : s[j].used <= s[j].full
  <2>1. \A j \in 1 .. N : m.blocks[j].used <= m.blocks[j].full
    BY <1>1 DEF ManagerRight
  <2> QED
    BY <1>2, <1>8, <2>1
<1>12. ManagerRight(t)
  <2>1. t.blocks \in Seq(BlockType) /\ t.total \in Nat /\ ArrayRight(t.array)
    BY <1>5, <1>8, <1>9
  <2>2. \A j \in 1 .. N : s[j].full > 0 /\ s[j].used <= s[j].full /\ s[j].at + s[j].full <= T
    BY <1>1, <1>3, <1>10, <1>11 DEF ManagerRight
  <2>3. \A j, l \in 1 .. N : j < l => s[j].at + s[j].full <= s[l].at
    BY <1>1, <1>10 DEF ManagerRight
  <2> QED
    BY <1>8, <1>9, <2>1, <2>2, <2>3 DEF ManagerRight
<1>13. t.blocks[k] = b /\ \A l \in 1 .. N : l # k => t.blocks[l] = m.blocks[l]
  BY <1>1, <1>2, <1>8, <1>9
<1> QED
  BY <1>1, <1>3, <1>8, <1>9, <1>12, <1>13

\* b is what comes behind the first u bytes of key, and block k has room for it.
ComesNext(m, k, key, u, b, v) ==
  /\ HasBytes(m, k, key, u) /\ m.total <= Limit(m.array)
  /\ Len(b) > 0 /\ v = u + Len(b) /\ v <= m.blocks[k].full
  /\ \A j \in 1 .. Len(b) : b[j] = key[u + j]

\* TDataManager.Write: the block of the stream holds the bytes written so far
\* and those that come next.
LEMMA WriteToBlockIs ==
  ASSUME NEW m, ManagerRight(m), NEW id, NEW k, SoleBlock(m, id, k), NEW key \in Seq(Int),
         NEW u \in Nat, NEW b \in Seq(Int), NEW v \in Nat, ComesNext(m, k, key, u, b, v),
         NEW t, t = WriteToBlock(m, id, b)
  PROVE  Filled(t, m, k, key, v) /\ SoleBlock(t, id, k)
<1>1. PICK N \in Nat : N = Len(m.blocks)
  <2>1. Len(m.blocks) \in Nat
    BY DEF ManagerRight
  <2> QED
    BY <2>1
<1>2. k \in 1 .. N /\ BlockOf(m, id) = k /\ k # 0
  <2>1. BlockOf(m, id) = k
    BY BlockOfIs
  <2>2. k \in 1 .. N
    BY <1>1 DEF SoleBlock
  <2> QED
    BY <2>1, <2>2
<1>3. /\ m.blocks[k] \in BlockType /\ m.blocks[k].at \in Nat /\ m.blocks[k].full \in Nat
      /\ m.blocks[k].at + m.blocks[k].full <= m.total /\ m.total \in Nat /\ ArrayRight(m.array)
  BY <1>1, <1>2, BlockIs DEF ManagerRight
<1>4. PICK at \in Nat : at = m.blocks[k].at
  BY <1>3
<1>5. PICK n \in Nat : n = Len(b)
  OBVIOUS
<1>6. n > 0 /\ v = u + n /\ m.blocks[k].used = u /\ v <= m.blocks[k].full
      /\ \A j \in 1 .. n : b[j] = key[u + j]
  BY <1>5 DEF ComesNext, HasBytes
<1>7. PICK p \in Nat : p = at + u
  OBVIOUS
<1>8. p <= Held(m.array) /\ p + n <= Limit(m.array) /\ Held(m.array) \in Nat /\ Limit(m.array) \in Nat
  <2>1. p <= Held(m.array)
    BY <1>4, <1>7 DEF ComesNext, HasBytes
  <2>2. Held(m.array) \in Nat /\ Limit(m.array) \in Nat
    BY <1>3, HeldNat
  <2>4. PICK f \in Nat : f = m.blocks[k].full
    BY <1>3
  <2>5. PICK tot \in Nat : tot = m.total
    BY <1>3
  <2>6. PICK lim \in Nat : lim = Limit(m.array)
    BY <2>2
  <2>7. at + f <= tot /\ tot <= lim /\ u + n <= f
    BY <1>3, <1>4, <1>6, <2>4, <2>5, <2>6 DEF ComesNext
  <2>3. p + n <= Limit(m.array)
    BY <1>7, <2>6, <2>7
  <2> QED
    BY <2>1, <2>2, <2>3
<1>9. PICK array : array = WriteArray(SetPosition(m.array, p), b)
  OBVIOUS
<1>10. WrittenTo(array, m.array, p, b)
  <2>1. p + Len(b) <= Limit(m.array) /\ p <= Held(m.array) /\ Len(b) > 0
    BY <1>5, <1>6, <1>8
  <2>2. ArrayRight(m.array)
    BY <1>3
  <2> QED
    BY <1>9, <2>1, <2>2, WriteArrayIs
<1>11. PICK c : c = MoreUsed(m.blocks[k], n)
  OBVIOUS
<1>12. /\ c \in BlockType /\ c.id = m.blocks[k].id /\ c.at = at /\ c.used = v
       /\ c.full = m.blocks[k].full /\ c.count = m.blocks[k].count
  <2>1. /\ c \in BlockType /\ c.id = m.blocks[k].id /\ c.at = m.blocks[k].at
        /\ c.used = m.blocks[k].used + n
        /\ c.full = m.blocks[k].full /\ c.count = m.blocks[k].count
    <3>1. PICK old \in BlockType : old = m.blocks[k]
      BY <1>3
    <3>3. c = MoreUsed(old, n)
      BY <1>11, <3>1
    <3>4. IsMoreUsed(c, old, n)
      BY <3>3 DEF IsMoreUsed
    <3>2. /\ c \in BlockType /\ c.id = old.id /\ c.at = old.at /\ c.used = old.used + n
          /\ c.full = old.full /\ c.count = old.count
      BY <3>4, MoreUsedIs, Zenon
    <3> QED
      BY <3>1, <3>2
  <2> QED
    BY <1>4, <1>6, <2>1
<1>13. t = WithBlock(m, array, k, c)
  <2>1. b # <<>>
    BY <1>5, <1>6
  <2>2. ~(m.blocks[k].used + Len(b) > m.blocks[k].full)
    <3>1. m.blocks[k].used + Len(b) = v
      BY <1>5, <1>6
    <3> QED
      BY <1>3, <1>6, <3>1
  <2>3. m.blocks[k].at + m.blocks[k].used = p
    BY <1>4, <1>6, <1>7
  <2>4. t = [m EXCEPT !.array = WriteArray(SetPosition(@, p), b), !.blocks[k].used = @ + Len(b)]
    BY <1>2, <2>1, <2>2, <2>3 DEF WriteToBlock
  <2>5. t = [m EXCEPT !.array = array, !.blocks[k].used = @ + n]
    BY <1>5, <1>9, <2>4
  <2> QED
    BY <1>11, <2>5 DEF WithBlock, MoreUsed
<1>14. /\ ManagerRight(t) /\ t.total = m.total /\ t.array = array
       /\ Len(t.blocks) = N /\ t.blocks[k] = c
       /\ \A l \in 1 .. N : l # k => t.blocks[l] = m.blocks[l]
  <2>1. ArrayRight(array)
    BY <1>10 DEF WrittenTo
  <2>2. k \in 1 .. Len(m.blocks)
    BY <1>1, <1>2
  <2>3. c.used <= c.full
    BY <1>6, <1>12
  <2>4. c \in BlockType /\ c.at = m.blocks[k].at /\ c.full = m.blocks[k].full
    BY <1>4, <1>12
  <2>5. /\ ManagerRight(t) /\ t.total = m.total /\ t.array = array
        /\ Len(t.blocks) = Len(m.blocks) /\ t.blocks[k] = c
        /\ \A l \in 1 .. Len(m.blocks) : l # k => t.blocks[l] = m.blocks[l]
    BY <1>13, <2>1, <2>2, <2>3, <2>4, WithBlockIs
  <2> QED
    BY <1>1, <2>5
<1>15. PICK h \in Nat : h = Held(m.array)
  BY <1>8
<1>16. PICK g \in Nat : g = Held(array) /\ g = (IF p + n < h THEN h ELSE p + n)
  <2>1. Held(array) = IF p + n < h THEN h ELSE p + n
    BY <1>5, <1>10, <1>15 DEF WrittenTo
  <2> QED
    BY <2>1
<1>17. \A q \in 0 .. g - 1 :
         ByteAt(array, q) = IF p <= q /\ q < p + n THEN b[q - p + 1] ELSE ByteAt(m.array, q)
  BY <1>5, <1>10, <1>16 DEF WrittenTo
<1>18. HasBytes(t, k, key, v)
  <2>0. at + v = p + n
    BY <1>6, <1>7
  <2>1. at + v <= g /\ at + v = p + n
    BY <1>16, <2>0
  <2>2. ASSUME NEW j \in 1 .. v PROVE ByteAt(array, at + j - 1) = key[j]
    <3>1. at + j - 1 \in 0 .. g - 1
      BY <2>1
    <3>2. CASE j <= u
      <4>1. ~(p <= at + j - 1)
        BY <1>7, <3>2
      <4>2. ByteAt(m.array, at + j - 1) = key[j]
        <5>1. j \in 1 .. u
          BY <3>2
        <5> QED
          BY <1>4, <5>1 DEF ComesNext, HasBytes
      <4> QED
        BY <1>17, <3>1, <4>1, <4>2
    <3>3. CASE j > u
      <4>1. p <= at + j - 1 /\ at + j - 1 < p + n /\ at + j - 1 - p + 1 = j - u
        BY <1>6, <1>7, <3>3
      <4>2. j - u \in 1 .. n /\ u + (j - u) = j
        BY <1>6, <3>3
      <4>3. b[j - u] = key[j]
        BY <1>6, <4>2
      <4>4. PICK q \in 0 .. g - 1 : q = at + j - 1
        BY <3>1
      <4>5. ByteAt(array, q) = b[q - p + 1]
        BY <1>17, <4>1, <4>4
      <4> QED
        BY <4>1, <4>3, <4>4, <4>5
    <3> QED
      BY <3>2, <3>3
  <2>3. Held(t.array) = g /\ t.blocks[k].at = at /\ t.blocks[k].used = v /\ t.array = array
    BY <1>12, <1>14, <1>16
  <2> QED
    BY <2>1, <2>2, <2>3 DEF HasBytes
<1>19. SoleBlock(t, id, k)
  <2>1. \A l \in 1 .. N : t.blocks[l].id = m.blocks[l].id /\ t.blocks[l].count = m.blocks[l].count
    BY <1>12, <1>14
  <2> QED
    BY <1>1, <1>2, <1>14, <2>1 DEF SoleBlock
<1>20. ASSUME NEW l \in 1 .. N, l # k, m.blocks[l].at + m.blocks[l].used <= h,
              NEW j \in 1 .. m.blocks[l].used
       PROVE  ByteAt(array, m.blocks[l].at + j - 1) = ByteAt(m.array, m.blocks[l].at + j - 1)
  <2>1. /\ m.blocks[l].at \in Nat /\ m.blocks[l].used \in Nat /\ m.blocks[l].full \in Nat
        /\ m.blocks[l].used <= m.blocks[l].full
    BY <1>1, BlockIs
  <2>6. PICK x \in Nat : x = m.blocks[l].at
    BY <2>1
  <2>7. PICK y \in Nat : y = m.blocks[l].used
    BY <2>1
  <2>8. PICK z \in Nat : z = m.blocks[l].full
    BY <2>1
  <2>9. y <= z /\ x + y <= h /\ j \in 1 .. y
    BY <1>20, <2>1, <2>6, <2>7, <2>8
  <2>2. PICK q \in Nat : q = x + j - 1
    BY <2>9
  <2>3. q < x + z /\ q >= x /\ q < h
    BY <2>2, <2>9
  <2>4. q < p \/ q >= p + n
    <3>1. CASE l < k
      <4>1. m.blocks[l].at + m.blocks[l].full <= m.blocks[k].at
        BY <1>1, <1>2, <3>1 DEF ManagerRight
      <4>2. x + z <= at
        BY <1>4, <2>6, <2>8, <4>1
      <4> QED
        BY <1>7, <2>3, <4>2
    <3>2. CASE k < l
      <4>1. m.blocks[k].at + m.blocks[k].full <= m.blocks[l].at
        BY <1>1, <1>2, <3>2 DEF ManagerRight
      <4>2. PICK f \in Nat : f = m.blocks[k].full
        BY <1>3
      <4>3. at + f <= x /\ u + n <= f
        BY <1>4, <1>6, <2>6, <4>1, <4>2
      <4> QED
        BY <1>7, <2>3, <4>3
    <3> QED
      BY <1>2, <1>20, <3>1, <3>2
  <2>5. q \in 0 .. g - 1
    BY <1>16, <2>3
  <2> QED
    BY <1>17, <2>2, <2>4, <2>5, <2>6
<1>21. Filled(t, m, k, key, v)
  <2>1. Limit(t.array) = Limit(m.array)
    BY <1>10, <1>14 DEF WrittenTo
  <2>2. Held(t.array) = IF at + v < h THEN h ELSE at + v
    BY <1>6, <1>7, <1>14, <1>16
  <2>3. /\ t.blocks[k].id = m.blocks[k].id /\ t.blocks[k].at = m.blocks[k].at
        /\ t.blocks[k].full = m.blocks[k].full /\ t.blocks[k].count = m.blocks[k].count
    BY <1>4, <1>12, <1>14
  <2> QED
    BY <1>1, <1>4, <1>14, <1>15, <1>18, <1>20, <2>1, <2>2, <2>3 DEF Filled
<1> QED
  BY <1>19, <1>21

\* Manager t is manager m with one copy less to make from block k.
CopiedFrom(t, m, k) ==
  /\ ManagerRight(t) /\ t.total = m.total /\ SameBytes(m.array, t.array)
  /\ Len(t.blocks) = Len(m.blocks)
  /\ \A l \in 1 .. Len(m.blocks) : l # k => t.blocks[l] = m.blocks[l]
  /\ t.blocks[k].id = m.blocks[k].id /\ t.blocks[k].at = m.blocks[k].at
  /\ t.blocks[k].used = m.blocks[k].used /\ t.blocks[k].full = m.blocks[k].full
  /\ t.blocks[k].count = m.blocks[k].count - 1

\* Block b after one more copy.
OneLess(b) == [b EXCEPT !.count = @ - 1]

\* The fields of a block after one more copy.
LEMMA OneLessIs ==
  ASSUME NEW old \in BlockType, old.count > 0, NEW b, b = OneLess(old)
  PROVE  /\ b \in BlockType /\ b.id = old.id /\ b.at = old.at /\ b.used = old.used
         /\ b.full = old.full /\ b.count = old.count - 1
<1>1. old.count \in Nat
  BY DEF BlockType
<1>2. PICK q \in Nat : q = old.count - 1
  BY <1>1
<1> QED
  BY <1>2 DEF OneLess, BlockType

\* TDataManager.CopyData: the copy is the whole stream, byte by byte.
LEMMA CopyDataIs ==
  ASSUME NEW m, ManagerRight(m), NEW id, NEW k, SoleBlock(m, id, k), NEW key \in Seq(Int),
         HasBytes(m, k, key, Len(key)), NEW r, r = CopyData(m, id)
  PROVE  r.bytes = key /\ CopiedFrom(r.manager, m, k)
<1>1. PICK N \in Nat : N = Len(m.blocks)
  BY DEF ManagerRight
<1>2. k \in 1 .. N /\ BlockOf(m, id) = k /\ k # 0 /\ m.blocks[k].count > 0
  <2>1. BlockOf(m, id) = k
    BY BlockOfIs
  <2>2. k \in 1 .. N /\ m.blocks[k].count > 0
    BY <1>1 DEF SoleBlock
  <2> QED
    BY <2>1, <2>2
<1>3. /\ m.blocks[k] \in BlockType /\ m.blocks[k].at \in Nat /\ ArrayRight(m.array)
      /\ m.blocks[k].used <= m.blocks[k].full
  BY <1>1, <1>2, BlockIs DEF ManagerRight
<1>4. PICK at \in Nat : at = m.blocks[k].at
  BY <1>3
<1>5. PICK n \in Nat : n = Len(key)
  OBVIOUS
<1>6. m.blocks[k].used = n /\ at + n <= Held(m.array)
      /\ \A j \in 1 .. n : ByteAt(m.array, at + j - 1) = key[j]
  BY <1>4, <1>5 DEF HasBytes
<1>7. PICK s : s = ReadArray(SetPosition(m.array, at), n)
  OBVIOUS
<1>8. /\ ArrayRight(s.array) /\ SameBytes(m.array, s.array)
      /\ s.bytes \in Seq(Int) /\ Len(s.bytes) = n
      /\ \A j \in 1 .. n : s.bytes[j] = ByteAt(m.array, at + j - 1)
  <2>1. ArrayRight(m.array) /\ at + n <= Held(m.array)
    BY <1>3, <1>6
  <2> QED
    BY <1>7, <2>1, ReadArrayIs
<1>9. s.bytes = key
  <2>1. \A j \in 1 .. Len(s.bytes) : s.bytes[j] = key[j]
    BY <1>6, <1>8
  <2>2. Len(s.bytes) = Len(key)
    BY <1>5, <1>8
  <2> QED
    BY <1>8, <2>1, <2>2, SeqEqual
<1>10. PICK c : c = OneLess(m.blocks[k])
  OBVIOUS
<1>11. /\ c \in BlockType /\ c.id = m.blocks[k].id /\ c.at = m.blocks[k].at
       /\ c.used = m.blocks[k].used
       /\ c.full = m.blocks[k].full /\ c.count = m.blocks[k].count - 1
  BY <1>2, <1>3, <1>10, OneLessIs
<1>12. r = [bytes |-> s.bytes, manager |-> WithBlock(m, s.array, k, c)]
  <2>1. r = [bytes |-> s.bytes,
             manager |-> [m EXCEPT !.array = s.array, !.blocks[k].count = @ - 1]]
    BY <1>2, <1>4, <1>6, <1>7 DEF CopyData
  <2> QED
    BY <1>10, <2>1 DEF WithBlock, OneLess
<1>13. PICK t : t = WithBlock(m, s.array, k, c)
  OBVIOUS
<1>14. r.bytes = s.bytes /\ r.manager = t
  BY <1>12, <1>13
<1>15. /\ ManagerRight(t) /\ t.total = m.total /\ t.array = s.array
       /\ Len(t.blocks) = Len(m.blocks) /\ t.blocks[k] = c
       /\ \A l \in 1 .. Len(m.blocks) : l # k => t.blocks[l] = m.blocks[l]
  <2>1. k \in 1 .. Len(m.blocks) /\ c.used <= c.full
    BY <1>1, <1>2, <1>3, <1>11
  <2>2. c \in BlockType /\ c.at = m.blocks[k].at /\ c.full = m.blocks[k].full
    BY <1>11
  <2> QED
    <3>1. PICK array : array = s.array
      OBVIOUS
    <3>2. ArrayRight(array) /\ t = WithBlock(m, array, k, c)
      BY <1>8, <1>13, <3>1
    <3> QED
      BY <2>1, <2>2, <3>1, <3>2, WithBlockIs
<1>16. CopiedFrom(t, m, k)
  BY <1>8, <1>11, <1>15 DEF CopiedFrom
<1> QED
  BY <1>9, <1>14, <1>16

-----------------------------------------------------------------------------
(* The input, and the streams that are written once *)

\* n bytes of the input of set-up u, behind the first o.
Part(u, o, n) == [j \in 1 .. n |-> u.file.bytes[o + j]]

\* A part of the input is what it says.
LEMMA PartIs ==
  ASSUME NEW u, u.file.bytes \in Seq(Int), NEW o \in Nat, NEW n \in Nat,
         o + n <= Len(u.file.bytes), NEW p, p = Part(u, o, n)
  PROVE  /\ p \in Seq(Int) /\ Len(p) = n /\ \A j \in 1 .. n : p[j] = u.file.bytes[o + j]
<1>1. \A j \in 1 .. n : u.file.bytes[o + j] \in Int
  <2>1. PICK N \in Nat : N = Len(u.file.bytes)
    OBVIOUS
  <2>2. ASSUME NEW j \in 1 .. n PROVE o + j \in 1 .. N
    BY <2>1
  <2> QED
    BY <2>1, <2>2
<1>2. p \in [1 .. n -> Int]
  BY <1>1 DEF Part
<1>3. p \in Seq(Int)
  BY <1>2, SeqDef
<1> QED
  BY <1>2, <1>3 DEF Part

\* The input has n bytes behind the first o.
Within(u, o, n) ==
  u.file.bytes \in Seq(Int) /\ o \in Nat /\ n \in Nat /\ o + n <= Len(u.file.bytes)

\* The n bytes behind the first o of the input are p.
IsPart(p, u, o, n) ==
  p \in Seq(Int) /\ Len(p) = n /\ \A j \in 1 .. n : p[j] = u.file.bytes[o + j]

\* The same, for provers that do not look at the arithmetic.
LEMMA PartWithin ==
  ASSUME NEW u, NEW o, NEW n, Within(u, o, n)
  PROVE  IsPart(Part(u, o, n), u, o, n)
<1>1. u.file.bytes \in Seq(Int) /\ o \in Nat /\ n \in Nat /\ o + n <= Len(u.file.bytes)
  BY DEF Within
<1>2. PICK p : p = Part(u, o, n)
  OBVIOUS
<1>3. p \in Seq(Int) /\ Len(p) = n /\ \A j \in 1 .. n : p[j] = u.file.bytes[o + j]
  BY <1>1, <1>2, PartIs
<1> QED
  BY <1>2, <1>3 DEF IsPart

\* Two parts of the input that meet are one part.
LEMMA PartJoin ==
  ASSUME NEW u, u.file.bytes \in Seq(Int), NEW o \in Nat, NEW n \in Nat, NEW k \in Nat,
         o + n + k <= Len(u.file.bytes), NEW x, x = o + n
  PROVE  Part(u, o, n) \o Part(u, x, k) = Part(u, o, n + k)
<1>1. PICK s : s = Part(u, o, n)
  OBVIOUS
<1>2. PICK t : t = Part(u, x, k)
  OBVIOUS
<1>3. PICK r : r = Part(u, o, n + k)
  OBVIOUS
<1>4. PICK N \in Nat : N = Len(u.file.bytes)
  OBVIOUS
<1>5. s \in Seq(Int) /\ Len(s) = n /\ \A j \in 1 .. n : s[j] = u.file.bytes[o + j]
  <2>1. o + n <= Len(u.file.bytes)
    BY <1>4
  <2>2. Within(u, o, n)
    BY <2>1 DEF Within
  <2>3. IsPart(s, u, o, n)
    BY <1>1, <2>2, PartWithin, Zenon
  <2> QED
    BY <2>3, Zenon DEF IsPart
<1>6. t \in Seq(Int) /\ Len(t) = k /\ \A j \in 1 .. k : t[j] = u.file.bytes[x + j]
  <2>1. x \in Nat
    OBVIOUS
  <2>2. x + k <= Len(u.file.bytes)
    BY <1>4
  <2>3. Within(u, x, k)
    BY <2>1, <2>2 DEF Within
  <2>4. IsPart(t, u, x, k)
    BY <1>2, <2>3, PartWithin, Zenon
  <2> QED
    BY <2>4, Zenon DEF IsPart
<1>7. r \in Seq(Int) /\ Len(r) = n + k /\ \A j \in 1 .. n + k : r[j] = u.file.bytes[o + j]
  <2>1. PICK y \in Nat : y = n + k
    OBVIOUS
  <2>2. o + y <= Len(u.file.bytes) /\ r = Part(u, o, y)
    BY <1>3, <1>4, <2>1
  <2>3. r \in Seq(Int) /\ Len(r) = y /\ \A j \in 1 .. y : r[j] = u.file.bytes[o + j]
    BY <2>2, PartIs
  <2> QED
    BY <2>1, <2>3
<1>8. PICK w : w = s \o t
  OBVIOUS
<1>9. /\ w \in Seq(Int) /\ Len(w) = n + k
      /\ \A j \in 1 .. n + k : w[j] = IF j <= n THEN s[j] ELSE t[j - n]
  <2>2. s \in Seq(Int) /\ t \in Seq(Int)
    BY <1>5, <1>6
  <2>1. /\ w \in Seq(Int) /\ Len(w) = Len(s) + Len(t)
        /\ \A j \in 1 .. Len(w) : w[j] = IF j <= Len(s) THEN s[j] ELSE t[j - Len(s)]
    BY <1>8, <2>2, JoinIs
  <2> QED
    BY <1>5, <1>6, <2>1
<1>10. ASSUME NEW j \in 1 .. n + k PROVE w[j] = r[j]
  <2>1. CASE j <= n
    <3>1. j \in 1 .. n
      BY <2>1
    <3>2. w[j] = s[j] /\ s[j] = u.file.bytes[o + j] /\ r[j] = u.file.bytes[o + j]
      BY <1>5, <1>7, <1>9, <2>1, <3>1
    <3> QED
      BY <3>2
  <2>2. CASE ~(j <= n)
    <3>1. j - n \in 1 .. k /\ x + (j - n) = o + j
      BY <2>2
    <3> QED
      BY <1>6, <1>7, <1>9, <2>2, <3>1
  <2> QED
    BY <2>1, <2>2
<1>11. w = r
  BY <1>7, <1>9, <1>10, SeqEqual
<1> QED
  BY <1>1, <1>2, <1>3, <1>8, <1>11

\* An entry of the list of streams that were new, and one of the list of those
\* that came again.
FirstType == [key : Seq(Int), index : Nat, count : Nat]
DupType == [stream : Nat, first : Nat]

\* The references to the z-th first stream, from stream i on.
Copies(d, z, i) == {q \in 1 .. Len(d.dups) : d.dups[q].first = z /\ d.dups[q].stream >= i}

\* The lists of first streams and of references are in the order of the
\* streams; no stream is in both; a reference comes behind its first stream,
\* which knows how many it has.
FirstsRight(d) ==
  /\ d.firsts \in Seq(FirstType)
  /\ \A z \in 1 .. Len(d.firsts) :
       /\ Len(d.firsts[z].key) > 0 /\ d.firsts[z].index < d.streams
       /\ d.firsts[z].count = Cardinality(Copies(d, z, 0))
  /\ \A y, z \in 1 .. Len(d.firsts) : y < z => d.firsts[y].index < d.firsts[z].index

\* Every stream that came again names an earlier one; they are listed in
\* the order of their numbers, and none is on both lists.
DupsRight(d) ==
  /\ d.dups \in Seq(DupType)
  /\ \A q \in 1 .. Len(d.dups) :
       /\ d.dups[q].stream < d.streams /\ d.dups[q].first \in 1 .. Len(d.firsts)
       /\ d.firsts[d.dups[q].first].index < d.dups[q].stream
       /\ \A z \in 1 .. Len(d.firsts) : d.firsts[z].index # d.dups[q].stream
  /\ \A p, q \in 1 .. Len(d.dups) : p < q => d.dups[p].stream < d.dups[q].stream

\* The lists of the deduplication: with it no bytes are listed twice, without
\* it nothing comes again.
DDRight(u, d) ==
  /\ d = [firsts |-> d.firsts, dups |-> d.dups, streams |-> d.streams, written |-> d.written]
  /\ d.streams \in Nat /\ d.written \in Nat /\ FirstsRight(d) /\ DupsRight(d)
  /\ IF u.dedup
     THEN \A y, z \in 1 .. Len(d.firsts) : d.firsts[y].key = d.firsts[z].key => y = z
     ELSE d.dups = <<>>

\* The fields of a stream that was new.
LEMMA FirstIsOf ==
  ASSUME NEW d, FirstsRight(d), NEW z \in 1 .. Len(d.firsts)
  PROVE  /\ d.firsts[z] \in FirstType /\ d.firsts[z].key \in Seq(Int)
         /\ d.firsts[z].index \in Nat /\ d.firsts[z].count \in Nat
         /\ Len(d.firsts[z].key) \in Nat /\ Len(d.firsts[z].key) > 0
<1>1. d.firsts[z] \in FirstType
  BY DEF FirstsRight
<1>2. d.firsts[z].key \in Seq(Int) /\ d.firsts[z].index \in Nat /\ d.firsts[z].count \in Nat
  BY <1>1 DEF FirstType
<1>3. Len(d.firsts[z].key) \in Nat /\ Len(d.firsts[z].key) > 0
  BY <1>2 DEF FirstsRight
<1> QED
  BY <1>1, <1>2, <1>3

\* The fields of a stream that came again.
LEMMA DupIs ==
  ASSUME NEW d, DupsRight(d), NEW q \in 1 .. Len(d.dups)
  PROVE  d.dups[q] \in DupType /\ d.dups[q].stream \in Nat /\ d.dups[q].first \in 1 .. Len(d.firsts)
<1>1. d.dups[q] \in DupType
  BY DEF DupsRight
<1> QED
  BY <1>1 DEF DupType, DupsRight

\* First streams and references are known by their numbers.
LEMMA SameFirst ==
  ASSUME NEW d, FirstsRight(d), NEW y \in 1 .. Len(d.firsts), NEW z \in 1 .. Len(d.firsts),
         d.firsts[y].index = d.firsts[z].index
  PROVE  y = z
<1>1. y < z \/ y = z \/ z < y
  OBVIOUS
<1>2. d.firsts[y].index \in Nat /\ d.firsts[z].index \in Nat
  BY FirstIsOf
<1>3. y < z => d.firsts[y].index < d.firsts[z].index
  BY DEF FirstsRight
<1>4. z < y => d.firsts[z].index < d.firsts[y].index
  BY DEF FirstsRight
<1> QED
  BY <1>1, <1>2, <1>3, <1>4

\* A number is listed once.
LEMMA SameDup ==
  ASSUME NEW d, DupsRight(d), NEW p \in 1 .. Len(d.dups), NEW q \in 1 .. Len(d.dups),
         d.dups[p].stream = d.dups[q].stream
  PROVE  p = q
<1>1. p < q \/ p = q \/ q < p
  OBVIOUS
<1>2. d.dups[p].stream \in Nat /\ d.dups[q].stream \in Nat
  BY DupIs
<1>3. p < q => d.dups[p].stream < d.dups[q].stream
  BY DEF DupsRight
<1>4. q < p => d.dups[q].stream < d.dups[p].stream
  BY DEF DupsRight
<1> QED
  BY <1>1, <1>2, <1>3, <1>4

\* The copies that are left.
LEMMA CopiesFinite ==
  ASSUME NEW d, DupsRight(d), NEW z, NEW i
  PROVE  IsFiniteSet(Copies(d, z, i)) /\ Cardinality(Copies(d, z, i)) \in Nat
<1>1. Len(d.dups) \in Nat
  BY DEF DupsRight
<1>2. IsFiniteSet(1 .. Len(d.dups))
  BY <1>1, FS_Interval
<1>3. IsFiniteSet(Copies(d, z, i))
  BY <1>2, FS_Subset DEF Copies
<1> QED
  BY <1>3, FS_CardinalityType

\* If stream i is no copy of the z-th one, as many copies of it come from
\* stream i + 1 on as from stream i on.
LEMMA NoCopyOf ==
  ASSUME NEW d, DupsRight(d), NEW i \in Nat, NEW z,
         \A q \in 1 .. Len(d.dups) : d.dups[q].stream = i => d.dups[q].first # z
  PROVE  Copies(d, z, i + 1) = Copies(d, z, i)
<1>1. ASSUME NEW q \in 1 .. Len(d.dups), d.dups[q].first = z
      PROVE  d.dups[q].stream >= i <=> d.dups[q].stream >= i + 1
  <2>1. d.dups[q].stream \in Nat /\ d.dups[q].stream # i
    BY <1>1, DupIs
  <2> QED
    BY <2>1
<1> QED
  BY <1>1 DEF Copies

\* If stream i is a copy of the z-th one, one copy less is left behind it.
LEMMA CopyOf ==
  ASSUME NEW d, DupsRight(d), NEW q \in 1 .. Len(d.dups), NEW i, i = d.dups[q].stream,
         NEW z, z = d.dups[q].first
  PROVE  /\ Cardinality(Copies(d, z, i)) > 0 /\ Copies(d, z, i) # {}
         /\ Cardinality(Copies(d, z, i + 1)) = Cardinality(Copies(d, z, i)) - 1
<1>1. i \in Nat
  BY DupIs
<1>2. q \in Copies(d, z, i)
  BY <1>1 DEF Copies
<1>3. ASSUME NEW p \in 1 .. Len(d.dups)
      PROVE  d.dups[p].stream >= i + 1 <=> d.dups[p].stream >= i /\ p # q
  <2>1. d.dups[p].stream \in Nat
    BY DupIs
  <2>2. d.dups[p].stream = i => p = q
    BY SameDup
  <2> QED
    BY <1>1, <2>1, <2>2
<1>4. Copies(d, z, i + 1) = Copies(d, z, i) \ {q}
  BY <1>3 DEF Copies
<1>5. IsFiniteSet(Copies(d, z, i)) /\ Cardinality(Copies(d, z, i)) \in Nat
      /\ Cardinality(Copies(d, z, i + 1)) \in Nat
  BY CopiesFinite
<1>6. Cardinality(Copies(d, z, i) \ {q}) = Cardinality(Copies(d, z, i)) - 1
  BY <1>2, <1>5, FS_RemoveElement
<1>7. PICK n \in Nat : n = Cardinality(Copies(d, z, i))
  BY <1>5
<1>8. Cardinality(Copies(d, z, i + 1)) = n - 1
  BY <1>4, <1>6, <1>7
<1>9. n > 0
  BY <1>5, <1>7, <1>8
<1> QED
  BY <1>2, <1>7, <1>8, <1>9

\* All copies of a stream come behind it.
LEMMA CopiesBehind ==
  ASSUME NEW d, FirstsRight(d), DupsRight(d), NEW z \in 1 .. Len(d.firsts)
  PROVE  Copies(d, z, d.firsts[z].index + 1) = Copies(d, z, 0)
<1>1. ASSUME NEW q \in 1 .. Len(d.dups), d.dups[q].first = z
      PROVE  d.dups[q].stream >= d.firsts[z].index + 1 /\ d.dups[q].stream >= 0
  <2>1. d.firsts[z].index < d.dups[q].stream
    BY <1>1 DEF DupsRight
  <2>2. d.firsts[z].index \in Nat /\ d.dups[q].stream \in Nat
    BY FirstIsOf, DupIs
  <2> QED
    BY <2>1, <2>2
<1> QED
  BY <1>1 DEF Copies

-----------------------------------------------------------------------------
(* What the decoder knows in front of stream i *)

\* An entry of the table.
TableEntry == [index : Nat, count : Nat]

\* The table names the first streams that come again, in their order.
TableRight(d, list) ==
  /\ list \in Seq(TableEntry)
  /\ \A l \in 1 .. Len(list) : \E z \in 1 .. Len(d.firsts) :
       /\ d.firsts[z].index = list[l].index /\ d.firsts[z].count = list[l].count
       /\ list[l].count > 0
  /\ \A z \in 1 .. Len(d.firsts) :
       d.firsts[z].count > 0 => \E l \in 1 .. Len(list) : list[l].index = d.firsts[z].index
  /\ \A l, m \in 1 .. Len(list) : l < m => list[l].index < list[m].index

\* x is the first entry of the table that is no earlier than stream i.
Pointer(list, x, i) ==
  /\ x \in Nat /\ x > 0
  /\ \A l \in 1 .. Len(list) : l < x <=> list[l].index < i

\* The table at x names stream i.
Named(list, x, i) == x <= Len(list) /\ list[x].index = i

\* The fields of an entry of the table.
LEMMA EntryIs ==
  ASSUME NEW d, NEW list, TableRight(d, list), NEW l \in 1 .. Len(list)
  PROVE  list[l].index \in Nat /\ list[l].count \in Nat
<1>1. list[l] \in TableEntry
  BY DEF TableRight
<1> QED
  BY <1>1 DEF TableEntry

\* The pointer stays right: it moves on where the table names the stream.
LEMMA PointerMoves ==
  ASSUME NEW d, NEW list, TableRight(d, list), NEW i \in Nat, NEW x, Pointer(list, x, i),
         NEW y, y = IF Named(list, x, i) THEN x + 1 ELSE x
  PROVE  Pointer(list, y, i + 1)
<1>1. x \in Nat /\ x > 0
  BY DEF Pointer
<1>2. PICK N \in Nat : N = Len(list)
  BY DEF TableRight
<1>3. CASE Named(list, x, i)
  <2>1. y = x + 1 /\ x \in 1 .. N /\ list[x].index = i
    BY <1>1, <1>2, <1>3 DEF Named
  <2>2. ASSUME NEW l \in 1 .. N PROVE l < x + 1 <=> list[l].index < i + 1
    <3>1. list[l].index \in Nat
      BY <1>2, EntryIs
    <3>2. l < x <=> list[l].index < i
      BY <1>2 DEF Pointer
    <3>3. CASE l <= x
      BY <1>1, <2>1, <3>1, <3>2, <3>3
    <3>4. CASE l > x
      <4>1. list[x].index < list[l].index
        BY <1>2, <2>1, <3>4 DEF TableRight
      <4> QED
        BY <1>1, <2>1, <3>1, <3>4, <4>1
    <3> QED
      BY <1>1, <3>3, <3>4
  <2> QED
    BY <1>1, <1>2, <2>1, <2>2 DEF Pointer
<1>4. CASE ~Named(list, x, i)
  <2>1. ASSUME NEW l \in 1 .. N PROVE l < x <=> list[l].index < i + 1
    <3>1. list[l].index \in Nat
      BY <1>2, EntryIs
    <3>2. l < x <=> list[l].index < i
      BY <1>2 DEF Pointer
    <3>3. CASE list[l].index = i
      <4>1. l # x /\ l >= x
        <5>1. ~(l < x)
          BY <3>2, <3>3
        <5>2. l # x
          BY <1>2, <1>4, <3>3 DEF Named
        <5> QED
          BY <1>1, <5>1, <5>2
      <4>2. x \in 1 .. N /\ x < l
        BY <1>1, <4>1
      <4>3. list[x].index < i
        BY <1>2, <3>3, <4>2 DEF TableRight
      <4>4. x < x
        BY <1>2, <4>2, <4>3 DEF Pointer
      <4> QED
        BY <1>1, <4>4
    <3>4. CASE list[l].index # i
      BY <3>1, <3>2, <3>4
    <3> QED
      BY <3>3, <3>4
  <2> QED
    BY <1>1, <1>2, <1>4, <2>1 DEF Pointer
<1> QED
  BY <1>3, <1>4

\* The pointer finds stream i exactly if it is a first stream that comes again.
LEMMA NamedIs ==
  ASSUME NEW d, FirstsRight(d), NEW list, TableRight(d, list), NEW i \in Nat, NEW x,
         Pointer(list, x, i)
  PROVE  /\ \A z \in 1 .. Len(d.firsts) :
              d.firsts[z].index = i /\ d.firsts[z].count > 0 =>
                Named(list, x, i) /\ list[x].count = d.firsts[z].count
         /\ Named(list, x, i) =>
              \E z \in 1 .. Len(d.firsts) : d.firsts[z].index = i /\ d.firsts[z].count > 0
<1>1. x \in Nat /\ x > 0
  BY DEF Pointer
<1>2. PICK N \in Nat : N = Len(list)
  BY DEF TableRight
<1>3. ASSUME Named(list, x, i)
      PROVE  \E z \in 1 .. Len(d.firsts) :
               /\ d.firsts[z].index = i /\ d.firsts[z].count > 0
               /\ d.firsts[z].count = list[x].count
  <2>1. x \in 1 .. N /\ list[x].index = i
    BY <1>1, <1>2, <1>3 DEF Named
  <2> QED
    BY <1>2, <2>1 DEF TableRight
<1>4. ASSUME NEW z \in 1 .. Len(d.firsts), d.firsts[z].index = i, d.firsts[z].count > 0
      PROVE  Named(list, x, i) /\ list[x].count = d.firsts[z].count
  <2>1. PICK l \in 1 .. N : list[l].index = i
    BY <1>2, <1>4 DEF TableRight
  <2>2. l >= x
    <3>1. ~(l < x)
      BY <1>2, <2>1 DEF Pointer
    <3> QED
      BY <1>1, <3>1
  <2>3. x \in 1 .. N
    BY <1>1, <2>2
  <2>4. x = l
    <3>1. SUFFICES ASSUME x < l PROVE FALSE
      BY <1>1, <2>2
    <3>2. list[x].index < i
      BY <1>2, <2>1, <2>3, <3>1 DEF TableRight
    <3>3. x < x
      BY <1>2, <2>3, <3>2 DEF Pointer
    <3> QED
      BY <1>1, <3>3
  <2>5. Named(list, x, i)
    BY <1>2, <2>1, <2>3, <2>4 DEF Named
  <2>6. PICK y \in 1 .. Len(d.firsts) : d.firsts[y].index = i /\ d.firsts[y].count = list[x].count
    BY <1>3, <2>5
  <2>7. y = z
    BY <1>4, <2>6, SameFirst
  <2> QED
    BY <2>5, <2>6, <2>7
<1> QED
  BY <1>3, <1>4

\* The manager holds the first streams before i that come again from i on, and
\* nothing else.
HoldsFirst(d, m, k, i) ==
  \E z \in 1 .. Len(d.firsts) :
    /\ d.firsts[z].index = m.blocks[k].id /\ d.firsts[z].index < i
    /\ m.blocks[k].count = Cardinality(Copies(d, z, i))
    /\ HasBytes(m, k, d.firsts[z].key, Len(d.firsts[z].key))

\* In front of stream i: a block that is in use belongs to an earlier
\* stream, holds its bytes and counts its copies from i on; a stream that comes again
\* from i on has such a block.
ManagerHas(d, m, i) ==
  /\ ManagerRight(m) /\ Held(m.array) = m.total
  /\ \A k \in 1 .. Len(m.blocks) :
       m.blocks[k].count > 0 => HoldsFirst(d, m, k, i) /\ SoleBlock(m, m.blocks[k].id, k)
  /\ \A z \in 1 .. Len(d.firsts) :
       d.firsts[z].index < i /\ Copies(d, z, i) # {} =>
         \E k \in 1 .. Len(m.blocks) : m.blocks[k].id = d.firsts[z].index /\ m.blocks[k].count > 0

\* Nothing is kept of stream i, and nothing copied.
LEMMA HasNothingNew ==
  ASSUME NEW u, NEW d, DDRight(u, d), NEW i \in Nat, NEW m, ManagerHas(d, m, i),
         \A q \in 1 .. Len(d.dups) : d.dups[q].stream # i,
         \A z \in 1 .. Len(d.firsts) : d.firsts[z].index = i => ~(d.firsts[z].count > 0)
  PROVE  ManagerHas(d, m, i + 1)
<1>1. FirstsRight(d) /\ DupsRight(d)
  BY DEF DDRight
<1>2. \A z : Copies(d, z, i + 1) = Copies(d, z, i)
  BY <1>1, NoCopyOf
<1>3. ASSUME NEW k \in 1 .. Len(m.blocks), HoldsFirst(d, m, k, i)
      PROVE  HoldsFirst(d, m, k, i + 1)
  <2>1. PICK z \in 1 .. Len(d.firsts) :
          /\ d.firsts[z].index = m.blocks[k].id /\ d.firsts[z].index < i
          /\ m.blocks[k].count = Cardinality(Copies(d, z, i))
          /\ HasBytes(m, k, d.firsts[z].key, Len(d.firsts[z].key))
    BY <1>3 DEF HoldsFirst
  <2>2. d.firsts[z].index < i + 1
    BY <1>1, <2>1, FirstIsOf
  <2> QED
    BY <1>2, <2>1, <2>2 DEF HoldsFirst
<1>4. ASSUME NEW z \in 1 .. Len(d.firsts), d.firsts[z].index < i + 1, Copies(d, z, i + 1) # {}
      PROVE  \E k \in 1 .. Len(m.blocks) : m.blocks[k].id = d.firsts[z].index /\ m.blocks[k].count > 0
  <2>1. d.firsts[z].index \in Nat /\ d.firsts[z].count \in Nat
    BY <1>1, FirstIsOf
  <2>2. CASE d.firsts[z].index = i
    <3>1. d.firsts[z].count = Cardinality(Copies(d, z, 0)) /\ Copies(d, z, i + 1) = Copies(d, z, 0)
      BY <1>1, <2>2, CopiesBehind DEF FirstsRight
    <3>2. Cardinality(Copies(d, z, 0)) = 0
      BY <2>1, <2>2, <3>1
    <3>3. Copies(d, z, 0) = {}
      BY <1>1, <3>2, CopiesFinite, FS_EmptySet
    <3> QED
      BY <1>4, <3>1, <3>3
  <2>3. CASE d.firsts[z].index # i
    <3>1. d.firsts[z].index < i
      BY <1>4, <2>1, <2>3
    <3> QED
      BY <1>2, <1>4, <3>1 DEF ManagerHas
  <2> QED
    BY <2>2, <2>3
<1> QED
  BY <1>3, <1>4 DEF ManagerHas

\* Block l of manager t is that of manager m.
Untouched(t, m, l) ==
  /\ l \in 1 .. Len(m.blocks) /\ t.blocks[l] = m.blocks[l]
  /\ \A other : \A v \in Nat : HasBytes(m, l, other, v) => HasBytes(t, l, other, v)

\* The blocks of other streams are not touched while stream i is kept.
LEMMA OthersStay ==
  ASSUME NEW m, ManagerRight(m), Held(m.array) = m.total, NEW id, NEW n \in Nat, NEW count,
         NEW k, NEW s, Added(s, m, id, n, count, k),
         NEW key, NEW t, Filled(t, s, k, key, n),
         NEW l \in 1 .. Len(t.blocks), l # k
  PROVE  Untouched(t, m, l)
<1>1. PICK N \in Nat : N = Len(m.blocks)
  BY DEF ManagerRight
<1>2. Len(t.blocks) = Len(s.blocks) /\ ManagerRight(s) /\ ManagerRight(t)
  BY DEF Added, Filled
<1>3. l \in 1 .. Len(s.blocks) /\ l <= N /\ s.blocks[l] = m.blocks[l]
  BY <1>1, <1>2 DEF Added
<1>4. l \in 1 .. N /\ t.blocks[l] = m.blocks[l]
  BY <1>3 DEF Filled
<1>5. ASSUME NEW other, NEW v \in Nat, HasBytes(m, l, other, v)
      PROVE  HasBytes(t, l, other, v)
  <2>1. PICK at \in Nat : at = m.blocks[l].at
    BY <1>1, <1>4, BlockIs
  <2>2. at + v <= Held(m.array) /\ m.blocks[l].used = v
        /\ \A j \in 1 .. v : ByteAt(m.array, at + j - 1) = other[j]
    BY <1>5, <2>1 DEF HasBytes
  <2>3. Held(s.array) = Held(m.array) /\ s.array = m.array
    BY DEF Added
  <2>4. \A j \in 1 .. v : ByteAt(t.array, at + j - 1) = ByteAt(s.array, at + j - 1)
    <3>1. s.blocks[l].at + s.blocks[l].used <= Held(s.array)
      BY <1>3, <2>1, <2>2, <2>3
    <3>2. \A j \in 1 .. s.blocks[l].used :
            ByteAt(t.array, s.blocks[l].at + j - 1) = ByteAt(s.array, s.blocks[l].at + j - 1)
      BY <1>3, <3>1 DEF Filled
    <3> QED
      BY <1>3, <2>1, <2>2, <3>2
  <2>5. Held(t.array) >= Held(m.array)
    <3>1. s.blocks[k].at \in Nat
      <4>1. k \in 1 .. Len(s.blocks)
        BY DEF Added, SoleBlock
      <4> QED
        BY <1>2, <4>1, BlockIs
    <3>2. PICK x \in Nat : x = s.blocks[k].at
      BY <3>1
    <3>3. PICK h \in Nat : h = Held(m.array)
      BY DEF ManagerRight
    <3>4. Held(t.array) = IF x + n < h THEN h ELSE x + n
      BY <2>3, <3>2, <3>3 DEF Filled
    <3> QED
      BY <3>3, <3>4
  <2>6. at + v <= Held(t.array)
    <3>1. PICK h \in Nat : h = Held(m.array)
      BY DEF ManagerRight
    <3>2. PICK g \in Nat : g = Held(t.array)
      <4>1. ArrayRight(t.array)
        BY <1>2 DEF ManagerRight
      <4> QED
        BY <4>1, HeldNat
    <3> QED
      BY <2>2, <2>5, <3>1, <3>2
  <2> QED
    BY <1>4, <2>1, <2>2, <2>3, <2>4, <2>6 DEF HasBytes
<1> QED
  BY <1>1, <1>4, <1>5 DEF Untouched

\* Block l of manager t is that of manager m, as far as the encoder foretells it.
SameRoom(t, m, l) ==
  /\ t.blocks[l].id = m.blocks[l].id /\ t.blocks[l].full = m.blocks[l].full
  /\ t.blocks[l].count = m.blocks[l].count

\* Manager t is manager m with block k for stream id.
ReusesRoom(t, m, id, k) ==
  /\ k \in 1 .. Len(m.blocks) /\ Len(t.blocks) = Len(m.blocks) /\ t.total = m.total
  /\ t.blocks[k].id = id /\ t.blocks[k].full = m.blocks[k].full /\ t.blocks[k].count > 0
  /\ \A l \in 1 .. Len(m.blocks) : l # k => SameRoom(t, m, l)

\* Manager t is manager m with a block of n bytes more, for stream id.
AddsRoom(t, m, id, n) ==
  \E k \in Nat :
    /\ k = Len(m.blocks) + 1 /\ Len(t.blocks) = k /\ t.total = m.total + n
    /\ t.blocks[k].id = id /\ t.blocks[k].full = n /\ t.blocks[k].count > 0
    /\ \A l \in 1 .. Len(m.blocks) : SameRoom(t, m, l)

\* Stream id has got its block: the first that is free and long enough, or a
\* new one.
RoomGiven(t, m, id, n) ==
  /\ FreeBlock(m, n) > 0 => ReusesRoom(t, m, id, FreeBlock(m, n))
  /\ FreeBlock(m, n) = 0 => AddsRoom(t, m, id, n)

\* Stream i, the z-th first one, has been kept.
GivesRoom(d, t, m, z, i) ==
  /\ d.firsts[z].index = i /\ d.firsts[z].count > 0
  /\ RoomGiven(t, m, i, Len(d.firsts[z].key))

\* One copy of stream id has been made.
CopyTaken(t, m, id) ==
  \E k \in 1 .. Len(m.blocks) :
    /\ m.blocks[k].id = id /\ m.blocks[k].count > 0
    /\ t.blocks[k].id = id /\ t.blocks[k].full = m.blocks[k].full
    /\ t.blocks[k].count = m.blocks[k].count - 1
    /\ \A l \in 1 .. Len(m.blocks) : l # k => SameRoom(t, m, l)
    /\ Len(t.blocks) = Len(m.blocks) /\ t.total = m.total

\* Stream i, a copy, has been written.
TakesCopy(d, t, m, q, i) ==
  d.dups[q].stream = i /\ CopyTaken(t, m, d.firsts[d.dups[q].first].index)

\* What stream i does to the blocks of the manager, if it is kept or a copy.
RoomsTurn(d, t, m, i) ==
  \/ \E z \in 1 .. Len(d.firsts) : GivesRoom(d, t, m, z, i)
  \/ \E q \in 1 .. Len(d.dups) : TakesCopy(d, t, m, q, i)

\* Which block TDataManager.Add takes.
LEMMA AddGivesRoom ==
  ASSUME NEW m, ManagerRight(m), NEW id \in Int, NEW n \in Nat, n > 0, NEW count \in Nat,
         count > 0, NEW t, t = AddBlock(m, id, n, count)
  PROVE  RoomGiven(t, m, id, n)
<1>1. PICK N \in Nat : N = Len(m.blocks)
  BY DEF ManagerRight
<1>2. PICK i : i = FreeBlock(m, n)
  OBVIOUS
<1>3. i \in 0 .. N /\ (i > 0 => m.blocks[i].count <= 0 /\ n <= m.blocks[i].full)
  BY <1>1, <1>2, FreeBlockIs
<1>4. PICK B, T, A : B = m.blocks /\ T = m.total /\ A = m.array
  OBVIOUS
<1>5. m = [blocks |-> B, total |-> T, array |-> A, ok |-> TRUE] /\ B \in Seq(BlockType) /\ T \in Nat
  BY <1>4 DEF ManagerRight
<1>6. CASE i > 0
  <2>1. PICK b : b = UsedAgain(m.blocks[i], id, count)
    OBVIOUS
  <2>2. i \in 1 .. N
    BY <1>3, <1>6
  <2>3. m.blocks[i] \in BlockType
    BY <1>1, <2>2, BlockIs
  <2>4. b \in BlockType /\ b.id = id /\ b.full = m.blocks[i].full /\ b.count = count
    BY <2>1, <2>3, UsedAgainIs
  <2>5. t = [m EXCEPT !.blocks[i] = b]
    <3>1. [m.blocks[i] EXCEPT !.id = id, !.used = 0, !.count = count] = b
      BY <2>1 DEF UsedAgain
    <3>2. ~(count <= 0) /\ FreeBlock(m, n) > 0
      BY <1>2, <1>6
    <3> QED
      BY <1>2, <3>1, <3>2 DEF AddBlock
  <2>6. t = [blocks |-> [B EXCEPT ![i] = b], total |-> T, array |-> A, ok |-> TRUE]
    BY <1>5, <2>5
  <2>7. PICK s : s = [B EXCEPT ![i] = b]
    OBVIOUS
  <2>8. t.blocks = s /\ t.total = T
    BY <2>6, <2>7
  <2>9. /\ s \in Seq(BlockType) /\ Len(s) = N
        /\ \A j \in 1 .. N : s[j] = IF j = i THEN b ELSE B[j]
    BY <1>1, <1>4, <1>5, <2>2, <2>4, <2>7, ExceptSeq
  <2>10. \A l \in 1 .. N : l # i => SameRoom(t, m, l)
    BY <1>4, <2>8, <2>9 DEF SameRoom
  <2>11. ReusesRoom(t, m, id, i)
    BY <1>1, <1>4, <2>2, <2>4, <2>8, <2>9, <2>10 DEF ReusesRoom
  <2>12. ~(i = 0)
    BY <1>6
  <2> QED
    BY <1>2, <2>11, <2>12, Zenon DEF RoomGiven
<1>7. CASE i = 0
  <2>1. PICK b : b = NewBlock(m, id, n, count)
    OBVIOUS
  <2>2. b \in BlockType /\ b.id = id /\ b.full = n /\ b.count = count
    <3>1. m.total \in Nat
      BY <1>4, <1>5
    <3> QED
      BY <2>1, <3>1, NewBlockIs
  <2>3. t = [m EXCEPT !.blocks = Append(m.blocks, b), !.total = m.total + n]
    <3>1. ~(count <= 0) /\ ~(FreeBlock(m, n) > 0)
      BY <1>2, <1>7
    <3> QED
      BY <2>1, <3>1 DEF AddBlock, NewBlock
  <2>4. PICK s, U : s = Append(B, b) /\ U = T + n
    OBVIOUS
  <2>5. t = [m EXCEPT !.blocks = s, !.total = U]
    BY <1>4, <2>3, <2>4
  <2>6. t = [blocks |-> s, total |-> U, array |-> A, ok |-> TRUE]
    BY <1>5, <2>5
  <2>7. t.blocks = s /\ t.total = U
    BY <2>6
  <2>8. PICK k \in Nat : k = N + 1
    OBVIOUS
  <2>9. /\ s \in Seq(BlockType) /\ Len(s) = k /\ s[k] = b
        /\ \A j \in 1 .. N : s[j] = B[j]
    BY <1>1, <1>4, <1>5, <2>2, <2>4, <2>8
  <2>10. \A l \in 1 .. N : SameRoom(t, m, l)
    BY <1>4, <2>7, <2>9 DEF SameRoom
  <2>11. AddsRoom(t, m, id, n)
    BY <1>1, <1>4, <2>2, <2>4, <2>7, <2>8, <2>9, <2>10 DEF AddsRoom
  <2>12. ~(i > 0)
    BY <1>7
  <2> QED
    BY <1>2, <2>11, <2>12, Zenon DEF RoomGiven
<1> QED
  BY <1>3, <1>6, <1>7

\* The block keeps its stream while the bytes are written.
LEMMA FillKeepsRoom ==
  ASSUME NEW m, ManagerRight(m), NEW id, NEW n \in Nat, NEW s, RoomGiven(s, m, id, n),
         NEW k \in 1 .. Len(s.blocks), NEW key, NEW u, NEW t, Filled(t, s, k, key, u)
  PROVE  RoomGiven(t, m, id, n)
<1>1. PICK N \in Nat : N = Len(m.blocks)
  BY DEF ManagerRight
<1>2. PICK i : i = FreeBlock(m, n)
  OBVIOUS
<1>3. i \in 0 .. N
  BY <1>1, <1>2, FreeBlockIs
<1>4. \A l \in 1 .. Len(s.blocks) : SameRoom(t, s, l)
  BY DEF Filled, SameRoom
<1>5. Len(t.blocks) = Len(s.blocks) /\ t.total = s.total
  BY DEF Filled
<1>6. CASE i > 0
  <2>1. ReusesRoom(s, m, id, i)
    BY <1>2, <1>6 DEF RoomGiven
  <2>2. Len(s.blocks) = N /\ i \in 1 .. N
    BY <1>1, <2>1 DEF ReusesRoom
  <2>3. \A l \in 1 .. N : SameRoom(t, s, l)
    BY <1>4, <2>2
  <2>4. ReusesRoom(t, m, id, i)
    BY <1>1, <1>5, <2>1, <2>2, <2>3 DEF ReusesRoom, SameRoom
  <2>5. ~(i = 0)
    BY <1>6
  <2> QED
    BY <1>2, <2>4, <2>5, Zenon DEF RoomGiven
<1>7. CASE i = 0
  <2>1. AddsRoom(s, m, id, n)
    BY <1>2, <1>7 DEF RoomGiven
  <2>2. PICK e \in Nat :
          /\ e = N + 1 /\ Len(s.blocks) = e /\ s.total = m.total + n
          /\ s.blocks[e].id = id /\ s.blocks[e].full = n /\ s.blocks[e].count > 0
          /\ \A l \in 1 .. N : SameRoom(s, m, l)
    BY <1>1, <2>1 DEF AddsRoom
  <2>3. \A l \in 1 .. e : SameRoom(t, s, l)
    BY <1>4, <2>2
  <2>4. e \in 1 .. e /\ \A l \in 1 .. N : l \in 1 .. e
    BY <2>2
  <2>5. AddsRoom(t, m, id, n)
    BY <1>1, <1>5, <2>2, <2>3, <2>4 DEF AddsRoom, SameRoom
  <2>6. ~(i > 0)
    BY <1>7
  <2> QED
    BY <1>2, <2>5, <2>6, Zenon DEF RoomGiven
<1> QED
  BY <1>3, <1>6, <1>7

\* A copy has been made from block k.
LEMMA CopyTakenIs ==
  ASSUME NEW m, NEW t, NEW id, NEW k \in 1 .. Len(m.blocks), m.blocks[k].id = id,
         m.blocks[k].count > 0, CopiedFrom(t, m, k)
  PROVE  CopyTaken(t, m, id)
<1>1. \A l \in 1 .. Len(m.blocks) : l # k => SameRoom(t, m, l)
  BY DEF CopiedFrom, SameRoom
<1> QED
  BY <1>1 DEF CopiedFrom, CopyTaken

\* What comes of keeping stream i of n bytes.
StillFits(d, t, m, i, n) ==
  /\ ManagerHas(d, t, i + 1) /\ t.total <= m.total + n /\ Limit(t.array) = Limit(m.array)
  /\ RoomsTurn(d, t, m, i)

\* A manager has so and so many blocks.
LEMMA BlockCount ==
  ASSUME NEW m, ManagerRight(m)
  PROVE  Len(m.blocks) \in Nat
BY DEF ManagerRight

\* Stream i has been kept.
LEMMA StillFitsIs ==
  ASSUME NEW u, NEW d, DDRight(u, d), NEW i \in Nat, NEW m, ManagerHas(d, m, i),
         NEW z \in 1 .. Len(d.firsts), d.firsts[z].index = i, d.firsts[z].count > 0,
         NEW key, key = d.firsts[z].key, NEW n, n = Len(key),
         NEW count, count = d.firsts[z].count,
         NEW k, NEW s, s = AddBlock(m, i, n, count), Added(s, m, i, n, count, k),
         NEW t, Filled(t, s, k, key, n), SoleBlock(t, i, k)
  PROVE  StillFits(d, t, m, i, n)
<1>1. /\ FirstsRight(d) /\ DupsRight(d) /\ ManagerRight(m) /\ Held(m.array) = m.total
      /\ ManagerRight(s) /\ ManagerRight(t)
  BY DEF DDRight, ManagerHas, Added, Filled
<1>2. n \in Nat /\ n > 0 /\ count \in Nat
  BY <1>1, FirstIsOf
<1>3. PICK N \in Nat : N = Len(m.blocks)
  BY <1>1, BlockCount
<1>4. PICK M \in Nat : M = Len(t.blocks)
  BY <1>1, BlockCount
<1>5. k \in 1 .. M /\ Len(s.blocks) = M /\ N <= M
  BY <1>3, <1>4 DEF SoleBlock, Filled, Added
<1>6. \A x : Copies(d, x, i + 1) = Copies(d, x, i)
  <2>1. \A q \in 1 .. Len(d.dups) : d.dups[q].stream # i
    BY <1>1 DEF DupsRight
  <2> QED
    BY <1>1, <2>1, NoCopyOf
<1>7. PICK T \in Nat : T = m.total
  BY <1>1 DEF ManagerRight
<1>8. PICK at \in Nat : at = s.blocks[k].at
  BY <1>1, <1>5, BlockIs
<1>9. PICK full \in Nat : full = s.blocks[k].full
  BY <1>1, <1>5, BlockIs
<1>10. PICK R \in Nat : R = s.total
  BY <1>1 DEF ManagerRight
<1>11. at + full <= R /\ n <= full /\ (R = T \/ (R = T + n /\ at = T))
  <2>1. at + full <= R
    BY <1>1, <1>5, <1>8, <1>9, <1>10, BlockIs
  <2>2. n <= full
    BY <1>9 DEF Added
  <2>3. s.total = m.total \/ (s.total = m.total + n /\ s.blocks[k].at = m.total)
    BY DEF Added
  <2> QED
    BY <1>7, <1>8, <1>10, <2>1, <2>2, <2>3
<1>12. t.total = R
  BY <1>10 DEF Filled
<1>13. Held(t.array) = t.total
  <2>1. Held(s.array) = T
    BY <1>1, <1>7 DEF Added
  <2>2. Held(t.array) = IF at + n < T THEN T ELSE at + n
    BY <1>8, <2>1 DEF Filled
  <2> QED
    BY <1>2, <1>11, <1>12, <2>2, SMTT(60)
<1>14. HoldsFirst(d, t, k, i + 1) /\ t.blocks[k].id = i /\ t.blocks[k].count > 0
  <2>1. t.blocks[k].id = i /\ t.blocks[k].count = count /\ HasBytes(t, k, key, n)
    <3>1. s.blocks[k].id = i /\ s.blocks[k].count = count
      BY DEF Added, SoleBlock
    <3> QED
      BY <3>1 DEF Filled
  <2>2. count = Cardinality(Copies(d, z, i + 1))
    <3>1. Copies(d, z, i + 1) = Copies(d, z, 0)
      BY <1>1, CopiesBehind
    <3> QED
      BY <1>1, <3>1 DEF FirstsRight
  <2>3. d.firsts[z].index < i + 1
    OBVIOUS
  <2> QED
    BY <2>1, <2>2, <2>3 DEF HoldsFirst
<1>15. ASSUME NEW l \in 1 .. M, l # k
       PROVE  /\ l \in 1 .. N /\ t.blocks[l] = m.blocks[l]
              /\ \A other : \A v \in Nat : HasBytes(m, l, other, v) => HasBytes(t, l, other, v)
  <2>1. l \in 1 .. Len(t.blocks) /\ l # k
    BY <1>4, <1>15
  <2>3. ManagerRight(m) /\ Held(m.array) = m.total /\ n \in Nat
    BY <1>1, <1>2
  <2>2. Untouched(t, m, l)
    BY <2>1, <2>3, OthersStay
  <2> QED
    BY <1>3, <2>2 DEF Untouched
<1>16. ASSUME NEW l \in 1 .. M, l # k, t.blocks[l].count > 0
       PROVE  HoldsFirst(d, t, l, i + 1) /\ SoleBlock(t, t.blocks[l].id, l)
  <2>1. l \in 1 .. N /\ t.blocks[l] = m.blocks[l]
    BY <1>15, <1>16
  <2>2. HoldsFirst(d, m, l, i) /\ SoleBlock(m, m.blocks[l].id, l)
    BY <1>3, <1>16, <2>1 DEF ManagerHas
  <2>3. PICK y \in 1 .. Len(d.firsts) :
          /\ d.firsts[y].index = m.blocks[l].id /\ d.firsts[y].index < i
          /\ m.blocks[l].count = Cardinality(Copies(d, y, i))
          /\ HasBytes(m, l, d.firsts[y].key, Len(d.firsts[y].key))
    BY <2>2 DEF HoldsFirst
  <2>4. d.firsts[y].index \in Nat /\ Len(d.firsts[y].key) \in Nat
    BY <1>1, FirstIsOf
  <2>5. d.firsts[y].index < i + 1
    BY <2>3, <2>4
  <2>6. HasBytes(t, l, d.firsts[y].key, Len(d.firsts[y].key))
    BY <1>15, <1>16, <2>3, <2>4
  <2>7. HoldsFirst(d, t, l, i + 1)
    BY <1>6, <2>1, <2>3, <2>5, <2>6 DEF HoldsFirst
  <2>8. ASSUME NEW p \in 1 .. M, t.blocks[p].id = t.blocks[l].id, t.blocks[p].count > 0
        PROVE  p = l
    <3>1. p # k
      BY <1>14, <2>1, <2>3, <2>4, <2>8
    <3>2. p \in 1 .. N /\ t.blocks[p] = m.blocks[p]
      BY <1>15, <3>1
    <3> QED
      BY <1>3, <2>1, <2>2, <2>8, <3>2 DEF SoleBlock
  <2>9. SoleBlock(t, t.blocks[l].id, l)
    BY <1>4, <1>16, <2>8 DEF SoleBlock
  <2> QED
    BY <2>7, <2>9
<1>17. ASSUME NEW y \in 1 .. Len(d.firsts), d.firsts[y].index < i + 1, Copies(d, y, i + 1) # {}
       PROVE  \E l \in 1 .. M : t.blocks[l].id = d.firsts[y].index /\ t.blocks[l].count > 0
  <2>1. CASE d.firsts[y].index = i
    BY <1>5, <1>14, <2>1
  <2>2. CASE d.firsts[y].index # i
    <3>0. d.firsts[y].index \in Nat
      BY <1>1, FirstIsOf
    <3>1. d.firsts[y].index < i
      BY <1>17, <2>2, <3>0
    <3>2. PICK l \in 1 .. N : m.blocks[l].id = d.firsts[y].index /\ m.blocks[l].count > 0
      BY <1>3, <1>6, <1>17, <3>1 DEF ManagerHas
    <3>3. l # k
      <4>1. m.blocks[l].count \in Nat
        BY <1>1, <1>3, BlockIs
      <4>2. k <= N => m.blocks[k].count <= 0
        BY <1>3 DEF Added
      <4> QED
        BY <3>2, <4>1, <4>2
    <3>4. l \in 1 .. M
      BY <1>5
    <3> QED
      BY <1>15, <3>2, <3>3, <3>4
  <2> QED
    BY <2>1, <2>2
<1>18. ManagerHas(d, t, i + 1)
  <2>1. \A l \in 1 .. M : t.blocks[l].count > 0 => HoldsFirst(d, t, l, i + 1) /\ SoleBlock(t, t.blocks[l].id, l)
    BY <1>14, <1>16
  <2> QED
    BY <1>1, <1>4, <1>13, <1>17, <2>1 DEF ManagerHas
<1>19. t.total <= m.total + n
  BY <1>2, <1>7, <1>11, <1>12
<1>20. Limit(t.array) = Limit(m.array)
  BY DEF Added, Filled
<1>21. RoomsTurn(d, t, m, i)
  <2>1. i \in Int /\ n > 0 /\ count > 0
    BY <1>2
  <2>2. RoomGiven(s, m, i, n)
    BY <1>1, <1>2, <2>1, AddGivesRoom
  <2>3. k \in 1 .. Len(s.blocks)
    BY <1>5
  <2>4. RoomGiven(t, m, i, n)
    BY <1>1, <1>2, <2>2, <2>3, FillKeepsRoom
  <2>5. GivesRoom(d, t, m, z, i)
    BY <2>4 DEF GivesRoom
  <2> QED
    BY <2>5 DEF RoomsTurn
<1> QED
  BY <1>18, <1>19, <1>20, <1>21 DEF StillFits

\* A block that is filled in two pieces is filled.
LEMMA FilledTwice ==
  ASSUME NEW s, ManagerRight(s), NEW k \in 1 .. Len(s.blocks), NEW key, NEW m \in Nat, NEW n \in Nat,
         m <= n, NEW r, Filled(r, s, k, key, m), NEW t, Filled(t, r, k, key, n)
  PROVE  Filled(t, s, k, key, n)
<1>1. PICK N \in Nat : N = Len(s.blocks)
  BY DEF ManagerRight
<1>2. Len(r.blocks) = N /\ Len(t.blocks) = N
  BY <1>1 DEF Filled
<1>3. PICK at \in Nat : at = s.blocks[k].at
  BY BlockIs
<1>4. r.blocks[k].at = at
  BY <1>3 DEF Filled
<1>5. PICK h \in Nat : h = Held(s.array)
  <2>1. ArrayRight(s.array)
    BY DEF ManagerRight
  <2> QED
    BY <2>1, HeldNat
<1>6. PICK g \in Nat : g = Held(r.array)
  <2>1. ArrayRight(r.array)
    BY DEF Filled, ManagerRight
  <2> QED
    BY <2>1, HeldNat
<1>7. g = (IF at + m < h THEN h ELSE at + m)
  BY <1>3, <1>5, <1>6 DEF Filled
<1>8. Held(t.array) = (IF at + n < g THEN g ELSE at + n)
  BY <1>4, <1>6 DEF Filled
<1>9. Held(t.array) = (IF at + n < h THEN h ELSE at + n)
  BY <1>7, <1>8
<1>10. \A l \in 1 .. N : l # k => t.blocks[l] = s.blocks[l] /\ r.blocks[l] = s.blocks[l]
  BY <1>1, <1>2 DEF Filled
<1>11. ASSUME NEW l \in 1 .. N, l # k, s.blocks[l].at + s.blocks[l].used <= h,
              NEW j \in 1 .. s.blocks[l].used
       PROVE  ByteAt(t.array, s.blocks[l].at + j - 1) = ByteAt(s.array, s.blocks[l].at + j - 1)
  <2>1. r.blocks[l] = s.blocks[l]
    BY <1>10, <1>11
  <2>2. ByteAt(r.array, s.blocks[l].at + j - 1) = ByteAt(s.array, s.blocks[l].at + j - 1)
    BY <1>1, <1>5, <1>11 DEF Filled
  <2>3. r.blocks[l].at + r.blocks[l].used <= g
    <3>1. PICK x \in Nat : x = s.blocks[l].at
      BY <1>1, BlockIs
    <3>2. PICK y \in Nat : y = s.blocks[l].used
      BY <1>1, BlockIs
    <3>3. x + y <= h
      BY <1>11, <3>1, <3>2
    <3>4. x + y <= g
      BY <1>7, <3>3
    <3> QED
      BY <2>1, <3>1, <3>2, <3>4
  <2>4. ByteAt(t.array, r.blocks[l].at + j - 1) = ByteAt(r.array, r.blocks[l].at + j - 1)
    <3>1. l \in 1 .. Len(r.blocks) /\ j \in 1 .. r.blocks[l].used
      BY <1>2, <1>11, <2>1
    <3>2. r.blocks[l].at + r.blocks[l].used <= Held(r.array)
      BY <1>6, <2>3
    <3> QED
      BY <1>11, <3>1, <3>2 DEF Filled
  <2> QED
    BY <2>1, <2>2, <2>4
<1>12. ManagerRight(t) /\ t.total = s.total /\ Limit(t.array) = Limit(s.array)
  BY DEF Filled
<1>13. /\ t.blocks[k].id = s.blocks[k].id /\ t.blocks[k].at = s.blocks[k].at
       /\ t.blocks[k].full = s.blocks[k].full /\ t.blocks[k].count = s.blocks[k].count
  BY DEF Filled
<1>14. HasBytes(t, k, key, n)
  BY DEF Filled
<1> QED
  BY <1>1, <1>2, <1>3, <1>5, <1>9, <1>10, <1>11, <1>12, <1>13, <1>14 DEF Filled

\* A block is made for stream i, and there is room for the stream.
LEMMA BlockMade ==
  ASSUME NEW u, NEW d, DDRight(u, d), NEW i \in Nat, NEW m, ManagerHas(d, m, i),
         NEW z \in 1 .. Len(d.firsts), d.firsts[z].index = i, d.firsts[z].count > 0,
         NEW n, n = Len(d.firsts[z].key), m.total + n <= Limit(m.array),
         NEW s, s = AddBlock(m, i, n, d.firsts[z].count), NEW key
  PROVE  \E k \in Nat : /\ Added(s, m, i, n, d.firsts[z].count, k)
                        /\ HasBytes(s, k, key, 0) /\ s.total <= Limit(s.array)
<1>1. FirstsRight(d) /\ ManagerRight(m) /\ Held(m.array) = m.total
  BY DEF DDRight, ManagerHas
<1>2. PICK count \in Nat : count = d.firsts[z].count
  BY <1>1, FirstIsOf
<1>3. n \in Nat /\ n > 0
  BY <1>1, FirstIsOf
<1>4. \A l \in 1 .. Len(m.blocks) : m.blocks[l].count > 0 => m.blocks[l].id # i
  <2> SUFFICES ASSUME NEW l \in 1 .. Len(m.blocks), m.blocks[l].count > 0
               PROVE  m.blocks[l].id # i
    OBVIOUS
  <2>1. HoldsFirst(d, m, l, i)
    BY DEF ManagerHas
  <2>2. PICK y \in 1 .. Len(d.firsts) :
          d.firsts[y].index = m.blocks[l].id /\ d.firsts[y].index < i
    BY <2>1 DEF HoldsFirst
  <2>3. d.firsts[y].index \in Nat
    BY <1>1, FirstIsOf
  <2> QED
    BY <2>2, <2>3
<1>5. PICK k \in Nat : Added(s, m, i, n, count, k)
  <2>1. s = AddBlock(m, i, n, count) /\ count > 0 /\ i \in Int
    BY <1>2
  <2> QED
    BY <1>1, <1>3, <1>4, <2>1, AddBlockIs
<1>6. PICK T \in Nat : T = m.total
  BY <1>1 DEF ManagerRight
<1>7. PICK L \in Nat : L = Limit(m.array)
  <2>1. ArrayRight(m.array)
    BY <1>1 DEF ManagerRight
  <2> QED
    BY <2>1, HeldNat
<1>8. s.total = m.total \/ s.total = m.total + n
  BY <1>5 DEF Added
<1>9. s.total <= Limit(s.array)
  <2>1. Limit(s.array) = L
    BY <1>5, <1>7 DEF Added
  <2>2. T + n <= L
    BY <1>6, <1>7
  <2> QED
    BY <1>3, <1>6, <1>8, <2>1, <2>2
<1>10. HasBytes(s, k, key, 0)
  <2>1. s.blocks[k].used = 0 /\ s.blocks[k].at <= m.total /\ s.array = m.array
    BY <1>5 DEF Added
  <2>2. s.blocks[k].at \in Nat
    <3>1. ManagerRight(s) /\ k \in 1 .. Len(s.blocks)
      BY <1>5 DEF Added, SoleBlock
    <3> QED
      BY <3>1, BlockIs, Zenon
  <2>3. s.blocks[k].at + 0 <= Held(s.array)
    BY <1>1, <2>1, <2>2
  <2> QED
    BY <2>1, <2>3 DEF HasBytes
<1> QED
  BY <1>2, <1>5, <1>9, <1>10

\* Stream i is kept as it is written in one piece.
LEMMA KeepOnce ==
  ASSUME NEW u, NEW d, DDRight(u, d), NEW i \in Nat, NEW m, ManagerHas(d, m, i),
         NEW z \in 1 .. Len(d.firsts), d.firsts[z].index = i, d.firsts[z].count > 0,
         NEW key, key = d.firsts[z].key, NEW n, n = Len(key), m.total + n <= Limit(m.array),
         NEW s, s = AddBlock(m, i, n, d.firsts[z].count), NEW t, t = WriteToBlock(s, i, key)
  PROVE  StillFits(d, t, m, i, n)
<1>1. PICK count : count = d.firsts[z].count
  OBVIOUS
<1>2. PICK k \in Nat : /\ Added(s, m, i, n, count, k)
                       /\ HasBytes(s, k, key, 0) /\ s.total <= Limit(s.array)
  <2>1. n = Len(d.firsts[z].key)
    OBVIOUS
  <2> QED
    BY <1>1, <2>1, BlockMade
<1>3. key \in Seq(Int) /\ n \in Nat /\ n > 0
  BY FirstIsOf DEF DDRight
<1>4. ManagerRight(s) /\ SoleBlock(s, i, k) /\ n <= s.blocks[k].full
  BY <1>2 DEF Added
<1>5. ComesNext(s, k, key, 0, key, n)
  <2>1. n = 0 + Len(key) /\ Len(key) > 0 /\ \A j \in 1 .. Len(key) : key[j] = key[0 + j]
    BY <1>3
  <2> QED
    BY <1>2, <1>4, <2>1 DEF ComesNext
<1>6. Filled(t, s, k, key, n) /\ SoleBlock(t, i, k)
  <2>1. 0 \in Nat
    OBVIOUS
  <2> QED
    BY <1>3, <1>4, <1>5, <2>1, WriteToBlockIs
<1>7. /\ s = AddBlock(m, i, n, count) /\ Added(s, m, i, n, count, k)
      /\ Filled(t, s, k, key, n) /\ SoleBlock(t, i, k)
  BY <1>1, <1>2, <1>6
<1> QED
  BY <1>1, <1>7, StillFitsIs

\* Stream i is kept as it is written in two pieces.
LEMMA KeepTwice ==
  ASSUME NEW u, NEW d, DDRight(u, d), NEW i \in Nat, NEW m, ManagerHas(d, m, i),
         NEW z \in 1 .. Len(d.firsts), d.firsts[z].index = i, d.firsts[z].count > 0,
         NEW key, key = d.firsts[z].key, NEW n, n = Len(key), m.total + n <= Limit(m.array),
         NEW s, s = AddBlock(m, i, n, d.firsts[z].count),
         NEW r, r = WriteToBlock(s, i, SubSeq(key, 1, 1)),
         NEW t, t = WriteToBlock(r, i, SubSeq(key, 2, n))
  PROVE  StillFits(d, t, m, i, n)
<1>1. PICK count : count = d.firsts[z].count
  OBVIOUS
<1>2. PICK k \in Nat : /\ Added(s, m, i, n, count, k)
                       /\ HasBytes(s, k, key, 0) /\ s.total <= Limit(s.array)
  <2>1. n = Len(d.firsts[z].key)
    OBVIOUS
  <2> QED
    BY <1>1, <2>1, BlockMade
<1>3. key \in Seq(Int) /\ n \in Nat /\ n > 0
  BY FirstIsOf, SMTT(40) DEF DDRight
<1>4. ManagerRight(s) /\ SoleBlock(s, i, k) /\ n <= s.blocks[k].full
  BY <1>2 DEF Added
<1>5. PICK a : a = SubSeq(key, 1, 1)
  OBVIOUS
<1>6. a \in Seq(Int) /\ Len(a) = 1 /\ a[1] = key[1]
  <2>1. a = SubSeq(key, 0 + 1, 1) /\ 1 <= Len(key)
    BY <1>3, <1>5
  <2>2. a \in Seq(Int) /\ Len(a) = (IF 0 < 1 THEN 1 - 0 ELSE 0)
        /\ \A j \in 1 .. Len(a) : a[j] = key[0 + j]
    BY <1>3, <2>1, PieceIs
  <2> QED
    BY <2>2
<1>7. ComesNext(s, k, key, 0, a, 1)
  <2>1. 1 = 0 + Len(a) /\ Len(a) > 0 /\ \A j \in 1 .. Len(a) : a[j] = key[0 + j]
    BY <1>6
  <2>2. 1 <= s.blocks[k].full
    <3>1. s.blocks[k].full \in Nat
      BY <1>4, BlockIs DEF SoleBlock
    <3> QED
      BY <1>3, <1>4, <3>1
  <2> QED
    BY <1>2, <2>1, <2>2 DEF ComesNext
<1>8. Filled(r, s, k, key, 1) /\ SoleBlock(r, i, k)
  <2>1. 0 \in Nat /\ 1 \in Nat /\ r = WriteToBlock(s, i, a)
    BY <1>5
  <2> QED
    BY <1>3, <1>4, <1>6, <1>7, <2>1, WriteToBlockIs
<1>9. PICK b : b = SubSeq(key, 2, n)
  OBVIOUS
<1>10. b \in Seq(Int) /\ Len(b) = n - 1 /\ \A j \in 1 .. Len(b) : b[j] = key[1 + j]
  <2>1. b = SubSeq(key, 1 + 1, n) /\ n <= Len(key)
    BY <1>3, <1>9
  <2>2. b \in Seq(Int) /\ Len(b) = (IF 1 < n THEN n - 1 ELSE 0)
        /\ \A j \in 1 .. Len(b) : b[j] = key[1 + j]
    BY <1>3, <2>1, PieceIs, SMTT(40)
  <2> QED
    BY <1>3, <2>2
<1>11. ManagerRight(r) /\ HasBytes(r, k, key, 1) /\ r.total <= Limit(r.array)
       /\ r.blocks[k].full = s.blocks[k].full
  BY <1>2, <1>8, Zenon DEF Filled
<1>12. Filled(t, s, k, key, n) /\ SoleBlock(t, i, k)
  <2>1. CASE n = 1
    <3>1. b = <<>>
      BY <1>10, <2>1, SMTT(40)
    <3>2. t = r
      BY <1>9, <3>1, Zenon DEF WriteToBlock
    <3> QED
      BY <1>8, <2>1, <3>2
  <2>2. CASE n # 1
    <3>1. ComesNext(r, k, key, 1, b, n)
      <4>3. PICK c \in Nat : c = Len(b)
        BY <1>10
      <4>4. c = n - 1
        BY <1>10, <4>3
      <4>5. PICK y \in Nat : y = n /\ y > 0 /\ y # 1
        BY <1>3, <2>2
      <4>6. c = y - 1
        BY <4>4, <4>5
      <4>7. y = 1 + c /\ c > 0
        <5>4. y # 1 /\ y # 0
          BY <4>5
        <5>1. y > 1
          BY <5>4
        <5>2. y = 1 + c
          BY <4>6
        <5>3. c > 0
          BY <4>6, <5>1
        <5> QED
          BY <5>2, <5>3
      <4>1. n = 1 + Len(b) /\ Len(b) > 0
        BY <4>3, <4>5, <4>7
      <4>2. n <= r.blocks[k].full
        BY <1>4, <1>11
      <4> QED
        BY <1>10, <1>11, <4>1, <4>2 DEF ComesNext
    <3>2. 1 \in Nat /\ t = WriteToBlock(r, i, b)
      BY <1>9
    <3>3. Filled(t, r, k, key, n) /\ SoleBlock(t, i, k)
      BY <1>3, <1>8, <1>10, <1>11, <3>1, <3>2, WriteToBlockIs
    <3>4. 1 \in Nat /\ 1 <= n /\ k \in 1 .. Len(s.blocks)
      BY <1>3, <1>4 DEF SoleBlock
    <3>5. Filled(t, s, k, key, n)
      BY <1>3, <1>4, <1>8, <3>3, <3>4, FilledTwice
    <3> QED
      BY <3>3, <3>5
  <2> QED
    BY <2>1, <2>2
<1>13. /\ s = AddBlock(m, i, n, count) /\ Added(s, m, i, n, count, k)
      /\ Filled(t, s, k, key, n) /\ SoleBlock(t, i, k)
  BY <1>1, <1>2, <1>12
<1> QED
  BY <1>1, <1>13, StillFitsIs

\* What comes of copying the z-th first stream for stream i.
CopiedFor(r, d, z, m, i) == r.bytes = d.firsts[z].key /\ StillFits(d, r.manager, m, i, 0)

\* A reference is copied from the block of its first stream.
LEMMA CopiedIs ==
  ASSUME NEW u, NEW d, DDRight(u, d), NEW q \in 1 .. Len(d.dups), NEW i, i = d.dups[q].stream,
         NEW z, z = d.dups[q].first, NEW m, ManagerHas(d, m, i),
         NEW r, r = CopyData(m, d.firsts[z].index)
  PROVE  CopiedFor(r, d, z, m, i)
<1>1. FirstsRight(d) /\ DupsRight(d) /\ ManagerRight(m) /\ Held(m.array) = m.total
  BY DEF DDRight, ManagerHas
<1>2. i \in Nat /\ z \in 1 .. Len(d.firsts)
  BY <1>1, DupIs
<1>3. d.firsts[z].index < i /\ \A y \in 1 .. Len(d.firsts) : d.firsts[y].index # i
  BY <1>1 DEF DupsRight
<1>4. PICK id \in Nat : id = d.firsts[z].index
  BY <1>1, <1>2, FirstIsOf
<1>5. PICK key \in Seq(Int) : key = d.firsts[z].key
  BY <1>1, <1>2, FirstIsOf
<1>6. /\ Cardinality(Copies(d, z, i)) > 0 /\ Copies(d, z, i) # {}
      /\ Cardinality(Copies(d, z, i + 1)) = Cardinality(Copies(d, z, i)) - 1
  BY <1>1, CopyOf
<1>7. PICK N \in Nat : N = Len(m.blocks)
  BY <1>1 DEF ManagerRight
<1>8. PICK k \in 1 .. N : m.blocks[k].id = id /\ m.blocks[k].count > 0
  BY <1>2, <1>3, <1>4, <1>6, <1>7 DEF ManagerHas
<1>9. HoldsFirst(d, m, k, i) /\ SoleBlock(m, id, k)
  BY <1>7, <1>8 DEF ManagerHas
<1>10. m.blocks[k].count = Cardinality(Copies(d, z, i)) /\ HasBytes(m, k, key, Len(key))
  <2>1. PICK y \in 1 .. Len(d.firsts) :
          /\ d.firsts[y].index = m.blocks[k].id /\ d.firsts[y].index < i
          /\ m.blocks[k].count = Cardinality(Copies(d, y, i))
          /\ HasBytes(m, k, d.firsts[y].key, Len(d.firsts[y].key))
    BY <1>9 DEF HoldsFirst
  <2>2. y = z
    BY <1>1, <1>2, <1>4, <1>8, <2>1, SameFirst
  <2> QED
    BY <1>5, <2>1, <2>2
<1>11. PICK t : t = r.manager
  OBVIOUS
<1>12. r.bytes = key /\ CopiedFrom(t, m, k)
  <2>1. r = CopyData(m, id)
    BY <1>4
  <2> QED
    BY <1>1, <1>9, <1>10, <1>11, <2>1, CopyDataIs
<1>13. /\ ManagerRight(t) /\ t.total = m.total /\ Len(t.blocks) = N
       /\ \A l \in 1 .. N : l # k => t.blocks[l] = m.blocks[l]
       /\ SameBytes(m.array, t.array)
  BY <1>7, <1>12 DEF CopiedFrom
<1>14. /\ t.blocks[k].id = id /\ t.blocks[k].at = m.blocks[k].at
       /\ t.blocks[k].used = m.blocks[k].used
       /\ t.blocks[k].count = m.blocks[k].count - 1
  BY <1>8, <1>12 DEF CopiedFrom
<1>15. Held(t.array) = Held(m.array) /\ Limit(t.array) = Limit(m.array)
       /\ \A p : ByteAt(t.array, p) = ByteAt(m.array, p)
  BY <1>13, SameIs
<1>16. ASSUME NEW l \in 1 .. N, NEW other, NEW v, HasBytes(m, l, other, v)
       PROVE  HasBytes(t, l, other, v)
  <2>1. t.blocks[l].at = m.blocks[l].at /\ t.blocks[l].used = m.blocks[l].used
    BY <1>13, <1>14
  <2> QED
    BY <1>15, <1>16, <2>1 DEF HasBytes
<1>17. t.blocks[k].count = Cardinality(Copies(d, z, i + 1))
  BY <1>6, <1>10, <1>14, SMTT(40)
<1>18. HoldsFirst(d, t, k, i + 1)
  <2>1. d.firsts[z].index < i + 1
    BY <1>2, <1>3, <1>4
  <2>2. HasBytes(t, k, d.firsts[z].key, Len(d.firsts[z].key))
    BY <1>5, <1>10, <1>16
  <2> QED
    BY <1>2, <1>4, <1>14, <1>17, <2>1, <2>2 DEF HoldsFirst
<1>19. ASSUME NEW y \in 1 .. Len(d.firsts), y # z
       PROVE  Copies(d, y, i + 1) = Copies(d, y, i)
  <2>1. \A p \in 1 .. Len(d.dups) : d.dups[p].stream = i => d.dups[p].first # y
    BY <1>1, <1>19, SameDup
  <2> QED
    BY <1>1, <1>2, <2>1, NoCopyOf
<1>20. ASSUME NEW l \in 1 .. N, t.blocks[l].count > 0
       PROVE  m.blocks[l].count > 0 /\ m.blocks[l].id = t.blocks[l].id
  BY <1>8, <1>13, <1>14, <1>20
<1>21. ASSUME NEW l \in 1 .. N, t.blocks[l].count > 0
       PROVE  HoldsFirst(d, t, l, i + 1) /\ SoleBlock(t, t.blocks[l].id, l)
  <2>1. m.blocks[l].count > 0 /\ m.blocks[l].id = t.blocks[l].id
    BY <1>20, <1>21
  <2>2. HoldsFirst(d, m, l, i) /\ SoleBlock(m, m.blocks[l].id, l)
    BY <1>7, <2>1 DEF ManagerHas
  <2>3. SoleBlock(t, t.blocks[l].id, l)
    <3>1. ASSUME NEW p \in 1 .. N, t.blocks[p].id = t.blocks[l].id, t.blocks[p].count > 0
          PROVE  p = l
      BY <1>7, <1>20, <2>1, <2>2, <3>1 DEF SoleBlock
    <3> QED
      BY <1>13, <1>21, <3>1 DEF SoleBlock
  <2>4. CASE l = k
    BY <1>18, <2>3, <2>4
  <2>5. CASE l # k
    <3>1. PICK y \in 1 .. Len(d.firsts) :
            /\ d.firsts[y].index = m.blocks[l].id /\ d.firsts[y].index < i
            /\ m.blocks[l].count = Cardinality(Copies(d, y, i))
            /\ HasBytes(m, l, d.firsts[y].key, Len(d.firsts[y].key))
      BY <2>2 DEF HoldsFirst
    <3>2. y # z
      BY <1>4, <1>7, <1>9, <2>1, <2>5, <3>1 DEF SoleBlock
    <3>3. Copies(d, y, i + 1) = Copies(d, y, i) /\ t.blocks[l] = m.blocks[l]
      BY <1>13, <1>19, <2>5, <3>2
    <3>4. HasBytes(t, l, d.firsts[y].key, Len(d.firsts[y].key))
      BY <1>16, <3>1
    <3>5. d.firsts[y].index < i + 1
      <4>1. d.firsts[y].index \in Nat /\ i \in Nat /\ d.firsts[y].index < i
        BY <1>1, <1>2, <3>1, FirstIsOf, Zenon
      <4>2. \A v, w \in Nat : v < w => v < w + 1
        OBVIOUS
      <4> QED
        BY <4>1, <4>2, Zenon
    <3> QED
      BY <2>3, <3>1, <3>3, <3>4, <3>5 DEF HoldsFirst
  <2> QED
    BY <2>4, <2>5
<1>22. ASSUME NEW y \in 1 .. Len(d.firsts), d.firsts[y].index < i + 1, Copies(d, y, i + 1) # {}
       PROVE  \E l \in 1 .. N : t.blocks[l].id = d.firsts[y].index /\ t.blocks[l].count > 0
  <2>1. d.firsts[y].index < i
    <3>1. d.firsts[y].index \in Nat /\ d.firsts[y].index # i
      BY <1>1, <1>3, FirstIsOf
    <3> QED
      BY <1>2, <1>22, <3>1
  <2>2. CASE y = z
    <3>1. Cardinality(Copies(d, z, i + 1)) \in Nat /\ Cardinality(Copies(d, z, i + 1)) # 0
      BY <1>1, <1>22, <2>2, CopiesFinite, FS_EmptySet
    <3>2. t.blocks[k].count > 0
      BY <1>17, <3>1
    <3> QED
      BY <1>4, <1>14, <2>2, <3>2
  <2>3. CASE y # z
    <3>1. PICK l \in 1 .. N : m.blocks[l].id = d.firsts[y].index /\ m.blocks[l].count > 0
      BY <1>7, <1>19, <1>22, <2>1, <2>3 DEF ManagerHas
    <3>2. l # k
      <4>1. d.firsts[y].index # d.firsts[z].index
        BY <1>1, <1>2, <2>3, SameFirst
      <4> QED
        BY <1>4, <1>8, <3>1, <4>1
    <3> QED
      BY <1>13, <3>1, <3>2
  <2> QED
    BY <2>2, <2>3
<1>23. ManagerHas(d, t, i + 1)
  BY <1>1, <1>13, <1>15, <1>21, <1>22 DEF ManagerHas
<1>24. t.total <= m.total + 0
  <2>1. m.total \in Nat
    BY <1>1 DEF ManagerRight
  <2> QED
    BY <1>13, <2>1
<1>25. RoomsTurn(d, t, m, i)
  <2>1. k \in 1 .. Len(m.blocks) /\ m.blocks[k].id = id /\ m.blocks[k].count > 0
    BY <1>7, <1>8
  <2>2. CopyTaken(t, m, id)
    BY <1>12, <2>1, CopyTakenIs
  <2>3. d.firsts[d.dups[q].first].index = id
    BY <1>4
  <2>4. TakesCopy(d, t, m, q, i)
    BY <2>2, <2>3 DEF TakesCopy
  <2> QED
    BY <2>4 DEF RoomsTurn
<1>26. StillFits(d, t, m, i, 0)
  BY <1>15, <1>23, <1>24, <1>25 DEF StillFits
<1> QED
  BY <1>5, <1>11, <1>12, <1>26, Zenon DEF CopiedFor

-----------------------------------------------------------------------------
(* The memory that the encoder foretells *)

\* The first room that is free and long enough for n bytes.
FreeRoom(f, n) == SelectInSeq(f.rooms, LAMBDA r : r < 0 /\ n <= -r)

\* The simulation for any lists d: a room for the z-th first stream.
TakeRoomOf(d, f, z) ==
  IF d.firsts[z].count = 0 THEN [f EXCEPT !.place = Append(@, 0)]
  ELSE RoomTaken(f, Len(d.firsts[z].key), FreeRoom(f, Len(d.firsts[z].key)))

\* Stream i, if it is the next first one.
FirstTurn(d, f, i) ==
  IF Len(f.place) + 1 <= Len(d.firsts) /\ d.firsts[Len(f.place) + 1].index = i
  THEN TakeRoomOf(d, f, Len(f.place) + 1) ELSE f

\* Stream i, if it is the next copy.
CopyTurn(d, g, i) ==
  IF g.dups <= Len(d.dups) /\ d.dups[g.dups].stream = i
  THEN Copied(g, d.dups[g.dups].first) ELSE g

\* Stream i, whichever it is.
ForeseeOf(d, f, i) == CopyTurn(d, FirstTurn(d, f, i), i)

\* As many copies of each first stream are left from stream i on.
LeftOf(d, i) == [z \in 1 .. Len(d.firsts) |-> Cardinality(Copies(d, z, i))]

\* What the simulation keeps.
FState(rooms, place, memory, dups, left) ==
  [rooms |-> rooms, place |-> place, memory |-> memory, dups |-> dups, left |-> left]

\* In front of the first stream.
NoneForeseenOf(d) == FState(<<>>, <<>>, 0, 1, LeftOf(d, 0))

\* In front of each stream.
ForeseenOf(d) ==
  LET before[i \in 0 .. d.streams] ==
        IF i = 0 THEN NoneForeseenOf(d) ELSE ForeseeOf(d, before[i - 1], i - 1)
  IN before

\* The code's simulation is that for the lists of the encoder.
LEMMA ForeseeIs ==
  ASSUME NEW f, NEW i
  PROVE  Foresee(f, i) = ForeseeOf(dd, f, i)
<1>1. ASSUME NEW z PROVE TakeRoom(f, z) = TakeRoomOf(dd, f, z)
  BY DEF TakeRoom, TakeRoomOf, FreeRoom, SelectInSeq
<1> QED
  BY <1>1 DEF Foresee, ForeseeOf, FirstTurn, CopyTurn

\* So is its beginning.
LEMMA NoneForeseenIs ==
  ASSUME FirstsRight(dd)
  PROVE  NoneForeseen = NoneForeseenOf(dd)
<1>1. DOMAIN dd.firsts = 1 .. Len(dd.firsts)
  BY DEF FirstsRight
<1>2. \A z \in 1 .. Len(dd.firsts) : dd.firsts[z].count = Cardinality(Copies(dd, z, 0))
  BY DEF FirstsRight
<1>3. [z \in DOMAIN dd.firsts |-> dd.firsts[z].count] = LeftOf(dd, 0)
  BY <1>1, <1>2 DEF LeftOf
<1> QED
  BY <1>3 DEF NoneForeseen, NoneForeseenOf, FState

\* One stream after the other is foreseen.
LEMMA ForeseenOfIs ==
  ASSUME NEW d, d.streams \in Nat
  PROVE  /\ ForeseenOf(d)[0] = NoneForeseenOf(d)
         /\ \A i \in 1..d.streams : ForeseenOf(d)[i] = ForeseeOf(d, ForeseenOf(d)[i - 1], i - 1)
<1> DEFINE Solves(g, k) ==
             g = [i \in 0..k |-> IF i = 0 THEN NoneForeseenOf(d) ELSE ForeseeOf(d, g[i - 1], i - 1)]
           None == {k \in Nat : ~\E g : Solves(g, k)}
<1>1. None = {}
  <2> SUFFICES ASSUME None # {} PROVE FALSE
    OBVIOUS
  <2>1. PICK k \in None : \A m \in None : k <= m
    BY LeastNumber
  <2>2. k # 0
    <3>1. Solves([i \in 0..0 |-> NoneForeseenOf(d)], 0)
      OBVIOUS
    <3> HIDE DEF Solves
    <3> QED
      BY <3>1, <2>1
  <2>3. k - 1 \in Nat /\ ~(k <= k - 1)
    BY <2>1, <2>2
  <2>4. PICK g : Solves(g, k - 1)
    BY <2>1, <2>3
  <2> DEFINE h == [i \in 0..k |-> IF i = k THEN ForeseeOf(d, g[k - 1], k - 1) ELSE g[i]]
  <2>5. Solves(h, k)
    <3>1. \A i \in 0..(k - 1) : h[i] = g[i] /\ i \in 0..k
      BY <2>3
    <3>2. ASSUME NEW i \in 0..k
          PROVE  h[i] = IF i = 0 THEN NoneForeseenOf(d) ELSE ForeseeOf(d, h[i - 1], i - 1)
      <4>1. CASE i = k
        BY <4>1, <3>1, <2>2, <2>3
      <4>2. CASE i # k
        <5>1. i \in 0..(k - 1) /\ (i # 0 => i - 1 \in 0..(k - 1))
          BY <4>2, <2>3
        <5>2. g[i] = IF i = 0 THEN NoneForeseenOf(d) ELSE ForeseeOf(d, g[i - 1], i - 1)
          BY <5>1, <2>4
        <5> HIDE DEF h
        <5> QED
          BY <5>1, <5>2, <3>1
      <4> QED
        BY <4>1, <4>2
    <3>3. h = [i \in 0..k |-> h[i]]
      OBVIOUS
    <3> HIDE DEF h
    <3> QED
      BY <3>2, <3>3
  <2> HIDE DEF h, Solves
  <2> QED
    BY <2>5, <2>1
<1>2. PICK g : Solves(g, d.streams)
  BY <1>1
<1> DEFINE e == ForeseenOf(d)
<1>3. Solves(e, d.streams)
  BY <1>2 DEF ForeseenOf
<1> HIDE DEF e
<1>4. e[0] = NoneForeseenOf(d) /\ \A i \in 1..d.streams : e[i] = ForeseeOf(d, e[i - 1], i - 1)
  <2>1. \A i \in 1..d.streams : i \in 0..d.streams /\ i # 0
    OBVIOUS
  <2>2. 0 \in 0..d.streams
    OBVIOUS
  <2> QED
    BY <1>3, <2>1, <2>2
<1> QED
  BY <1>4 DEF e

\* Foreseen is what has been foreseen in the end.
LEMMA ForeseenIs ==
  ASSUME FirstsRight(dd)
  PROVE  Foreseen = ForeseenOf(dd)[dd.streams]
<1>1. \A f, i : Foresee(f, i) = ForeseeOf(dd, f, i)
  BY ForeseeIs
<1>2. NoneForeseen = NoneForeseenOf(dd)
  BY NoneForeseenIs
<1> QED
  BY <1>1, <1>2 DEF Foreseen, ForeseenOf

\* A record of the simulation with other fields.
OtherPlace(f, p) == [f EXCEPT !.place = p]
RoomAndPlace(f, r, p) == [f EXCEPT !.rooms = r, !.place = p]
RoomPlaceMemory(f, r, p, m) == [f EXCEPT !.rooms = r, !.place = p, !.memory = m]
LeftRoomDups(f, l, r, x) == [f EXCEPT !.left = l, !.rooms = r, !.dups = x]

\* What a record of the simulation has in its fields.
LEMMA FieldsIs ==
  ASSUME NEW R, NEW P, NEW M, NEW q, NEW L, NEW f, f = FState(R, P, M, q, L)
  PROVE  f.rooms = R /\ f.place = P /\ f.memory = M /\ f.dups = q /\ f.left = L
BY DEF FState

\* A record with another place is one.
LEMMA OtherPlaceIs ==
  ASSUME NEW R, NEW P, NEW M, NEW q, NEW L, NEW p
  PROVE  OtherPlace(FState(R, P, M, q, L), p) = FState(R, p, M, q, L)
<1>1. PICK f : f = [rooms |-> R, place |-> P, memory |-> M, dups |-> q, left |-> L]
  OBVIOUS
<1>2. PICK t : t = OtherPlace(f, p)
  OBVIOUS
<1>3. t = [rooms |-> R, place |-> p, memory |-> M, dups |-> q, left |-> L]
  BY <1>1, <1>2 DEF OtherPlace
<1> QED
  BY <1>1, <1>2, <1>3, Zenon DEF FState

\* One with another room and place.
LEMMA RoomAndPlaceIs ==
  ASSUME NEW R, NEW P, NEW M, NEW q, NEW L, NEW r, NEW p
  PROVE  RoomAndPlace(FState(R, P, M, q, L), r, p) = FState(r, p, M, q, L)
<1>1. PICK f : f = [rooms |-> R, place |-> P, memory |-> M, dups |-> q, left |-> L]
  OBVIOUS
<1>2. PICK t : t = RoomAndPlace(f, r, p)
  OBVIOUS
<1>3. t = [rooms |-> r, place |-> p, memory |-> M, dups |-> q, left |-> L]
  BY <1>1, <1>2 DEF RoomAndPlace
<1> QED
  BY <1>1, <1>2, <1>3, Zenon DEF FState

\* One with another room and place and more memory.
LEMMA RoomPlaceMemoryIs ==
  ASSUME NEW R, NEW P, NEW M, NEW q, NEW L, NEW r, NEW p, NEW m
  PROVE  RoomPlaceMemory(FState(R, P, M, q, L), r, p, m) = FState(r, p, m, q, L)
<1>1. PICK f : f = [rooms |-> R, place |-> P, memory |-> M, dups |-> q, left |-> L]
  OBVIOUS
<1>2. PICK t : t = RoomPlaceMemory(f, r, p, m)
  OBVIOUS
<1>3. t = [rooms |-> r, place |-> p, memory |-> m, dups |-> q, left |-> L]
  BY <1>1, <1>2 DEF RoomPlaceMemory
<1> QED
  BY <1>1, <1>2, <1>3, Zenon DEF FState

\* One with fewer copies left, another room and the next reference.
LEMMA LeftRoomDupsIs ==
  ASSUME NEW R, NEW P, NEW M, NEW q, NEW L, NEW l, NEW r, NEW x
  PROVE  LeftRoomDups(FState(R, P, M, q, L), l, r, x) = FState(r, P, M, x, l)
<1>1. PICK f : f = [rooms |-> R, place |-> P, memory |-> M, dups |-> q, left |-> L]
  OBVIOUS
<1>2. PICK t : t = LeftRoomDups(f, l, r, x)
  OBVIOUS
<1>3. t = [rooms |-> r, place |-> P, memory |-> M, dups |-> x, left |-> l]
  BY <1>1, <1>2 DEF LeftRoomDups
<1> QED
  BY <1>1, <1>2, <1>3, Zenon DEF FState

\* The fields that change when a stream gets no room, one that is free, or a
\* new one.
LEMMA NoRoomIs ==
  ASSUME NEW R, NEW P, NEW M, NEW q, NEW L, NEW f, f = FState(R, P, M, q, L)
  PROVE  [f EXCEPT !.place = Append(@, 0)] = FState(R, Append(P, 0), M, q, L)
<1>1. f.place = P
  BY FieldsIs
<1>2. PICK p : p = Append(P, 0)
  OBVIOUS
<1>3. [f EXCEPT !.place = Append(@, 0)] = OtherPlace(f, p)
  BY <1>1, <1>2 DEF OtherPlace
<1>4. OtherPlace(f, p) = FState(R, p, M, q, L)
  BY OtherPlaceIs
<1> QED
  BY <1>2, <1>3, <1>4, Zenon

\* Room k, not free any more.
InUse(R, k) == [R EXCEPT ![k] = -@]

\* A room that is free is used again.
LEMMA RoomUsed ==
  ASSUME NEW R, NEW P, NEW M, NEW q, NEW L, NEW f, f = FState(R, P, M, q, L),
         NEW n, NEW k, k > 0
  PROVE  RoomTaken(f, n, k) = FState(InUse(R, k), Append(P, k), M, q, L)
<1>1. f.rooms = R /\ f.place = P
  BY FieldsIs
<1>2. PICK p, r : p = Append(P, k) /\ r = InUse(R, k)
  OBVIOUS
<1>3. RoomTaken(f, n, k) = RoomAndPlace(f, r, p)
  BY <1>1, <1>2 DEF RoomTaken, RoomAndPlace, InUse
<1>4. RoomAndPlace(f, r, p) = FState(r, p, M, q, L)
  BY RoomAndPlaceIs
<1> QED
  BY <1>2, <1>3, <1>4, Zenon

\* A room is made at the end.
LEMMA RoomNew ==
  ASSUME NEW R, NEW P, NEW M, NEW q, NEW L, NEW f, f = FState(R, P, M, q, L),
         NEW n, NEW k, ~(k > 0)
  PROVE  RoomTaken(f, n, k) = FState(Append(R, n), Append(P, Len(R) + 1), M + n, q, L)
<1>1. f.rooms = R /\ f.place = P /\ f.memory = M
  BY FieldsIs
<1>2. PICK p, r, m : p = Append(P, Len(R) + 1) /\ r = Append(R, n) /\ m = M + n
  OBVIOUS
<1>3. RoomTaken(f, n, k) = RoomPlaceMemory(f, r, p, m)
  BY <1>1, <1>2 DEF RoomTaken, RoomPlaceMemory
<1>4. RoomPlaceMemory(f, r, p, m) = FState(r, p, m, q, L)
  BY RoomPlaceMemoryIs
<1> QED
  BY <1>2, <1>3, <1>4, Zenon

\* Room k, free if e copies are left and e is 0.
FreeIfLast(R, k, e) == [R EXCEPT ![k] = IF e = 0 THEN -@ ELSE @]
\* The z-th number is e.
Lowered(L, z, e) == [L EXCEPT ![z] = e]

\* A copy of the z-th first stream, which has room k and is copied e times more.
LEMMA CopiedWith ==
  ASSUME NEW R, NEW P, NEW M, NEW q, NEW L, NEW f, f = FState(R, P, M, q, L), NEW z, NEW k,
         k = P[z], NEW e, e = L[z] - 1
  PROVE  Copied(f, z) = FState(FreeIfLast(R, k, e), P, M, q + 1, Lowered(L, z, e))
<1>1. f.rooms = R /\ f.place = P /\ f.dups = q /\ f.left = L
  BY FieldsIs
<1>2. PICK r, l, x : r = FreeIfLast(R, k, e) /\ l = Lowered(L, z, e) /\ x = q + 1
  OBVIOUS
<1>3. Copied(f, z) = LeftRoomDups(f, l, r, x)
  BY <1>1, <1>2 DEF Copied, LeftRoomDups, FreeIfLast, Lowered
<1>4. LeftRoomDups(f, l, r, x) = FState(r, P, M, x, l)
  BY LeftRoomDupsIs
<1> QED
  BY <1>2, <1>3, <1>4, Zenon

\* The rooms are those of the blocks, a free one being negative.
RoomsMatch(R, m) ==
  /\ R \in Seq(Int) /\ Len(R) = Len(m.blocks)
  /\ \A k \in 1 .. Len(m.blocks) :
       R[k] = IF m.blocks[k].count > 0 THEN m.blocks[k].full ELSE -m.blocks[k].full

\* If the z-th first stream is copied from stream i on, room v is that of its block.
LivesAt(d, v, m, z, i) ==
  Copies(d, z, i) # {} =>
    /\ v \in 1 .. Len(m.blocks) /\ m.blocks[v].id = d.firsts[z].index
    /\ m.blocks[v].count > 0

\* A place is known for each first stream before stream i.
PlacesMatch(d, P, m, i) ==
  /\ P \in Seq(Nat) /\ Len(P) <= Len(d.firsts)
  /\ \A z \in 1 .. Len(d.firsts) : z <= Len(P) <=> d.firsts[z].index < i
  /\ \A z \in 1 .. Len(P) : LivesAt(d, P[z], m, z, i)

\* q is the first reference that is no earlier than stream i.
DupsMatch(d, q, i) ==
  /\ q \in Nat /\ q > 0
  /\ \A p \in 1 .. Len(d.dups) : p < q <=> d.dups[p].stream < i

\* What has been foreseen in front of stream i agrees with the manager.
Matches(d, f, m, i) ==
  \E R, P, q : /\ f = FState(R, P, m.total, q, LeftOf(d, i))
               /\ RoomsMatch(R, m) /\ PlacesMatch(d, P, m, i) /\ DupsMatch(d, q, i)

\* The room that is foreseen is the block that is taken.
LEMMA FreeRoomIs ==
  ASSUME NEW m, ManagerRight(m), NEW f, RoomsMatch(f.rooms, m), NEW n \in Nat, n > 0
  PROVE  FreeRoom(f, n) = FreeBlock(m, n)
<1> DEFINE I == {l \in 1 .. Len(m.blocks) : m.blocks[l].count <= 0 /\ n <= m.blocks[l].full}
           J == {l \in 1 .. Len(f.rooms) : f.rooms[l] < 0 /\ n <= -f.rooms[l]}
<1>1. FreeBlock(m, n) = IF I # {} THEN Min(I) ELSE 0
  BY DEF FreeBlock, FirstBlock, SelectInSeq
<1>2. FreeRoom(f, n) = IF J # {} THEN Min(J) ELSE 0
  BY DEF FreeRoom, SelectInSeq
<1>3. ASSUME NEW l \in 1 .. Len(m.blocks)
      PROVE  m.blocks[l].count <= 0 /\ n <= m.blocks[l].full <=>
               f.rooms[l] < 0 /\ n <= -f.rooms[l]
  <2>1. PICK c \in Nat, x \in Nat : c = m.blocks[l].count /\ x = m.blocks[l].full
    BY BlockIs
  <2>2. PICK r : r = f.rooms[l]
    OBVIOUS
  <2>3. r = IF c > 0 THEN x ELSE -x
    BY <2>1, <2>2 DEF RoomsMatch
  <2>4. c <= 0 /\ n <= x <=> r < 0 /\ n <= -r
    BY <2>3
  <2> QED
    BY <2>1, <2>2, <2>4
<1>4. Len(f.rooms) = Len(m.blocks)
  BY DEF RoomsMatch
<1>5. I = J
  BY <1>3, <1>4
<1> QED
  BY <1>1, <1>2, <1>5

\* The next reference is found if and only if it is stream i.
LEMMA NoDupTurn ==
  ASSUME NEW d, DupsRight(d), NEW i \in Nat, NEW q, DupsMatch(d, q, i),
         \A p \in 1 .. Len(d.dups) : d.dups[p].stream # i
  PROVE  DupsMatch(d, q, i + 1) /\ ~(q <= Len(d.dups) /\ d.dups[q].stream = i)
<1>1. ASSUME NEW p \in 1 .. Len(d.dups) PROVE p < q <=> d.dups[p].stream < i + 1
  <2>1. PICK s \in Nat : s = d.dups[p].stream
    BY DupIs
  <2>2. s # i /\ (p < q <=> s < i)
    BY <2>1 DEF DupsMatch
  <2> QED
    BY <2>1, <2>2
<1>2. q \in Nat /\ q > 0
  BY DEF DupsMatch
<1>3. Len(d.dups) \in Nat
  BY DEF DupsRight
<1>4. q <= Len(d.dups) => q \in 1 .. Len(d.dups)
  BY <1>2, <1>3
<1> QED
  BY <1>1, <1>2, <1>4 DEF DupsMatch

\* A copy is the next one on the list.
LEMMA DupTurn ==
  ASSUME NEW d, DupsRight(d), NEW p \in 1 .. Len(d.dups), NEW i, i = d.dups[p].stream,
         NEW q, DupsMatch(d, q, i)
  PROVE  q = p /\ DupsMatch(d, q + 1, i + 1)
<1>1. i \in Nat
  BY DupIs
<1>2. q \in Nat /\ q > 0
  BY DEF DupsMatch
<1>3. PICK N \in Nat : N = Len(d.dups)
  BY DEF DupsRight
<1>4. q <= p
  <2>1. ~(p < q)
    BY <1>1 DEF DupsMatch
  <2> QED
    BY <1>2, <2>1
<1>5. q = p
  <2>1. SUFFICES ASSUME q < p PROVE FALSE
    BY <1>2, <1>4
  <2>2. q \in 1 .. Len(d.dups)
    BY <1>2, <1>3, <2>1
  <2>3. d.dups[q].stream < i
    BY <2>1, <2>2 DEF DupsRight
  <2>4. q < q
    BY <2>2, <2>3 DEF DupsMatch
  <2> QED
    BY <1>2, <2>4
<1>6. ASSUME NEW x \in 1 .. Len(d.dups) PROVE x < q + 1 <=> d.dups[x].stream < i + 1
  <2>1. PICK s \in Nat : s = d.dups[x].stream
    BY DupIs
  <2>2. x < p => s < i
    BY <2>1 DEF DupsRight
  <2>3. p < x => i < s
    BY <2>1 DEF DupsRight
  <2>4. x = p => s = i
    BY <2>1
  <2>5. x < p + 1 <=> s < i + 1
    BY <1>1, <2>2, <2>3, <2>4
  <2> QED
    BY <1>5, <2>1, <2>5
<1>7. q + 1 \in Nat /\ q + 1 > 0
  BY <1>2
<1> QED
  BY <1>5, <1>6, <1>7 DEF DupsMatch

\* The next first stream is found if and only if it is stream i.
LEMMA NextFirst ==
  ASSUME NEW d, FirstsRight(d), NEW i \in Nat, NEW P, NEW m, PlacesMatch(d, P, m, i),
         NEW z \in 1 .. Len(d.firsts), d.firsts[z].index = i
  PROVE  z = Len(P) + 1
<1>1. PICK L \in Nat : L = Len(P)
  BY DEF PlacesMatch
<1>2. PICK N \in Nat : N = Len(d.firsts)
  BY DEF FirstsRight
<1>3. ~(z <= L)
  BY <1>1 DEF PlacesMatch
<1>4. SUFFICES ASSUME z > L + 1 PROVE FALSE
  BY <1>1, <1>3
<1>5. L + 1 \in 1 .. N /\ L + 1 < z
  BY <1>2, <1>4
<1>6. d.firsts[L + 1].index < i
  BY <1>2, <1>5 DEF FirstsRight
<1>7. L + 1 <= L
  BY <1>1, <1>2, <1>5, <1>6 DEF PlacesMatch
<1> QED
  BY <1>7

\* The place of stream i comes behind those that are known.
LEMMA PlacesMore ==
  ASSUME NEW d, FirstsRight(d), NEW i \in Nat, NEW P, NEW m, PlacesMatch(d, P, m, i),
         NEW z \in 1 .. Len(d.firsts), d.firsts[z].index = i, NEW v \in Nat, NEW t,
         \A y \in 1 .. Len(P) : LivesAt(d, P[y], t, y, i + 1),
         LivesAt(d, v, t, z, i + 1)
  PROVE  PlacesMatch(d, Append(P, v), t, i + 1)
<1>1. PICK L \in Nat : L = Len(P)
  BY DEF PlacesMatch
<1>2. PICK N \in Nat : N = Len(d.firsts)
  BY DEF FirstsRight
<1>3. z = L + 1
  BY <1>1, NextFirst
<1>4. PICK Q : Q = Append(P, v)
  OBVIOUS
<1>5. Q \in Seq(Nat) /\ Len(Q) = L + 1 /\ Q[L + 1] = v /\ \A y \in 1 .. L : Q[y] = P[y]
  <2>1. P \in Seq(Nat)
    BY DEF PlacesMatch
  <2> QED
    BY <1>1, <1>4, <2>1
<1>6. ASSUME NEW y \in 1 .. N PROVE y <= L + 1 <=> d.firsts[y].index < i + 1
  <2>1. PICK s \in Nat : s = d.firsts[y].index
    BY <1>2, FirstIsOf
  <2>2. y <= L <=> s < i
    BY <1>1, <1>2, <2>1 DEF PlacesMatch
  <2>3. s = i <=> y = z
    BY <1>2, <2>1, SameFirst
  <2> QED
    BY <1>3, <2>1, <2>2, <2>3
<1>7. ASSUME NEW y \in 1 .. L + 1 PROVE LivesAt(d, Q[y], t, y, i + 1)
  <2>1. CASE y = L + 1
    BY <1>3, <1>5, <2>1
  <2>2. CASE y # L + 1
    <3>1. y \in 1 .. L
      BY <2>2
    <3> QED
      BY <1>1, <1>5, <3>1
  <2> QED
    BY <2>1, <2>2
<1>8. L + 1 <= N
  BY <1>2, <1>3
<1> QED
  BY <1>2, <1>4, <1>5, <1>6, <1>7, <1>8 DEF PlacesMatch

\* No place more is known if stream i is no first one.
LEMMA PlacesStay ==
  ASSUME NEW d, FirstsRight(d), NEW i \in Nat, NEW P, NEW m, PlacesMatch(d, P, m, i),
         \A z \in 1 .. Len(d.firsts) : d.firsts[z].index # i, NEW t,
         \A y \in 1 .. Len(P) : LivesAt(d, P[y], t, y, i + 1)
  PROVE  PlacesMatch(d, P, t, i + 1)
<1>1. ASSUME NEW y \in 1 .. Len(d.firsts) PROVE y <= Len(P) <=> d.firsts[y].index < i + 1
  <2>1. PICK s \in Nat : s = d.firsts[y].index
    BY FirstIsOf
  <2>2. y <= Len(P) <=> s < i
    BY <2>1 DEF PlacesMatch
  <2>3. s # i
    BY <2>1
  <2>4. s < i <=> s < i + 1
    BY <2>3
  <2> QED
    BY <2>1, <2>2, <2>4
<1> QED
  BY <1>1 DEF PlacesMatch

\* What the simulation does with a stream that is no first one, or one.
LEMMA NoFirstTurn ==
  ASSUME NEW d, FirstsRight(d), NEW i \in Nat, NEW P, NEW m, PlacesMatch(d, P, m, i), NEW f,
         f.place = P, \A z \in 1 .. Len(d.firsts) : d.firsts[z].index # i
  PROVE  FirstTurn(d, f, i) = f
<1>1. PICK L \in Nat : L = Len(P)
  BY DEF PlacesMatch
<1>2. PICK N \in Nat : N = Len(d.firsts)
  BY DEF FirstsRight
<1>3. L + 1 <= N => L + 1 \in 1 .. N
  OBVIOUS
<1>4. ~(L + 1 <= N /\ d.firsts[L + 1].index = i)
  BY <1>2, <1>3
<1> QED
  BY <1>1, <1>2, <1>4 DEF FirstTurn

\* The z-th first stream gets its room in its turn.
LEMMA OneFirstTurn ==
  ASSUME NEW d, FirstsRight(d), NEW i \in Nat, NEW P, NEW m, PlacesMatch(d, P, m, i), NEW f,
         f.place = P, NEW z \in 1 .. Len(d.firsts), d.firsts[z].index = i
  PROVE  FirstTurn(d, f, i) = TakeRoomOf(d, f, z)
<1>1. z = Len(P) + 1
  BY NextFirst
<1>2. z <= Len(d.firsts)
  BY DEF FirstsRight
<1> QED
  BY <1>1, <1>2, Zenon DEF FirstTurn

\* No copy is made of a stream that does not come again.
LEMMA NoCopies ==
  ASSUME NEW d, FirstsRight(d), DupsRight(d), NEW z \in 1 .. Len(d.firsts),
         ~(d.firsts[z].count > 0)
  PROVE  Copies(d, z, d.firsts[z].index + 1) = {}
<1>1. d.firsts[z].count \in Nat /\ d.firsts[z].count = Cardinality(Copies(d, z, 0))
  BY FirstIsOf DEF FirstsRight
<1>2. Cardinality(Copies(d, z, 0)) = 0
  BY <1>1
<1>3. Copies(d, z, 0) = {}
  BY <1>2, CopiesFinite, FS_EmptySet
<1> QED
  BY <1>3, CopiesBehind

\* Stream i is neither kept nor a copy.
LEMMA IdleForetold ==
  ASSUME NEW u, NEW d, DDRight(u, d), NEW i \in Nat, NEW m, NEW f, Matches(d, f, m, i),
         \A q \in 1 .. Len(d.dups) : d.dups[q].stream # i,
         \A z \in 1 .. Len(d.firsts) : d.firsts[z].index = i => ~(d.firsts[z].count > 0)
  PROVE  Matches(d, ForeseeOf(d, f, i), m, i + 1)
<1>1. FirstsRight(d) /\ DupsRight(d)
  BY DEF DDRight
<1>2. PICK R, P, q :
        /\ f = FState(R, P, m.total, q, LeftOf(d, i))
        /\ RoomsMatch(R, m) /\ PlacesMatch(d, P, m, i) /\ DupsMatch(d, q, i)
  BY DEF Matches
<1>3. PICK M, L : M = m.total /\ L = LeftOf(d, i)
  OBVIOUS
<1>4. f = FState(R, P, M, q, L)
  BY <1>2, <1>3
<1>5. f.place = P
  BY <1>4, FieldsIs
<1>6. \A z : Copies(d, z, i + 1) = Copies(d, z, i)
  BY <1>1, NoCopyOf
<1>7. LeftOf(d, i + 1) = L
  BY <1>3, <1>6 DEF LeftOf
<1>8. DupsMatch(d, q, i + 1) /\ ~(q <= Len(d.dups) /\ d.dups[q].stream = i)
  BY <1>1, <1>2, NoDupTurn
<1>9. ASSUME NEW Q PROVE CopyTurn(d, FState(R, Q, M, q, L), i) = FState(R, Q, M, q, L)
  <2>1. PICK g : g = FState(R, Q, M, q, L)
    OBVIOUS
  <2>2. g.dups = q
    BY <2>1, FieldsIs
  <2>3. CopyTurn(d, g, i) = g
    BY <1>8, <2>2 DEF CopyTurn
  <2> QED
    BY <2>1, <2>3
<1>10. \A y \in 1 .. Len(P) : LivesAt(d, P[y], m, y, i + 1)
  BY <1>2, <1>6 DEF PlacesMatch, LivesAt
<1>11. ASSUME NEW Q, ForeseeOf(d, f, i) = FState(R, Q, M, q, L), PlacesMatch(d, Q, m, i + 1)
       PROVE  Matches(d, ForeseeOf(d, f, i), m, i + 1)
  BY <1>2, <1>3, <1>7, <1>8, <1>11, Zenon DEF Matches
<1>12. CASE \E z \in 1 .. Len(d.firsts) : d.firsts[z].index = i
  <2>1. PICK z \in 1 .. Len(d.firsts) : d.firsts[z].index = i
    BY <1>12
  <2>2. d.firsts[z].count = 0
    BY <1>1, <2>1, FirstIsOf
  <2>3. FirstTurn(d, f, i) = TakeRoomOf(d, f, z)
    BY <1>1, <1>2, <1>5, <2>1, OneFirstTurn
  <2>4. FirstTurn(d, f, i) = FState(R, Append(P, 0), M, q, L)
    <3>1. TakeRoomOf(d, f, z) = [f EXCEPT !.place = Append(@, 0)]
      BY <2>2, Zenon DEF TakeRoomOf
    <3>2. [f EXCEPT !.place = Append(@, 0)] = FState(R, Append(P, 0), M, q, L)
      BY <1>4, NoRoomIs
    <3> QED
      BY <2>3, <3>1, <3>2, Zenon
  <2>5. ForeseeOf(d, f, i) = FState(R, Append(P, 0), M, q, L)
    BY <1>9, <2>4, Zenon DEF ForeseeOf
  <2>6. LivesAt(d, 0, m, z, i + 1)
    <3>1. Copies(d, z, i + 1) = {}
      BY <1>1, <2>1, <2>2, NoCopies
    <3> QED
      BY <3>1 DEF LivesAt
  <2>7. PlacesMatch(d, Append(P, 0), m, i + 1)
    <3>1. 0 \in Nat
      OBVIOUS
    <3> QED
      BY <1>1, <1>2, <1>10, <2>1, <2>6, <3>1, PlacesMore
  <2> QED
    BY <1>11, <2>5, <2>7
<1>13. CASE \A z \in 1 .. Len(d.firsts) : d.firsts[z].index # i
  <2>1. FirstTurn(d, f, i) = f
    BY <1>1, <1>2, <1>5, <1>13, NoFirstTurn
  <2>2. ForeseeOf(d, f, i) = FState(R, P, M, q, L)
    BY <1>4, <1>9, <2>1, Zenon DEF ForeseeOf
  <2>3. PlacesMatch(d, P, m, i + 1)
    BY <1>1, <1>2, <1>10, <1>13, PlacesStay
  <2> QED
    BY <1>11, <2>2, <2>3
<1> QED
  BY <1>12, <1>13

\* A block that has been used again, and the rooms.
LEMMA RoomReused ==
  ASSUME NEW m, ManagerRight(m), NEW R, RoomsMatch(R, m), NEW t, NEW id, NEW k,
         ReusesRoom(t, m, id, k), m.blocks[k].count <= 0
  PROVE  RoomsMatch(InUse(R, k), t)
<1>1. PICK N \in Nat : N = Len(m.blocks)
  BY DEF ManagerRight
<1>2. k \in 1 .. N /\ Len(t.blocks) = N
  BY <1>1 DEF ReusesRoom
<1>3. PICK x \in Nat : x = m.blocks[k].full
  BY <1>1, <1>2, BlockIs
<1>4. R \in Seq(Int) /\ Len(R) = N
  BY <1>1 DEF RoomsMatch
<1>5. R[k] = -x
  <2>1. m.blocks[k].count \in Nat
    BY <1>1, <1>2, BlockIs
  <2>2. ~(m.blocks[k].count > 0)
    BY <2>1
  <2> QED
    BY <1>1, <1>2, <1>3, <2>2 DEF RoomsMatch
<1>6. PICK S : S = InUse(R, k)
  OBVIOUS
<1>7. S = [R EXCEPT ![k] = x]
  <2>1. -R[k] = x
    BY <1>5
  <2> QED
    BY <1>6, <2>1 DEF InUse
<1>8. S \in Seq(Int) /\ Len(S) = N /\ \A l \in 1 .. N : S[l] = IF l = k THEN x ELSE R[l]
  <2>1. x \in Int
    OBVIOUS
  <2> QED
    BY <1>2, <1>4, <1>7, <2>1, ExceptSeq
<1>9. ASSUME NEW l \in 1 .. N
      PROVE  S[l] = IF t.blocks[l].count > 0 THEN t.blocks[l].full ELSE -t.blocks[l].full
  <2>1. CASE l = k
    <3>1. t.blocks[k].count > 0 /\ t.blocks[k].full = x
      BY <1>3 DEF ReusesRoom
    <3> QED
      BY <1>8, <2>1, <3>1
  <2>2. CASE l # k
    <3>1. t.blocks[l].count = m.blocks[l].count /\ t.blocks[l].full = m.blocks[l].full
      BY <1>1, <2>2 DEF ReusesRoom, SameRoom
    <3> QED
      BY <1>1, <1>8, <2>2, <3>1 DEF RoomsMatch
  <2> QED
    BY <2>1, <2>2
<1> QED
  BY <1>2, <1>6, <1>8, <1>9 DEF RoomsMatch

\* A block more, and the rooms.
LEMMA RoomAdded ==
  ASSUME NEW m, ManagerRight(m), NEW R, RoomsMatch(R, m), NEW t, NEW id, NEW n \in Nat,
         AddsRoom(t, m, id, n)
  PROVE  RoomsMatch(Append(R, n), t)
<1>1. PICK N \in Nat : N = Len(m.blocks)
  BY DEF ManagerRight
<1>2. R \in Seq(Int) /\ Len(R) = N
  BY <1>1 DEF RoomsMatch
<1>3. PICK k \in Nat :
        /\ k = N + 1 /\ Len(t.blocks) = k /\ t.blocks[k].full = n /\ t.blocks[k].count > 0
        /\ \A l \in 1 .. N : SameRoom(t, m, l)
  BY <1>1 DEF AddsRoom
<1>4. PICK S : S = Append(R, n)
  OBVIOUS
<1>5. S \in Seq(Int) /\ Len(S) = k /\ S[k] = n /\ \A l \in 1 .. N : S[l] = R[l]
  BY <1>2, <1>3, <1>4
<1>6. ASSUME NEW l \in 1 .. k
      PROVE  S[l] = IF t.blocks[l].count > 0 THEN t.blocks[l].full ELSE -t.blocks[l].full
  <2>1. CASE l = k
    BY <1>3, <1>5, <2>1
  <2>2. CASE l # k
    <3>1. l \in 1 .. N
      BY <1>3, <2>2
    <3>2. t.blocks[l].count = m.blocks[l].count /\ t.blocks[l].full = m.blocks[l].full
      BY <1>3, <3>1 DEF SameRoom
    <3> QED
      BY <1>1, <1>5, <3>1, <3>2 DEF RoomsMatch
  <2> QED
    BY <2>1, <2>2
<1> QED
  BY <1>3, <1>4, <1>5, <1>6 DEF RoomsMatch

\* Stream i, the z-th first one, is kept.
LEMMA KeptForetold ==
  ASSUME NEW u, NEW d, DDRight(u, d), NEW i \in Nat, NEW m, ManagerHas(d, m, i), NEW f,
         Matches(d, f, m, i), NEW t, NEW z \in 1 .. Len(d.firsts), GivesRoom(d, t, m, z, i)
  PROVE  Matches(d, ForeseeOf(d, f, i), t, i + 1)
<1>1. FirstsRight(d) /\ DupsRight(d) /\ ManagerRight(m)
  BY DEF DDRight, ManagerHas
<1>2. PICK R, P, q :
        /\ f = FState(R, P, m.total, q, LeftOf(d, i))
        /\ RoomsMatch(R, m) /\ PlacesMatch(d, P, m, i) /\ DupsMatch(d, q, i)
  BY DEF Matches
<1>3. PICK M, L : M = m.total /\ L = LeftOf(d, i)
  OBVIOUS
<1>4. f = FState(R, P, M, q, L)
  BY <1>2, <1>3
<1>5. f.place = P /\ f.rooms = R
  BY <1>4, FieldsIs
<1>6. d.firsts[z].index = i /\ d.firsts[z].count > 0
  BY DEF GivesRoom
<1>7. \A p \in 1 .. Len(d.dups) : d.dups[p].stream # i
  BY <1>1, <1>6 DEF DupsRight
<1>8. \A y : Copies(d, y, i + 1) = Copies(d, y, i)
  BY <1>1, <1>7, NoCopyOf
<1>9. LeftOf(d, i + 1) = L
  BY <1>3, <1>8 DEF LeftOf
<1>10. DupsMatch(d, q, i + 1) /\ ~(q <= Len(d.dups) /\ d.dups[q].stream = i)
  BY <1>1, <1>2, <1>7, NoDupTurn
<1>11. ASSUME NEW S, NEW Q, NEW T
       PROVE  CopyTurn(d, FState(S, Q, T, q, L), i) = FState(S, Q, T, q, L)
  <2>1. PICK g : g = FState(S, Q, T, q, L)
    OBVIOUS
  <2>2. g.dups = q
    BY <2>1, FieldsIs
  <2>3. CopyTurn(d, g, i) = g
    BY <1>10, <2>2 DEF CopyTurn
  <2> QED
    BY <2>1, <2>3
<1>12. PICK n \in Nat : n = Len(d.firsts[z].key) /\ n > 0
  BY <1>1, FirstIsOf
<1>13. PICK N \in Nat : N = Len(m.blocks)
  BY <1>1 DEF ManagerRight
<1>14. PICK k : k = FreeBlock(m, n)
  OBVIOUS
<1>15. k \in 0 .. N /\ (k > 0 => m.blocks[k].count <= 0)
  BY <1>1, <1>13, <1>14, FreeBlockIs
<1>16. FirstTurn(d, f, i) = RoomTaken(f, n, k)
  <2>0. FirstsRight(d) /\ PlacesMatch(d, P, m, i) /\ f.place = P /\ d.firsts[z].index = i
    BY <1>1, <1>2, <1>5, <1>6
  <2>1. FirstTurn(d, f, i) = TakeRoomOf(d, f, z)
    BY <2>0, OneFirstTurn
  <2>2. FreeRoom(f, n) = k
    BY <1>1, <1>2, <1>5, <1>12, <1>14, FreeRoomIs
  <2>3. d.firsts[z].count # 0
    BY <1>6
  <2> QED
    BY <1>12, <2>1, <2>2, <2>3, Zenon DEF TakeRoomOf
<1>17. RoomGiven(t, m, i, n)
  BY <1>12 DEF GivesRoom
<1>18. ASSUME NEW S, NEW v, NEW T, v \in Nat, T = t.total, RoomTaken(f, n, k) = FState(S, Append(P, v), T, q, L),
              RoomsMatch(S, t), \A y \in 1 .. Len(P) : LivesAt(d, P[y], t, y, i + 1),
              LivesAt(d, v, t, z, i + 1)
       PROVE  Matches(d, ForeseeOf(d, f, i), t, i + 1)
  <2>1. PICK Q : Q = Append(P, v)
    OBVIOUS
  <2>2. ForeseeOf(d, f, i) = FState(S, Q, T, q, L)
    BY <1>11, <1>16, <1>18, <2>1, Zenon DEF ForeseeOf
  <2>3. PlacesMatch(d, Q, t, i + 1)
    BY <1>1, <1>2, <1>6, <1>18, <2>1, PlacesMore
  <2> QED
    BY <1>9, <1>10, <1>18, <2>2, <2>3, Zenon DEF Matches
<1>19. CASE k > 0
  <2>1. ReusesRoom(t, m, i, k)
    BY <1>14, <1>17, <1>19 DEF RoomGiven
  <2>2. PICK S : S = InUse(R, k)
    OBVIOUS
  <2>3. RoomTaken(f, n, k) = FState(S, Append(P, k), M, q, L)
    BY <1>4, <1>19, <2>2, RoomUsed
  <2>4. RoomsMatch(S, t)
    BY <1>1, <1>2, <1>15, <1>19, <2>1, <2>2, RoomReused
  <2>5. ASSUME NEW y \in 1 .. Len(P) PROVE LivesAt(d, P[y], t, y, i + 1)
    <3> SUFFICES ASSUME Copies(d, y, i + 1) # {}
                 PROVE  /\ P[y] \in 1 .. Len(t.blocks) /\ t.blocks[P[y]].id = d.firsts[y].index
                        /\ t.blocks[P[y]].count > 0
      BY DEF LivesAt
    <3>1. /\ P[y] \in 1 .. N /\ m.blocks[P[y]].id = d.firsts[y].index
          /\ m.blocks[P[y]].count > 0
      BY <1>2, <1>8, <1>13 DEF PlacesMatch, LivesAt
    <3>2. P[y] # k
      <4>1. m.blocks[P[y]].count \in Nat
        BY <1>1, <1>13, <3>1, BlockIs
      <4> QED
        BY <1>15, <1>19, <3>1, <4>1
    <3>3. Len(t.blocks) = N /\ SameRoom(t, m, P[y])
      BY <1>13, <2>1, <3>1, <3>2 DEF ReusesRoom
    <3> QED
      BY <3>1, <3>3 DEF SameRoom
  <2>6. LivesAt(d, k, t, z, i + 1) /\ t.total = M
    BY <1>3, <1>6, <2>1 DEF LivesAt, ReusesRoom
  <2>7. k \in Nat
    BY <1>15
  <2> QED
    BY <1>18, <2>3, <2>4, <2>5, <2>6, <2>7
<1>20. CASE k = 0
  <2>1. AddsRoom(t, m, i, n)
    BY <1>14, <1>17, <1>20 DEF RoomGiven
  <2>2. PICK e \in Nat :
          /\ e = N + 1 /\ Len(t.blocks) = e /\ t.total = m.total + n
          /\ t.blocks[e].id = i /\ t.blocks[e].count > 0
          /\ \A l \in 1 .. N : SameRoom(t, m, l)
    BY <1>13, <2>1 DEF AddsRoom
  <2>3. PICK S, T : S = Append(R, n) /\ T = M + n
    OBVIOUS
  <2>4. RoomTaken(f, n, k) = FState(S, Append(P, e), T, q, L)
    <3>1. ~(k > 0)
      BY <1>20
    <3>2. Len(R) + 1 = e
      BY <1>2, <1>13, <2>2 DEF RoomsMatch
    <3>3. RoomTaken(f, n, k) = FState(Append(R, n), Append(P, Len(R) + 1), M + n, q, L)
      BY <1>4, <3>1, RoomNew
    <3> QED
      BY <2>3, <3>2, <3>3, Zenon
  <2>5. RoomsMatch(S, t)
    BY <1>1, <1>2, <2>1, <2>3, RoomAdded
  <2>6. ASSUME NEW y \in 1 .. Len(P) PROVE LivesAt(d, P[y], t, y, i + 1)
    <3> SUFFICES ASSUME Copies(d, y, i + 1) # {}
                 PROVE  /\ P[y] \in 1 .. Len(t.blocks) /\ t.blocks[P[y]].id = d.firsts[y].index
                        /\ t.blocks[P[y]].count > 0
      BY DEF LivesAt
    <3>1. /\ P[y] \in 1 .. N /\ m.blocks[P[y]].id = d.firsts[y].index
          /\ m.blocks[P[y]].count > 0
      BY <1>2, <1>8, <1>13 DEF PlacesMatch, LivesAt
    <3>2. SameRoom(t, m, P[y]) /\ P[y] \in 1 .. e
      BY <2>2, <3>1
    <3> QED
      BY <2>2, <3>1, <3>2 DEF SameRoom
  <2>7. LivesAt(d, e, t, z, i + 1)
    <3>1. e \in 1 .. e
      BY <2>2
    <3> QED
      BY <1>6, <2>2, <3>1 DEF LivesAt
  <2>8. T = t.total
    BY <1>3, <2>2, <2>3
  <2> QED
    BY <1>18, <2>4, <2>5, <2>6, <2>7, <2>8
<1> QED
  BY <1>15, <1>19, <1>20

\* A copy has been made from block k, of which e are left, and the rooms.
LEMMA RoomLeft ==
  ASSUME NEW m, ManagerRight(m), NEW R, RoomsMatch(R, m), NEW t, NEW k \in 1 .. Len(m.blocks),
         m.blocks[k].count > 0, NEW e, e = m.blocks[k].count - 1,
         t.blocks[k].full = m.blocks[k].full, t.blocks[k].count = e,
         \A l \in 1 .. Len(m.blocks) : l # k => SameRoom(t, m, l),
         Len(t.blocks) = Len(m.blocks)
  PROVE  RoomsMatch(FreeIfLast(R, k, e), t)
<1>1. PICK N \in Nat : N = Len(m.blocks)
  BY DEF ManagerRight
<1>2. PICK x \in Nat, c \in Nat : x = m.blocks[k].full /\ c = m.blocks[k].count
  BY BlockIs
<1>3. R \in Seq(Int) /\ Len(R) = N
  BY <1>1 DEF RoomsMatch
<1>4. R[k] = x
  BY <1>1, <1>2 DEF RoomsMatch
<1>5. c > 0 /\ e = c - 1
  BY <1>2
<1>6. PICK v \in Int : v = IF e = 0 THEN -x ELSE x
  OBVIOUS
<1>7. PICK S : S = FreeIfLast(R, k, e)
  OBVIOUS
<1>8. S = [R EXCEPT ![k] = v]
  BY <1>4, <1>6, <1>7 DEF FreeIfLast
<1>9. S \in Seq(Int) /\ Len(S) = N /\ \A l \in 1 .. N : S[l] = IF l = k THEN v ELSE R[l]
  BY <1>1, <1>3, <1>8, ExceptSeq
<1>10. ASSUME NEW l \in 1 .. N
       PROVE  S[l] = IF t.blocks[l].count > 0 THEN t.blocks[l].full ELSE -t.blocks[l].full
  <2>1. CASE l = k
    <3>1. v = IF e > 0 THEN x ELSE -x
      BY <1>5, <1>6
    <3> QED
      BY <1>2, <1>9, <2>1, <3>1
  <2>2. CASE l # k
    <3>1. t.blocks[l].count = m.blocks[l].count /\ t.blocks[l].full = m.blocks[l].full
      BY <1>1, <2>2 DEF SameRoom
    <3> QED
      BY <1>1, <1>9, <2>2, <3>1 DEF RoomsMatch
  <2> QED
    BY <2>1, <2>2
<1> QED
  BY <1>1, <1>7, <1>9, <1>10 DEF RoomsMatch

\* Stream i, the reference p, is copied.
LEMMA CopyForetold ==
  ASSUME NEW u, NEW d, DDRight(u, d), NEW i \in Nat, NEW m, ManagerHas(d, m, i), NEW f,
         Matches(d, f, m, i), NEW t, NEW p \in 1 .. Len(d.dups), TakesCopy(d, t, m, p, i)
  PROVE  Matches(d, ForeseeOf(d, f, i), t, i + 1)
<1>1. FirstsRight(d) /\ DupsRight(d) /\ ManagerRight(m)
  BY DEF DDRight, ManagerHas
<1>2. PICK R, P, q :
        /\ f = FState(R, P, m.total, q, LeftOf(d, i))
        /\ RoomsMatch(R, m) /\ PlacesMatch(d, P, m, i) /\ DupsMatch(d, q, i)
  BY DEF Matches
<1>3. PICK M, L : M = m.total /\ L = LeftOf(d, i)
  OBVIOUS
<1>4. f = FState(R, P, M, q, L)
  BY <1>2, <1>3
<1>5. f.place = P /\ f.dups = q
  BY <1>4, FieldsIs
<1>6. d.dups[p].stream = i
  BY DEF TakesCopy
<1>7. PICK z \in 1 .. Len(d.firsts) : z = d.dups[p].first
  BY <1>1, DupIs
<1>8. \A y \in 1 .. Len(d.firsts) : d.firsts[y].index # i
  BY <1>1, <1>6 DEF DupsRight
<1>9. q = p /\ DupsMatch(d, q + 1, i + 1)
  BY <1>1, <1>2, <1>6, DupTurn
<1>10. /\ Cardinality(Copies(d, z, i)) > 0 /\ Copies(d, z, i) # {}
       /\ Cardinality(Copies(d, z, i + 1)) = Cardinality(Copies(d, z, i)) - 1
  BY <1>1, <1>6, <1>7, CopyOf
<1>11. PICK e : e = Cardinality(Copies(d, z, i + 1))
  OBVIOUS
<1>12. ASSUME NEW y \in 1 .. Len(d.firsts), y # z
       PROVE  Copies(d, y, i + 1) = Copies(d, y, i)
  <2>1. \A x \in 1 .. Len(d.dups) : d.dups[x].stream = i => d.dups[x].first # y
    BY <1>1, <1>6, <1>7, <1>12, SameDup
  <2> QED
    BY <1>1, <2>1, NoCopyOf
<1>13. L[z] = Cardinality(Copies(d, z, i)) /\ e = L[z] - 1
  BY <1>3, <1>10, <1>11 DEF LeftOf
<1>14. Lowered(L, z, e) = LeftOf(d, i + 1)
  <2>1. PICK G : G = Lowered(L, z, e)
    OBVIOUS
  <2>2. G = [[y \in 1 .. Len(d.firsts) |-> Cardinality(Copies(d, y, i))] EXCEPT ![z] = e]
    BY <1>3, <2>1 DEF Lowered, LeftOf
  <2>3. ASSUME NEW y \in 1 .. Len(d.firsts)
        PROVE  (IF y = z THEN e ELSE Cardinality(Copies(d, y, i))) = Cardinality(Copies(d, y, i + 1))
    BY <1>11, <1>12
  <2>4. G = [y \in 1 .. Len(d.firsts) |-> IF y = z THEN e ELSE Cardinality(Copies(d, y, i))]
    BY <2>2
  <2>5. G = [y \in 1 .. Len(d.firsts) |-> Cardinality(Copies(d, y, i + 1))]
    BY <2>3, <2>4
  <2> QED
    BY <2>1, <2>5 DEF LeftOf
<1>15. PICK N \in Nat : N = Len(m.blocks)
  BY <1>1 DEF ManagerRight
<1>16. z \in 1 .. Len(P)
  <2>1. d.firsts[z].index < i
    BY <1>1, <1>6, <1>7 DEF DupsRight
  <2> QED
    BY <1>2, <2>1 DEF PlacesMatch
<1>17. PICK k : k = P[z]
  OBVIOUS
<1>18. k \in 1 .. N /\ m.blocks[k].id = d.firsts[z].index /\ m.blocks[k].count > 0
  BY <1>2, <1>10, <1>15, <1>16, <1>17 DEF PlacesMatch, LivesAt
<1>19. HoldsFirst(d, m, k, i) /\ SoleBlock(m, d.firsts[z].index, k)
  BY <1>15, <1>18 DEF ManagerHas
<1>20. m.blocks[k].count = Cardinality(Copies(d, z, i))
  <2>1. PICK y \in 1 .. Len(d.firsts) :
          d.firsts[y].index = m.blocks[k].id /\ m.blocks[k].count = Cardinality(Copies(d, y, i))
    BY <1>19 DEF HoldsFirst
  <2>2. y = z
    BY <1>1, <1>18, <2>1, SameFirst
  <2> QED
    BY <2>1, <2>2
<1>21. /\ t.blocks[k].id = d.firsts[z].index /\ t.blocks[k].full = m.blocks[k].full
       /\ t.blocks[k].count = m.blocks[k].count - 1
       /\ \A l \in 1 .. N : l # k => SameRoom(t, m, l)
       /\ Len(t.blocks) = N /\ t.total = m.total
  <2>1. CopyTaken(t, m, d.firsts[z].index)
    BY <1>7 DEF TakesCopy
  <2>2. PICK x \in 1 .. N :
          /\ m.blocks[x].id = d.firsts[z].index /\ m.blocks[x].count > 0
          /\ t.blocks[x].id = d.firsts[z].index /\ t.blocks[x].full = m.blocks[x].full
          /\ t.blocks[x].count = m.blocks[x].count - 1
          /\ \A l \in 1 .. N : l # x => SameRoom(t, m, l)
          /\ Len(t.blocks) = N /\ t.total = m.total
    BY <1>15, <2>1 DEF CopyTaken
  <2>3. x = k
    BY <1>15, <1>19, <2>2 DEF SoleBlock
  <2> QED
    BY <2>2, <2>3
<1>22. t.blocks[k].count = e /\ e = m.blocks[k].count - 1
  BY <1>10, <1>11, <1>20, <1>21
<1>23. PICK S : S = FreeIfLast(R, k, e)
  OBVIOUS
<1>24. RoomsMatch(S, t)
  BY <1>1, <1>2, <1>15, <1>18, <1>21, <1>22, <1>23, RoomLeft
<1>25. ForeseeOf(d, f, i) = FState(S, P, M, q + 1, LeftOf(d, i + 1))
  <2>1. FirstTurn(d, f, i) = f
    BY <1>1, <1>2, <1>5, <1>8, NoFirstTurn
  <2>2. q <= Len(d.dups) /\ d.dups[q].stream = i /\ d.dups[q].first = z
    BY <1>6, <1>7, <1>9
  <2>3. CopyTurn(d, f, i) = Copied(f, z)
    BY <1>5, <2>2 DEF CopyTurn
  <2>4. Copied(f, z) = FState(S, P, M, q + 1, Lowered(L, z, e))
    BY <1>4, <1>13, <1>17, <1>23, CopiedWith
  <2> QED
    BY <1>14, <2>1, <2>3, <2>4, Zenon DEF ForeseeOf
<1>26. ASSUME NEW y \in 1 .. Len(P) PROVE LivesAt(d, P[y], t, y, i + 1)
  <2> SUFFICES ASSUME Copies(d, y, i + 1) # {}
               PROVE  /\ P[y] \in 1 .. N /\ t.blocks[P[y]].id = d.firsts[y].index
                      /\ t.blocks[P[y]].count > 0
    BY <1>21 DEF LivesAt
  <2>1. CASE y = z
    <3>1. e \in Nat /\ e # 0
      BY <1>1, <1>11, <2>1, CopiesFinite, FS_EmptySet
    <3>2. e > 0
      BY <3>1
    <3> QED
      BY <1>17, <1>18, <1>21, <1>22, <2>1, <3>2
  <2>2. CASE y # z
    <3>1. y \in 1 .. Len(d.firsts)
      <4>1. Len(P) <= Len(d.firsts) /\ Len(P) \in Nat /\ Len(d.firsts) \in Nat
        BY <1>1, <1>2 DEF PlacesMatch, FirstsRight
      <4> QED
        BY <4>1
    <3>2. Copies(d, y, i) # {}
      BY <1>12, <2>2, <3>1
    <3>3. /\ P[y] \in 1 .. N /\ m.blocks[P[y]].id = d.firsts[y].index
          /\ m.blocks[P[y]].count > 0
      BY <1>2, <1>15, <3>2 DEF PlacesMatch, LivesAt
    <3>4. P[y] # k
      BY <1>1, <1>18, <2>2, <3>1, <3>3, SameFirst
    <3>5. SameRoom(t, m, P[y])
      BY <1>21, <3>3, <3>4
    <3> QED
      BY <3>3, <3>5 DEF SameRoom
  <2> QED
    BY <2>1, <2>2
<1>27. PlacesMatch(d, P, t, i + 1)
  BY <1>1, <1>2, <1>8, <1>26, PlacesStay
<1>28. M = t.total
  BY <1>3, <1>21
<1>29. PICK x : x = q + 1
  OBVIOUS
<1>30. DupsMatch(d, x, i + 1) /\ ForeseeOf(d, f, i) = FState(S, P, t.total, x, LeftOf(d, i + 1))
  BY <1>9, <1>25, <1>28, <1>29
<1> QED
  BY <1>24, <1>27, <1>30, Zenon DEF Matches

\* In front of stream i the manager is as it has been foreseen; without
\* references it has given out nothing.
AsForetold(d, m, i) ==
  /\ i <= d.streams => Matches(d, ForeseenOf(d)[i], m, i)
  /\ d.dups = <<>> => m.total = 0

\* Stream i has been kept or copied.
LEMMA RoomsForetold ==
  ASSUME NEW u, NEW d, DDRight(u, d), NEW i \in Nat, NEW m, ManagerHas(d, m, i),
         AsForetold(d, m, i), NEW t, RoomsTurn(d, t, m, i)
  PROVE  AsForetold(d, t, i + 1)
<1>1. d.streams \in Nat /\ FirstsRight(d) /\ DupsRight(d)
  BY DEF DDRight
<1>2. ASSUME i + 1 <= d.streams PROVE Matches(d, ForeseenOf(d)[i + 1], t, i + 1)
  <2>1. i + 1 \in 1 .. d.streams /\ i <= d.streams /\ i + 1 - 1 = i
    BY <1>1, <1>2
  <2>2. PICK f : f = ForeseenOf(d)[i]
    OBVIOUS
  <2>3. ForeseenOf(d)[i + 1] = ForeseeOf(d, f, i)
    BY <1>1, <2>1, <2>2, ForeseenOfIs
  <2>4. Matches(d, f, m, i)
    BY <2>1, <2>2 DEF AsForetold
  <2>5. Matches(d, ForeseeOf(d, f, i), t, i + 1)
    BY <2>4, KeptForetold, CopyForetold DEF RoomsTurn
  <2> QED
    BY <2>3, <2>5
<1>3. d.dups # <<>>
  <2> SUFFICES ASSUME d.dups = <<>> PROVE FALSE
    OBVIOUS
  <2>1. Len(d.dups) = 0
    OBVIOUS
  <2>2. \A q : q \notin 1 .. Len(d.dups)
    BY <2>1
  <2>3. PICK z \in 1 .. Len(d.firsts) : GivesRoom(d, t, m, z, i)
    BY <2>2 DEF RoomsTurn
  <2>4. Copies(d, z, 0) = {}
    BY <2>2 DEF Copies
  <2>5. d.firsts[z].count = 0
    BY <1>1, <2>4, FS_EmptySet DEF FirstsRight
  <2> QED
    BY <2>3, <2>5 DEF GivesRoom
<1> QED
  BY <1>2, <1>3 DEF AsForetold

\* Stream i has been neither.
LEMMA StillForetold ==
  ASSUME NEW u, NEW d, DDRight(u, d), NEW i \in Nat, NEW m, AsForetold(d, m, i),
         \A q \in 1 .. Len(d.dups) : d.dups[q].stream # i,
         \A z \in 1 .. Len(d.firsts) : d.firsts[z].index = i => ~(d.firsts[z].count > 0)
  PROVE  AsForetold(d, m, i + 1)
<1>1. d.streams \in Nat
  BY DEF DDRight
<1>2. ASSUME i + 1 <= d.streams PROVE Matches(d, ForeseenOf(d)[i + 1], m, i + 1)
  <2>1. i + 1 \in 1 .. d.streams /\ i <= d.streams /\ i + 1 - 1 = i
    BY <1>1, <1>2
  <2>2. PICK f : f = ForeseenOf(d)[i]
    OBVIOUS
  <2>3. ForeseenOf(d)[i + 1] = ForeseeOf(d, f, i)
    BY <1>1, <2>1, <2>2, ForeseenOfIs
  <2>4. Matches(d, f, m, i)
    BY <2>1, <2>2 DEF AsForetold
  <2>5. Matches(d, ForeseeOf(d, f, i), m, i + 1)
    BY <2>4, IdleForetold
  <2> QED
    BY <2>3, <2>5
<1> QED
  BY <1>2 DEF AsForetold

\* Nothing has been foreseen, and nothing given out.
LEMMA NothingForetold ==
  ASSUME NEW u, NEW d, DDRight(u, d), NEW m, m.blocks = <<>>, m.total = 0
  PROVE  AsForetold(d, m, 0)
<1>1. d.streams \in Nat /\ FirstsRight(d) /\ DupsRight(d)
  BY DEF DDRight
<1>2. ForeseenOf(d)[0] = FState(<<>>, <<>>, m.total, 1, LeftOf(d, 0))
  BY <1>1, ForeseenOfIs DEF NoneForeseenOf
<1>3. Len(<<>>) = 0 /\ 1 .. 0 = {} /\ <<>> \in Seq(Int) /\ <<>> \in Seq(Nat)
  OBVIOUS
<1>4. RoomsMatch(<<>>, m)
  BY <1>3 DEF RoomsMatch
<1>5. PlacesMatch(d, <<>>, m, 0)
  <2>1. \A z \in 1 .. Len(d.firsts) : ~(z <= 0) /\ ~(d.firsts[z].index < 0)
    <3>1. \A z \in 1 .. Len(d.firsts) : d.firsts[z].index \in Nat
      BY <1>1, FirstIsOf
    <3> QED
      BY <3>1
  <2>2. 0 <= Len(d.firsts)
    BY <1>1 DEF FirstsRight
  <2> QED
    BY <1>3, <2>1, <2>2 DEF PlacesMatch
<1>6. DupsMatch(d, 1, 0)
  <2>1. \A p \in 1 .. Len(d.dups) : ~(p < 1) /\ ~(d.dups[p].stream < 0)
    <3>1. \A p \in 1 .. Len(d.dups) : d.dups[p].stream \in Nat
      BY <1>1, DupIs
    <3> QED
      BY <3>1
  <2> QED
    BY <2>1 DEF DupsMatch
<1>7. Matches(d, ForeseenOf(d)[0], m, 0)
  BY <1>2, <1>4, <1>5, <1>6 DEF Matches
<1> QED
  BY <1>7 DEF AsForetold

-----------------------------------------------------------------------------
(* One stream is decoded *)

\* A decoder, and one that is not broken.
DecRecord(n, out, i, p, m, ok) ==
  [next |-> n, out |-> out, index1 |-> i, index2 |-> p, ok |-> ok, manager |-> m]

\* The decoder in good order.
DecState(n, out, i, p, m) == DecRecord(n, out, i, p, m, TRUE)

\* Stream i is one to be kept.
Wanted(i, p) == setup.dedup /\ Named(head.list, p, i)

\* A decoder with another field.
OutSet(x, t) == [x EXCEPT !.out = t]
\* The decoder with one field changed.
NumberSet(x, t) == [x EXCEPT !.index1 = t]
PointerSet(x, t) == [x EXCEPT !.index2 = t]
ManagerSet(x, t) == [x EXCEPT !.manager = t]
NextSet(x, t) == [x EXCEPT !.next = t]

\* What changing one field does.
LEMMA StateWith ==
  ASSUME NEW n, NEW out, NEW i, NEW p, NEW m, NEW t
  PROVE  /\ OutSet(DecState(n, out, i, p, m), t) = DecState(n, t, i, p, m)
         /\ NumberSet(DecState(n, out, i, p, m), t) = DecState(n, out, t, p, m)
         /\ PointerSet(DecState(n, out, i, p, m), t) = DecState(n, out, i, t, m)
         /\ ManagerSet(DecState(n, out, i, p, m), t) = DecState(n, out, i, p, t)
         /\ NextSet(DecState(n, out, i, p, m), t) = DecState(t, out, i, p, m)
<1>1. PICK ok : ok = TRUE
  OBVIOUS
<1>2. \A a, b, c, d, e : DecState(a, b, c, d, e) = DecRecord(a, b, c, d, e, ok)
  BY <1>1 DEF DecState
<1>3. /\ OutSet(DecRecord(n, out, i, p, m, ok), t) = DecRecord(n, t, i, p, m, ok)
      /\ NumberSet(DecRecord(n, out, i, p, m, ok), t) = DecRecord(n, out, t, p, m, ok)
      /\ PointerSet(DecRecord(n, out, i, p, m, ok), t) = DecRecord(n, out, i, t, m, ok)
      /\ ManagerSet(DecRecord(n, out, i, p, m, ok), t) = DecRecord(n, out, i, p, t, ok)
      /\ NextSet(DecRecord(n, out, i, p, m, ok), t) = DecRecord(t, out, i, p, m, ok)
  BY DEF DecRecord, OutSet, NumberSet, PointerSet, ManagerSet, NextSet
<1> QED
  BY <1>2, <1>3

\* The stream is kept if the table names it.
LEMMA KeepsIs ==
  ASSUME NEW n, NEW out, NEW i, NEW p, NEW m, NEW x, x = DecState(n, out, i, p, m)
  PROVE  Keeps(x) <=> Wanted(i, p)
<1>1. x.index1 = i /\ x.index2 = p
  BY DEF DecState, DecRecord
<1> QED
  BY <1>1 DEF Keeps, Wanted, Named

\* What Adding does.
LEMMA AddingIs ==
  ASSUME NEW n, NEW out, NEW i, NEW p, NEW m, NEW h
  PROVE  /\ ~Wanted(i, p) => Adding(DecState(n, out, i, p, m), h) = DecState(n, out, i, p, m)
         /\ Wanted(i, p) =>
              Adding(DecState(n, out, i, p, m), h) =
                DecState(n, out, i, p, AddBlock(m, i, h.old, head.list[p].count))
<1>1. PICK x : x = DecState(n, out, i, p, m)
  OBVIOUS
<1>2. x.index1 = i /\ x.index2 = p /\ x.manager = m
  BY <1>1 DEF DecState, DecRecord
<1>3. Keeps(x) <=> Wanted(i, p)
  BY <1>1, KeepsIs
<1>4. ~Wanted(i, p) => Adding(x, h) = x
  BY <1>3 DEF Adding
<1>5. ASSUME Wanted(i, p)
      PROVE  Adding(x, h) = DecState(n, out, i, p, AddBlock(m, i, h.old, head.list[p].count))
  <2>1. Adding(x, h) = [x EXCEPT !.manager = AddBlock(m, i, h.old, head.list[p].count)]
    BY <1>2, <1>3, <1>5 DEF Adding
  <2>2. PICK t : t = AddBlock(m, i, h.old, head.list[p].count)
    OBVIOUS
  <2>3. Adding(x, h) = ManagerSet(x, t)
    BY <2>1, <2>2 DEF ManagerSet
  <2>4. ManagerSet(x, t) = DecState(n, out, i, p, t)
    BY <1>1, StateWith
  <2> QED
    BY <2>2, <2>3, <2>4
<1> QED
  BY <1>1, <1>4, <1>5

\* What Keeping does.
LEMMA KeepingIs ==
  ASSUME NEW n, NEW out, NEW i, NEW p, NEW m, NEW bytes
  PROVE  /\ ~Wanted(i, p) => Keeping(DecState(n, out, i, p, m), bytes) = DecState(n, out, i, p, m)
         /\ Wanted(i, p) =>
              Keeping(DecState(n, out, i, p, m), bytes) =
                DecState(n, out, i, p, WriteToBlock(m, i, bytes))
<1>1. PICK x : x = DecState(n, out, i, p, m)
  OBVIOUS
<1>2. x.index1 = i /\ x.index2 = p /\ x.manager = m
  BY <1>1 DEF DecState, DecRecord
<1>3. Keeps(x) <=> Wanted(i, p)
  BY <1>1, KeepsIs
<1>4. ~Wanted(i, p) => Keeping(x, bytes) = x
  BY <1>3 DEF Keeping
<1>5. ASSUME Wanted(i, p)
      PROVE  Keeping(x, bytes) = DecState(n, out, i, p, WriteToBlock(m, i, bytes))
  <2>1. Keeping(x, bytes) = [x EXCEPT !.manager = WriteToBlock(m, i, bytes)]
    BY <1>2, <1>3, <1>5 DEF Keeping
  <2>2. PICK t : t = WriteToBlock(m, i, bytes)
    OBVIOUS
  <2>3. Keeping(x, bytes) = ManagerSet(x, t)
    BY <2>1, <2>2 DEF ManagerSet
  <2>4. ManagerSet(x, t) = DecState(n, out, i, p, t)
    BY <1>1, StateWith
  <2> QED
    BY <2>2, <2>3, <2>4
<1> QED
  BY <1>1, <1>4, <1>5

\* What Writing does.
LEMMA WritingIs ==
  ASSUME NEW n, NEW out, NEW i, NEW p, NEW m, NEW bytes
  PROVE  Writing(DecState(n, out, i, p, m), bytes) = DecState(n, out \o bytes, i, p, m)
<1>1. PICK x : x = DecState(n, out, i, p, m)
  OBVIOUS
<1>2. x.out = out
  BY <1>1 DEF DecState, DecRecord
<1>3. PICK r : r = out \o bytes
  OBVIOUS
<1>4. Writing(x, bytes) = OutSet(x, r)
  BY <1>2, <1>3 DEF Writing, OutSet
<1>5. OutSet(x, r) = DecState(n, r, i, p, m)
  BY <1>1, StateWith
<1> QED
  BY <1>1, <1>3, <1>4, <1>5

\* What Copying does.
LEMMA CopyingIs ==
  ASSUME NEW n, NEW out, NEW i, NEW p, NEW m, NEW h, NEW r, r = CopyData(m, h.option)
  PROVE  Copying(DecState(n, out, i, p, m), h) = DecState(n, out \o r.bytes, i, p, r.manager)
<1>1. PICK x : x = DecState(n, out, i, p, m)
  OBVIOUS
<1>2. x.manager = m
  BY <1>1 DEF DecState, DecRecord
<1>3. Copying(x, h) = ManagerSet(Writing(x, r.bytes), r.manager)
  BY <1>2 DEF Copying, ManagerSet
<1>4. PICK t : t = r.manager
  OBVIOUS
<1>5. PICK w : w = out \o r.bytes
  OBVIOUS
<1>6. Writing(x, r.bytes) = DecState(n, w, i, p, m)
  BY <1>1, <1>5, WritingIs
<1>7. ManagerSet(DecState(n, w, i, p, m), t) = DecState(n, w, i, p, t)
  BY StateWith
<1> QED
  BY <1>1, <1>3, <1>4, <1>5, <1>6, <1>7

\* The next stream is stream i.
LEMMA NextIs ==
  ASSUME NEW n, NEW out, NEW i \in Nat, NEW p, NEW m,
         NEW x, x = DecState(n, out, i - 1, p, m)
  PROVE  [x EXCEPT !.index1 = @ + 1] = DecState(n, out, i, p, m)
<1>2. x.index1 = i - 1
  BY DEF DecState, DecRecord
<1>3. i - 1 + 1 = i
  OBVIOUS
<1>4. [x EXCEPT !.index1 = @ + 1] = NumberSet(x, i)
  BY <1>2, <1>3 DEF NumberSet
<1>5. NumberSet(x, i) = DecState(n, out, i, p, m)
  BY StateWith
<1> QED
  BY <1>4, <1>5

\* What becomes of a reference, of a stored stream, and of one that is kept as
\* it is written in one piece or in two.
RefersTo(y, n, w, i, p, m, h) ==
  \E r : r = CopyData(m, h.option) /\ y = DecState(n, w \o r.bytes, i, p, r.manager)

\* The stream is written and not kept.
Passes(y, n, w, i, p, m, a) == y = DecState(n, w \o a, i, p, m)

\* The stream is kept as it is written.
KeepsWhole(y, n, w, i, p, m, h, a) ==
  \E s, t : /\ s = AddBlock(m, i, h.old, head.list[p].count)
            /\ t = WriteToBlock(s, i, a) /\ y = DecState(n, w \o a, i, p + 1, t)

\* The first byte and the others of the stream are kept one after the other.
KeepsPieces(y, n, w, i, p, m, h, a) ==
  \E s, t, v : /\ s = AddBlock(m, i, h.old, head.list[p].count)
               /\ t = WriteToBlock(s, i, SubSeq(a, 1, 1))
               /\ v = WriteToBlock(t, i, SubSeq(a, 2, h.old))
               /\ y = DecState(n, w \o a, i, p + 1, v)

\* Restore of one stream, case by case.
LEMMA RestoreOneIs ==
  ASSUME NEW n, NEW out, NEW i \in Nat, NEW p, NEW m, NEW b, NEW j, NEW h, h = b.headers[j],
         NEW bytes, bytes = StoredBytes(b, j), NEW w, w = out \o b.gaps[j],
         NEW a, a = bytes[1].of, NEW x, x = DecState(n, out, i - 1, p, m),
         NEW y, y = RestoreOne(x, b, j)
  PROVE  /\ h.dup /\ ~Wanted(i, p) => RefersTo(y, n, w, i, p, m, h)
         /\ ~h.dup /\ IsStored(bytes, h) /\ ~Wanted(i, p) => Passes(y, n, w, i, p, m, a)
         /\ ~h.dup /\ IsStored(bytes, h) /\ Wanted(i, p) => KeepsPieces(y, n, w, i, p, m, h, a)
<1>2. PICK x1 : x1 = DecState(n, out, i, p, m)
  OBVIOUS
<1>3. [x EXCEPT !.index1 = @ + 1] = x1
  BY <1>2, NextIs
<1>4. PICK d1 : d1 = Writing(Adding(x1, h), b.gaps[j])
  OBVIOUS
<1>6. PICK d2 : d2 = Keeping(Keeping(d1, SubSeq(a, 1, 1)), SubSeq(a, 2, h.old))
  OBVIOUS
<1>7. y = IF h.dup THEN Copying(d1, h)
          ELSE IF ~IsStored(bytes, h) THEN [x EXCEPT !.ok = FALSE]
          ELSE [Writing(d2, a) EXCEPT !.index2 = IF Keeps(d2) THEN @ + 1 ELSE @]
  BY <1>3, <1>4, <1>6 DEF RestoreOne
<1>8. ASSUME ~Wanted(i, p) PROVE d1 = DecState(n, w, i, p, m)
  BY <1>2, <1>4, <1>8, AddingIs, WritingIs
<1>9. ASSUME h.dup, ~Wanted(i, p)
      PROVE  RefersTo(y, n, w, i, p, m, h)
  <2>1. PICK r : r = CopyData(m, h.option)
    OBVIOUS
  <2>2. y = Copying(d1, h)
    BY <1>7, <1>9
  <2>3. y = DecState(n, w \o r.bytes, i, p, r.manager)
    BY <1>8, <1>9, <2>1, <2>2, CopyingIs
  <2> QED
    BY <2>1, <2>3 DEF RefersTo
<1>10. ASSUME ~h.dup, IsStored(bytes, h), ~Wanted(i, p)
       PROVE  Passes(y, n, w, i, p, m, a)
  <2>1. d2 = DecState(n, w, i, p, m)
    BY <1>6, <1>8, <1>10, KeepingIs
  <2>2. ~Keeps(d2)
    BY <1>10, <2>1, KeepsIs
  <2>3. PICK v : v = DecState(n, w \o a, i, p, m)
    OBVIOUS
  <2>4. Writing(d2, a) = v
    BY <2>1, <2>3, WritingIs
  <2>5. y = [v EXCEPT !.index2 = @]
    BY <1>7, <1>10, <2>2, <2>4
  <2>6. [v EXCEPT !.index2 = @] = v
    <3>1. v.index2 = p
      BY <2>3 DEF DecState, DecRecord
    <3>2. PointerSet(v, p) = v
      BY <2>3, StateWith
    <3> QED
      BY <3>1, <3>2 DEF PointerSet
  <2> QED
    BY <2>3, <2>5, <2>6 DEF Passes
<1>11. ASSUME ~h.dup, IsStored(bytes, h), Wanted(i, p)
       PROVE  KeepsPieces(y, n, w, i, p, m, h, a)
  <2>1. PICK s : s = AddBlock(m, i, h.old, head.list[p].count)
    OBVIOUS
  <2>2. PICK t : t = WriteToBlock(s, i, SubSeq(a, 1, 1))
    OBVIOUS
  <2>3. PICK v : v = WriteToBlock(t, i, SubSeq(a, 2, h.old))
    OBVIOUS
  <2>4. Adding(x1, h) = DecState(n, out, i, p, s)
    BY <1>2, <1>11, <2>1, AddingIs
  <2>5. d1 = DecState(n, w, i, p, s)
    BY <1>4, <2>4, WritingIs
  <2>6. Keeping(d1, SubSeq(a, 1, 1)) = DecState(n, w, i, p, t)
    BY <1>11, <2>2, <2>5, KeepingIs
  <2>7. d2 = DecState(n, w, i, p, v)
    BY <1>6, <1>11, <2>3, <2>6, KeepingIs
  <2>8. Keeps(d2)
    BY <1>11, <2>7, KeepsIs
  <2>9. PICK e : e = w \o a
    OBVIOUS
  <2>10. Writing(d2, a) = DecState(n, e, i, p, v)
    BY <2>7, <2>9, WritingIs
  <2>11. y = [DecState(n, e, i, p, v) EXCEPT !.index2 = @ + 1]
    BY <1>7, <1>11, <2>8, <2>10
  <2>12. y = DecState(n, e, i, p + 1, v)
    <3>1. PICK f : f = DecState(n, e, i, p, v)
      OBVIOUS
    <3>2. f.index2 = p
      BY <3>1 DEF DecState, DecRecord
    <3>4. PICK g : g = p + 1
      OBVIOUS
    <3>3. y = PointerSet(f, g)
      BY <2>11, <3>1, <3>2, <3>4 DEF PointerSet
    <3> QED
      BY <3>1, <3>3, <3>4, StateWith
  <2> QED
    BY <2>1, <2>2, <2>3, <2>9, <2>12 DEF KeepsPieces
<1> QED
  BY <1>9, <1>10, <1>11

\* The loop without Restore, case by case.
LEMMA WriteOneIs ==
  ASSUME NEW n, NEW out, NEW i \in Nat, NEW p, NEW m, NEW b, NEW j, NEW h, h = b.headers[j],
         NEW bytes, bytes = StoredBytes(b, j), NEW w, w = out \o b.gaps[j],
         NEW a, a = bytes[1].of, NEW x, x = DecState(n, out, i - 1, p, m),
         NEW y, y = WriteOne(x, b, j)
  PROVE  /\ h.dup => RefersTo(y, n, w, i, p, m, h)
         /\ ~h.dup /\ IsStored(bytes, h) /\ ~Wanted(i, p) => Passes(y, n, w, i, p, m, a)
         /\ ~h.dup /\ IsStored(bytes, h) /\ Wanted(i, p) => KeepsWhole(y, n, w, i, p, m, h, a)
<1>2. PICK x0 : x0 = DecState(n, w, i - 1, p, m)
  OBVIOUS
<1>3. Writing(x, b.gaps[j]) = x0
  BY <1>2, WritingIs
<1>4. PICK d1 : d1 = DecState(n, w, i, p, m)
  OBVIOUS
<1>5. [x0 EXCEPT !.index1 = @ + 1] = d1
  BY <1>2, <1>4, NextIs
<1>7. PICK d2 : d2 = Keeping(Adding(d1, h), a)
  OBVIOUS
<1>8. y = IF h.dup THEN Copying(d1, h)
          ELSE IF ~IsStored(bytes, h) THEN [x EXCEPT !.ok = FALSE]
          ELSE [Writing(d2, a) EXCEPT !.index2 = IF Keeps(d2) THEN @ + 1 ELSE @]
  BY <1>3, <1>5, <1>7 DEF WriteOne
<1>9. ASSUME h.dup
      PROVE  RefersTo(y, n, w, i, p, m, h)
  <2>1. PICK r : r = CopyData(m, h.option)
    OBVIOUS
  <2>2. y = Copying(d1, h)
    BY <1>8, <1>9
  <2>3. y = DecState(n, w \o r.bytes, i, p, r.manager)
    BY <1>4, <2>1, <2>2, CopyingIs
  <2> QED
    BY <2>1, <2>3 DEF RefersTo
<1>10. ASSUME ~h.dup, IsStored(bytes, h), ~Wanted(i, p)
       PROVE  Passes(y, n, w, i, p, m, a)
  <2>0. Adding(d1, h) = DecState(n, w, i, p, m)
    BY <1>4, <1>10, AddingIs
  <2>1. d2 = DecState(n, w, i, p, m)
    BY <1>7, <1>10, <2>0, KeepingIs
  <2>2. ~Keeps(d2)
    BY <1>10, <2>1, KeepsIs
  <2>3. PICK v : v = DecState(n, w \o a, i, p, m)
    OBVIOUS
  <2>4. Writing(d2, a) = v
    BY <2>1, <2>3, WritingIs
  <2>5. y = [v EXCEPT !.index2 = @]
    BY <1>8, <1>10, <2>2, <2>4
  <2>6. [v EXCEPT !.index2 = @] = v
    <3>1. v.index2 = p
      BY <2>3 DEF DecState, DecRecord
    <3>2. PointerSet(v, p) = v
      BY <2>3, StateWith
    <3> QED
      BY <3>1, <3>2 DEF PointerSet
  <2> QED
    BY <2>3, <2>5, <2>6 DEF Passes
<1>11. ASSUME ~h.dup, IsStored(bytes, h), Wanted(i, p)
       PROVE  KeepsWhole(y, n, w, i, p, m, h, a)
  <2>1. PICK s : s = AddBlock(m, i, h.old, head.list[p].count)
    OBVIOUS
  <2>2. PICK t : t = WriteToBlock(s, i, a)
    OBVIOUS
  <2>4. Adding(d1, h) = DecState(n, w, i, p, s)
    BY <1>4, <1>11, <2>1, AddingIs
  <2>7. d2 = DecState(n, w, i, p, t)
    BY <1>7, <1>11, <2>2, <2>4, KeepingIs
  <2>8. Keeps(d2)
    BY <1>11, <2>7, KeepsIs
  <2>9. PICK e : e = w \o a
    OBVIOUS
  <2>10. Writing(d2, a) = DecState(n, e, i, p, t)
    BY <2>7, <2>9, WritingIs
  <2>11. y = [DecState(n, e, i, p, t) EXCEPT !.index2 = @ + 1]
    BY <1>8, <1>11, <2>8, <2>10
  <2>12. y = DecState(n, e, i, p + 1, t)
    <3>1. PICK f : f = DecState(n, e, i, p, t)
      OBVIOUS
    <3>2. f.index2 = p
      BY <3>1 DEF DecState, DecRecord
    <3>4. PICK g : g = p + 1
      OBVIOUS
    <3>3. y = PointerSet(f, g)
      BY <2>11, <3>1, <3>2, <3>4 DEF PointerSet
    <3> QED
      BY <3>1, <3>3, <3>4, StateWith
  <2> QED
    BY <2>1, <2>2, <2>9, <2>12 DEF KeepsWhole
<1> QED
  BY <1>9, <1>10, <1>11

-----------------------------------------------------------------------------
(* What has been written of a stream *)

\* Stream i, n bytes of the input behind the first s, is written as a
\* reference, or as it is stored.
ReferenceRight(u, d, b, j, i, s, n) ==
  /\ b.headers[j].dup = TRUE
  /\ \E q \in 1 .. Len(d.dups) :
       /\ d.dups[q].stream = i
       /\ b.headers[j].option = d.firsts[d.dups[q].first].index
       /\ d.firsts[d.dups[q].first].key = Part(u, s, n)

\* Stream j of block b is stored with its n bytes from place s on.
StoredRight(u, d, b, j, i, s, n) ==
  /\ b.headers[j].dup = FALSE /\ b.headers[j].old = n
  /\ \E k \in Nat : /\ k > 0
                    /\ StoredBytes(b, j) = [x \in 1 .. k |-> [of |-> Part(u, s, n), n |-> k, k |-> x]]
  /\ \A q \in 1 .. Len(d.dups) : d.dups[q].stream # i
  /\ u.dedup =>
       \E z \in 1 .. Len(d.firsts) : d.firsts[z].index = i /\ d.firsts[z].key = Part(u, s, n)

\* Behind the first a bytes of the input come the gap before stream i, and it.
StreamRight(u, d, b, j, i, a, to) ==
  \E s, n \in Nat :
    /\ a <= s /\ n > 0 /\ to = s + n /\ to <= Len(u.file.bytes)
    /\ b.gaps[j] = Part(u, a, s - a)
    /\ ReferenceRight(u, d, b, j, i, s, n) \/ StoredRight(u, d, b, j, i, s, n)

\* The manager in front of stream i, when the first a bytes have been written.
ManagerFits(u, d, m, i, a) ==
  /\ ManagerHas(d, m, i) /\ m.total <= a /\ Len(u.file.bytes) <= Limit(m.array)
  /\ AsForetold(d, m, i)

\* What the decoder is between streams i - 1 and i: it has written the first a
\* bytes of the input.
DecRight(u, d, list, x, i, a) ==
  \E p, m : /\ x = DecState(x.next, Part(u, 0, a), i - 1, p, m)
            /\ ManagerFits(u, d, m, i, a) /\ Pointer(list, p, i)

\* What is stored of a stream is accepted.
LEMMA StoredIs ==
  ASSUME NEW key \in Seq(Int), NEW k \in Nat, k > 0, NEW h, h.old = Len(key),
         NEW bytes, bytes = [x \in 1 .. k |-> [of |-> key, n |-> k, k |-> x]]
  PROVE  IsStored(bytes, h) /\ bytes[1].of = key
<1>1. DOMAIN bytes = 1 .. k /\ \A x \in 1 .. k : bytes[x] = [of |-> key, n |-> k, k |-> x]
  OBVIOUS
<1>2. 1 \in 1 .. k
  OBVIOUS
<1>3. bytes[1].of = key
  BY <1>1, <1>2
<1>4. Len(bytes) = k /\ bytes # <<>>
  <2>1. bytes \in [1 .. k -> {bytes[x] : x \in 1 .. k}]
    BY <1>1
  <2>2. bytes \in Seq({bytes[x] : x \in 1 .. k})
    BY <2>1, SeqDef
  <2>3. Len(bytes) = k
    BY <1>1, <2>2, LenProperties
  <2> QED
    BY <2>2, <2>3, SMTT(40)
<1>5. \A x \in DOMAIN bytes : bytes[x] = [of |-> bytes[1].of, n |-> Len(bytes), k |-> x]
  BY <1>1, <1>3, <1>4
<1> QED
  BY <1>3, <1>4, <1>5 DEF IsStored

\* Without deduplication no first stream comes again.
LEMMA NoneAgain ==
  ASSUME NEW u, NEW d, DDRight(u, d), ~u.dedup, NEW z \in 1 .. Len(d.firsts)
  PROVE  ~(d.firsts[z].count > 0)
<1>1. d.dups = <<>> /\ FirstsRight(d)
  BY DEF DDRight
<1>2. Len(d.dups) = 0
  BY <1>1
<1>3. Copies(d, z, 0) = {}
  BY <1>2 DEF Copies
<1>4. Cardinality(Copies(d, z, 0)) = 0
  BY <1>3, FS_EmptySet
<1> QED
  BY <1>1, <1>4 DEF FirstsRight

\* The table names stream i exactly if the decoder wants to keep it.
LEMMA WantedIs ==
  ASSUME DDRight(setup, dd), TableRight(dd, head.list), NEW i \in Nat, NEW p,
         Pointer(head.list, p, i)
  PROVE  /\ Wanted(i, p) <=> Named(head.list, p, i)
         /\ Wanted(i, p) =>
              \E z \in 1 .. Len(dd.firsts) :
                /\ dd.firsts[z].index = i /\ dd.firsts[z].count > 0
                /\ head.list[p].count = dd.firsts[z].count
         /\ ~Wanted(i, p) =>
              \A z \in 1 .. Len(dd.firsts) : dd.firsts[z].index = i => ~(dd.firsts[z].count > 0)
<1>1. FirstsRight(dd)
  BY DEF DDRight
<1>2. /\ \A z \in 1 .. Len(dd.firsts) :
           dd.firsts[z].index = i /\ dd.firsts[z].count > 0 =>
             Named(head.list, p, i) /\ head.list[p].count = dd.firsts[z].count
      /\ Named(head.list, p, i) =>
           \E z \in 1 .. Len(dd.firsts) : dd.firsts[z].index = i /\ dd.firsts[z].count > 0
  BY <1>1, NamedIs
<1>3. CASE setup.dedup
  BY <1>2, <1>3 DEF Wanted
<1>4. CASE ~setup.dedup
  BY <1>2, <1>4, NoneAgain DEF Wanted
<1> QED
  BY <1>3, <1>4

\* The k bytes behind the first a bytes of the input reach up to c.
Reaches(u, a, k, c) ==
  /\ u.file.bytes \in Seq(Int) /\ a \in Nat /\ k \in Nat /\ c = a + k
  /\ c <= Len(u.file.bytes)

\* What is written behind the first a bytes of the input.
LEMMA PartsFrom0 ==
  ASSUME NEW u, NEW a, NEW k, NEW c, Reaches(u, a, k, c)
  PROVE  Part(u, 0, a) \o Part(u, a, k) = Part(u, 0, c)
<1>0. /\ u.file.bytes \in Seq(Int) /\ a \in Nat /\ k \in Nat /\ c = a + k
      /\ c <= Len(u.file.bytes)
  BY DEF Reaches
<1>1. PICK o \in Nat : o = 0
  OBVIOUS
<1>2. PICK N \in Nat : N = Len(u.file.bytes)
  BY <1>0
<1>3. a = o + a /\ o + a + k <= Len(u.file.bytes)
  BY <1>0, <1>1, <1>2
<1>4. Part(u, o, a) \o Part(u, a, k) = Part(u, o, a + k)
  BY <1>0, <1>3, PartJoin
<1> QED
  BY <1>0, <1>1, <1>4

\* The decoder behind stream i.
LEMMA DecRightNext ==
  ASSUME NEW u, NEW d, NEW list, NEW i \in Nat, NEW to \in Nat, NEW n, NEW p, NEW m, NEW y,
         y = DecState(n, Part(u, 0, to), i, p, m), ManagerFits(u, d, m, i + 1, to),
         Pointer(list, p, i + 1)
  PROVE  DecRight(u, d, list, y, i + 1, to) /\ y.next = n
<1>1. y.next = n
  BY DEF DecState, DecRecord
<1>2. i + 1 - 1 = i
  OBVIOUS
<1>3. y = DecState(y.next, Part(u, 0, to), i + 1 - 1, p, m)
  BY <1>1, <1>2
<1> QED
  BY <1>1, <1>3 DEF DecRight

\* One stream decoded: from what is right in front of it to what is right
\* behind it.
LEMMA DecodeOneIs ==
  ASSUME setup.file.bytes \in Seq(Int), DDRight(setup, dd), TableRight(dd, head.list),
         NEW i \in Nat, NEW a \in Nat, NEW x, DecRight(setup, dd, head.list, x, i, a),
         NEW b, NEW j, NEW to \in Nat, StreamRight(setup, dd, b, j, i, a, to),
         NEW y, y = DecodeOne(x, b, j)
  PROVE  DecRight(setup, dd, head.list, y, i + 1, to) /\ y.next = x.next
<1>1. PICK p, m : /\ x = DecState(x.next, Part(setup, 0, a), i - 1, p, m)
                  /\ ManagerHas(dd, m, i) /\ m.total <= a /\ AsForetold(dd, m, i)
                  /\ Len(setup.file.bytes) <= Limit(m.array) /\ Pointer(head.list, p, i)
  BY DEF DecRight, ManagerFits
<1>2. PICK s \in Nat, n \in Nat :
        /\ a <= s /\ n > 0 /\ to = s + n /\ to <= Len(setup.file.bytes)
        /\ b.gaps[j] = Part(setup, a, s - a)
        /\ \/ ReferenceRight(setup, dd, b, j, i, s, n)
           \/ StoredRight(setup, dd, b, j, i, s, n)
  BY DEF StreamRight
<1>3. FirstsRight(dd) /\ DupsRight(dd)
  BY DEF DDRight
<1>4. PICK nx : nx = x.next
  OBVIOUS
<1>5. PICK N \in Nat : N = Len(setup.file.bytes)
  OBVIOUS
<1>6. PICK out : out = Part(setup, 0, a)
  OBVIOUS
<1>7. x = DecState(nx, out, i - 1, p, m)
  BY <1>1, <1>4, <1>6
<1>8. PICK w : w = out \o b.gaps[j]
  OBVIOUS
<1>9. w = Part(setup, 0, s)
  <2>1. PICK g \in Nat : g = s - a
    BY <1>2
  <2>2. s = a + g
    BY <1>2, <2>1
  <2>4. s <= Len(setup.file.bytes)
    BY <1>2, <1>5
  <2>5. Reaches(setup, a, g, s)
    BY <2>2, <2>4 DEF Reaches
  <2>3. Part(setup, 0, a) \o Part(setup, a, g) = Part(setup, 0, s)
    BY <2>5, PartsFrom0, Zenon
  <2> QED
    BY <1>2, <1>6, <1>8, <2>1, <2>3
<1>10. PICK key : key = Part(setup, s, n)
  OBVIOUS
<1>11. key \in Seq(Int) /\ Len(key) = n
  <2>1. s + n <= Len(setup.file.bytes)
    BY <1>2
  <2> QED
    BY <1>10, <2>1, PartIs
<1>12. w \o key = Part(setup, 0, to)
  <2>1. Reaches(setup, s, n, to)
    BY <1>2 DEF Reaches
  <2>3. Part(setup, 0, s) \o Part(setup, s, n) = Part(setup, 0, to)
    BY <2>1, PartsFrom0, Zenon
  <2> QED
    BY <1>9, <1>10, <2>3
<1>13. PICK h : h = b.headers[j]
  OBVIOUS
<1>14. PICK bytes : bytes = StoredBytes(b, j)
  OBVIOUS
<1>22. PICK o : o = bytes[1].of
  OBVIOUS
<1>23. ASSUME y = WriteOne(x, b, j)
       PROVE  /\ h.dup => RefersTo(y, nx, w, i, p, m, h)
              /\ ~h.dup /\ IsStored(bytes, h) /\ ~Wanted(i, p) => Passes(y, nx, w, i, p, m, o)
              /\ ~h.dup /\ IsStored(bytes, h) /\ Wanted(i, p) =>
                   KeepsWhole(y, nx, w, i, p, m, h, o)
  BY <1>7, <1>8, <1>13, <1>14, <1>22, <1>23, WriteOneIs
<1>24. ASSUME y = RestoreOne(x, b, j)
       PROVE  /\ h.dup /\ ~Wanted(i, p) => RefersTo(y, nx, w, i, p, m, h)
              /\ ~h.dup /\ IsStored(bytes, h) /\ ~Wanted(i, p) => Passes(y, nx, w, i, p, m, o)
              /\ ~h.dup /\ IsStored(bytes, h) /\ Wanted(i, p) =>
                   KeepsPieces(y, nx, w, i, p, m, h, o)
  BY <1>7, <1>8, <1>13, <1>14, <1>22, <1>24, RestoreOneIs
<1>15. y = WriteOne(x, b, j) \/ y = RestoreOne(x, b, j)
  <2>1. x.ok = TRUE /\ x.manager = m
    BY <1>7 DEF DecState, DecRecord
  <2>2. m.ok = TRUE
    BY <1>1 DEF ManagerHas, ManagerRight
  <2> QED
    BY <2>1, <2>2 DEF DecodeOne
<1>16. PICK T \in Nat : T = m.total
  BY <1>1 DEF ManagerHas, ManagerRight
<1>17. PICK L \in Nat : L = Limit(m.array)
  <2>1. ArrayRight(m.array)
    BY <1>1 DEF ManagerHas, ManagerRight
  <2> QED
    BY <2>1, HeldNat
<1>18. T <= a /\ a <= s /\ T + n <= to /\ to <= N /\ N <= L
  BY <1>1, <1>2, <1>5, <1>16, <1>17
<1>19. ASSUME NEW k \in Nat, k <= n, NEW t, StillFits(dd, t, m, i, k)
       PROVE  ManagerFits(setup, dd, t, i + 1, to)
  <2>1. /\ ManagerHas(dd, t, i + 1) /\ t.total <= m.total + k /\ Limit(t.array) = Limit(m.array)
        /\ RoomsTurn(dd, t, m, i)
    BY <1>19 DEF StillFits
  <2>2. PICK R \in Nat : R = t.total
    BY <2>1 DEF ManagerHas, ManagerRight
  <2>3. R <= T + k
    BY <1>16, <2>1, <2>2
  <2>4. R <= to
    BY <1>18, <1>19, <2>3
  <2>5. AsForetold(dd, t, i + 1)
    BY <1>1, <2>1, RoomsForetold
  <2> QED
    BY <1>5, <1>17, <1>18, <2>1, <2>2, <2>4, <2>5 DEF ManagerFits
<1>20. CASE ReferenceRight(setup, dd, b, j, i, s, n)
  <2>1. PICK q \in 1 .. Len(dd.dups) :
          /\ dd.dups[q].stream = i
          /\ h.option = dd.firsts[dd.dups[q].first].index
          /\ dd.firsts[dd.dups[q].first].key = key
    BY <1>10, <1>13, <1>20 DEF ReferenceRight
  <2>2. h.dup
    BY <1>13, <1>20 DEF ReferenceRight
  <2>3. \A z \in 1 .. Len(dd.firsts) : dd.firsts[z].index # i
    BY <1>3, <2>1 DEF DupsRight
  <2>4. ~Wanted(i, p) /\ ~Named(head.list, p, i)
    BY <1>1, <2>3, WantedIs
  <2>5. PICK r : r = CopyData(m, h.option) /\ y = DecState(nx, w \o r.bytes, i, p, r.manager)
    <3>1. RefersTo(y, nx, w, i, p, m, h)
      BY <1>15, <1>23, <1>24, <2>2, <2>4
    <3> QED
      BY <3>1 DEF RefersTo
  <2>6. r.bytes = key /\ StillFits(dd, r.manager, m, i, 0)
    <3>1. PICK z : z = dd.dups[q].first
      OBVIOUS
    <3>2. r = CopyData(m, dd.firsts[z].index)
      BY <2>1, <2>5, <3>1, Zenon
    <3>5. i = dd.dups[q].stream
      BY <2>1
    <3>4. ManagerHas(dd, m, i)
      BY <1>1
    <3>3. CopiedFor(r, dd, z, m, i)
      BY <3>1, <3>2, <3>4, <3>5, CopiedIs
    <3> QED
      BY <2>1, <3>1, <3>3 DEF CopiedFor
  <2>7. PICK t : t = r.manager
    OBVIOUS
  <2>8. y = DecState(nx, Part(setup, 0, to), i, p, t)
    BY <1>12, <2>5, <2>6, <2>7
  <2>9. ManagerFits(setup, dd, t, i + 1, to)
    BY <1>19, <2>6, <2>7
  <2>10. Pointer(head.list, p, i + 1)
    BY <1>1, <2>4, PointerMoves
  <2> QED
    BY <1>4, <2>8, <2>9, <2>10, DecRightNext, SMTT(60)
<1>21. CASE StoredRight(setup, dd, b, j, i, s, n)
  <2>1. ~h.dup /\ h.old = n
    BY <1>13, <1>21 DEF StoredRight
  <2>2. IsStored(bytes, h) /\ bytes[1].of = key
    <3>1. PICK k \in Nat : /\ k > 0
                           /\ bytes = [z \in 1 .. k |-> [of |-> key, n |-> k, k |-> z]]
      BY <1>10, <1>14, <1>21 DEF StoredRight
    <3> QED
      <4>1. h.old = Len(key) /\ key \in Seq(Int)
        BY <1>11, <2>1
      <4> QED
        BY <3>1, <4>1, StoredIs
  <2>3. /\ \A q \in 1 .. Len(dd.dups) : dd.dups[q].stream # i
        /\ setup.dedup =>
             \E z \in 1 .. Len(dd.firsts) : dd.firsts[z].index = i /\ dd.firsts[z].key = key
    BY <1>10, <1>21 DEF StoredRight
  <2>4. CASE ~Wanted(i, p)
    <3>1. Passes(y, nx, w, i, p, m, o)
      BY <1>15, <1>23, <1>24, <2>1, <2>2, <2>4
    <3>2. y = DecState(nx, Part(setup, 0, to), i, p, m)
      BY <1>12, <1>22, <2>2, <3>1 DEF Passes
    <3>3. ManagerHas(dd, m, i + 1) /\ AsForetold(dd, m, i + 1)
      <4>1. \A z \in 1 .. Len(dd.firsts) : dd.firsts[z].index = i => ~(dd.firsts[z].count > 0)
        BY <1>1, <2>4, WantedIs
      <4>2. ManagerHas(dd, m, i + 1)
        BY <1>1, <2>3, <4>1, HasNothingNew
      <4>3. AsForetold(dd, m, i + 1)
        BY <1>1, <2>3, <4>1, StillForetold
      <4> QED
        BY <4>2, <4>3
    <3>4. Pointer(head.list, p, i + 1)
      <4>1. ~Named(head.list, p, i)
        BY <1>1, <2>4, WantedIs
      <4> QED
        BY <1>1, <4>1, PointerMoves
    <3>5. m.total <= to
      BY <1>16, <1>18
    <3>6. ManagerFits(setup, dd, m, i + 1, to)
      BY <1>1, <3>3, <3>5 DEF ManagerFits
    <3> QED
      BY <1>4, <3>2, <3>4, <3>6, DecRightNext
  <2>5. CASE Wanted(i, p)
    <3>1. Named(head.list, p, i) /\ setup.dedup
      BY <2>5 DEF Wanted
    <3>2. PICK z \in 1 .. Len(dd.firsts) :
            /\ dd.firsts[z].index = i /\ dd.firsts[z].count > 0
            /\ head.list[p].count = dd.firsts[z].count
      BY <1>1, <2>5, WantedIs
    <3>3. dd.firsts[z].key = key
      BY <1>3, <2>3, <3>1, <3>2, SameFirst
    <3>4. m.total + n <= Limit(m.array)
      <4>1. T + n <= L
        BY <1>18
      <4> QED
        BY <1>16, <1>17, <4>1
    <3>9. key = dd.firsts[z].key /\ n = Len(key) /\ o = key
      BY <1>11, <1>22, <2>2, <3>3
    <3>5. PICK t : y = DecState(nx, w \o key, i, p + 1, t) /\ StillFits(dd, t, m, i, n)
      <4>1. CASE KeepsWhole(y, nx, w, i, p, m, h, o)
        <5>1. PICK v, t : /\ v = AddBlock(m, i, n, dd.firsts[z].count)
                          /\ t = WriteToBlock(v, i, key)
                          /\ y = DecState(nx, w \o key, i, p + 1, t)
          BY <2>1, <3>2, <3>9, <4>1 DEF KeepsWhole
        <5>2. StillFits(dd, t, m, i, n)
          BY <1>1, <3>2, <3>4, <3>9, <5>1, KeepOnce
        <5> QED
          BY <5>1, <5>2
      <4>2. CASE KeepsPieces(y, nx, w, i, p, m, h, o)
        <5>1. PICK v, r, t : /\ v = AddBlock(m, i, n, dd.firsts[z].count)
                             /\ r = WriteToBlock(v, i, SubSeq(key, 1, 1))
                             /\ t = WriteToBlock(r, i, SubSeq(key, 2, n))
                             /\ y = DecState(nx, w \o key, i, p + 1, t)
          BY <2>1, <3>2, <3>9, <4>2 DEF KeepsPieces
        <5>2. StillFits(dd, t, m, i, n)
          BY <1>1, <3>2, <3>4, <3>9, <5>1, KeepTwice
        <5> QED
          BY <5>1, <5>2
      <4> QED
        BY <1>15, <1>23, <1>24, <2>1, <2>2, <2>5, <4>1, <4>2
    <3>6. ManagerFits(setup, dd, t, i + 1, to)
      <4>1. n <= n
        OBVIOUS
      <4> QED
        BY <1>19, <3>5, <4>1
    <3>7. PICK e : e = p + 1
      OBVIOUS
    <3>8. Pointer(head.list, e, i + 1)
      BY <1>1, <3>1, <3>7, PointerMoves
    <3>10. y = DecState(nx, Part(setup, 0, to), i, e, t)
      BY <1>12, <3>5, <3>7
    <3>11. PICK v : v = y
      OBVIOUS
    <3>12. v = DecState(nx, Part(setup, 0, to), i, e, t)
      BY <3>10, <3>11
    <3>13. DecRight(setup, dd, head.list, v, i + 1, to) /\ v.next = nx
      BY <3>6, <3>8, <3>12, DecRightNext
    <3> QED
      BY <1>4, <3>11, <3>13
  <2> QED
    BY <2>4, <2>5
<1> QED
  BY <1>2, <1>20, <1>21

-----------------------------------------------------------------------------
(* A block, decoded *)

\* The decoder behind each stream of block b.
AfterStreams(d, b) ==
  LET after[j \in 0 .. Len(b.headers)] ==
        IF j = 0 THEN d ELSE DecodeOne(after[j - 1], b, j)
  IN after

\* DecChunk's loop, stream by stream.
LEMMA AfterStreamsOf ==
  ASSUME NEW d, NEW b, Len(b.headers) \in Nat
  PROVE  /\ AfterStreams(d, b)[0] = d
         /\ \A i \in 1..Len(b.headers) : AfterStreams(d, b)[i] = DecodeOne(AfterStreams(d, b)[i - 1], b, i)
<1> DEFINE Solves(g, k) ==
             g = [i \in 0..k |-> IF i = 0 THEN d ELSE DecodeOne(g[i - 1], b, i)]
           None == {k \in Nat : ~\E g : Solves(g, k)}
<1>1. None = {}
  <2> SUFFICES ASSUME None # {} PROVE FALSE
    OBVIOUS
  <2>1. PICK k \in None : \A m \in None : k <= m
    BY LeastNumber
  <2>2. k # 0
    <3>1. Solves([i \in 0..0 |-> d], 0)
      OBVIOUS
    <3> HIDE DEF Solves
    <3> QED
      BY <3>1, <2>1
  <2>3. k - 1 \in Nat /\ ~(k <= k - 1)
    BY <2>1, <2>2
  <2>4. PICK g : Solves(g, k - 1)
    BY <2>1, <2>3
  <2> DEFINE h == [i \in 0..k |-> IF i = k THEN DecodeOne(g[k - 1], b, k) ELSE g[i]]
  <2>5. Solves(h, k)
    <3>1. \A i \in 0..(k - 1) : h[i] = g[i] /\ i \in 0..k
      BY <2>3
    <3>2. ASSUME NEW i \in 0..k
          PROVE  h[i] = IF i = 0 THEN d ELSE DecodeOne(h[i - 1], b, i)
      <4>1. CASE i = k
        BY <4>1, <3>1, <2>2, <2>3
      <4>2. CASE i # k
        <5>1. i \in 0..(k - 1) /\ (i # 0 => i - 1 \in 0..(k - 1))
          BY <4>2, <2>3
        <5>2. g[i] = IF i = 0 THEN d ELSE DecodeOne(g[i - 1], b, i)
          BY <5>1, <2>4
        <5> HIDE DEF h
        <5> QED
          BY <5>1, <5>2, <3>1
      <4> QED
        BY <4>1, <4>2
    <3>3. h = [i \in 0..k |-> h[i]]
      OBVIOUS
    <3> HIDE DEF h
    <3> QED
      BY <3>2, <3>3
  <2> HIDE DEF h, Solves
  <2> QED
    BY <2>5, <2>1
<1>2. PICK g : Solves(g, Len(b.headers))
  BY <1>1
<1> DEFINE e == AfterStreams(d, b)
<1>3. Solves(e, Len(b.headers))
  BY <1>2 DEF AfterStreams
<1> HIDE DEF e
<1>4. e[0] = d /\ \A i \in 1..Len(b.headers) : e[i] = DecodeOne(e[i - 1], b, i)
  <2>1. \A i \in 1..Len(b.headers) : i \in 0..Len(b.headers) /\ i # 0
    OBVIOUS
  <2>2. 0 \in 0..Len(b.headers)
    OBVIOUS
  <2> QED
    BY <1>3, <2>1, <2>2
<1> QED
  BY <1>4 DEF e

\* Block b starts with stream i behind the first a bytes of the input and ends
\* behind the first c.
BlockRight(u, d, b, a, i, c) ==
  /\ Len(b.headers) \in Nat /\ c <= Len(u.file.bytes)
  /\ \E E \in [0 .. Len(b.headers) -> Nat] :
       /\ E[0] = a /\ E[Len(b.headers)] <= c
       /\ \A j \in 1 .. Len(b.headers) : StreamRight(u, d, b, j, i + j - 1, E[j - 1], E[j])
       /\ b.tail = Part(u, E[Len(b.headers)], c - E[Len(b.headers)])

\* A block is decoded to the bytes of the input it stands for.
LEMMA DecodedIs ==
  ASSUME setup.file.bytes \in Seq(Int), DDRight(setup, dd), TableRight(dd, head.list),
         NEW i \in Nat, NEW a \in Nat, NEW c \in Nat, NEW x,
         DecRight(setup, dd, head.list, x, i, a),
         NEW b, BlockRight(setup, dd, b, a, i, c), NEW y, y = Decoded(x, b),
         NEW k, k = i + Len(b.headers)
  PROVE  DecRight(setup, dd, head.list, y, k, c) /\ y.next = x.next + 1
<1> DEFINE n == Len(b.headers)
<1>1. n \in Nat /\ c <= Len(setup.file.bytes)
  BY DEF BlockRight
<1>2. PICK E \in [0 .. n -> Nat] :
        /\ E[0] = a /\ E[n] <= c
        /\ \A j \in 1 .. n : StreamRight(setup, dd, b, j, i + j - 1, E[j - 1], E[j])
        /\ b.tail = Part(setup, E[n], c - E[n])
  BY DEF BlockRight
<1> DEFINE z == AfterStreams(x, b)
<1>3. z[0] = x /\ \A j \in 1 .. n : z[j] = DecodeOne(z[j - 1], b, j)
  BY <1>1, AfterStreamsOf
<1>4. y = [Writing(z[n], b.tail) EXCEPT !.next = @ + 1]
  BY DEF Decoded, AfterStreams
<1> HIDE DEF n, z
<1> DEFINE Good(j) == DecRight(setup, dd, head.list, z[j], i + j, E[j]) /\ z[j].next = x.next
           Bad == {j \in Nat : j <= n /\ ~Good(j)}
<1>5. Bad = {}
  <2> SUFFICES ASSUME Bad # {} PROVE FALSE
    OBVIOUS
  <2>1. PICK j \in Bad : \A m \in Bad : j <= m
    BY LeastNumber
  <2>2. j # 0
    <3>1. i + 0 = i
      OBVIOUS
    <3>2. Good(0)
      BY <1>2, <1>3, <3>1
    <3> HIDE DEF Good
    <3> QED
      BY <2>1, <3>2
  <2>3. j \in 1 .. n /\ j - 1 \in Nat /\ j - 1 <= n /\ ~(j <= j - 1)
    BY <1>1, <2>1, <2>2
  <2>4. Good(j - 1)
    <3> HIDE DEF Good
    <3> QED
      BY <2>1, <2>3
  <2>5. PICK s \in Nat : s = i + j - 1
    BY <2>3
  <2>6. i + (j - 1) = s /\ i + j = s + 1
    BY <2>3, <2>5
  <2>7. PICK v : v = z[j - 1]
    OBVIOUS
  <2>8. PICK e \in Nat, f \in Nat : e = E[j - 1] /\ f = E[j]
    <3>1. j - 1 \in 0 .. n /\ j \in 0 .. n
      BY <2>3
    <3> QED
      BY <1>2, <3>1
  <2>9. DecRight(setup, dd, head.list, v, s, e) /\ v.next = x.next
    BY <2>4, <2>6, <2>7, <2>8
  <2>10. StreamRight(setup, dd, b, j, s, e, f)
    BY <1>2, <2>3, <2>5, <2>8
  <2>11. PICK w : w = z[j]
    OBVIOUS
  <2>12. w = DecodeOne(v, b, j)
    BY <1>3, <2>3, <2>7, <2>11
  <2>13. DecRight(setup, dd, head.list, w, s + 1, f) /\ w.next = v.next
    BY <2>9, <2>10, <2>12, DecodeOneIs
  <2>14. Good(j)
    BY <2>6, <2>8, <2>9, <2>11, <2>13
  <2> HIDE DEF Good
  <2> QED
    BY <2>1, <2>14
<1>6. Good(n)
  <2> HIDE DEF Good
  <2>1. n \in Nat /\ n <= n
    BY <1>1
  <2> QED
    BY <1>5, <2>1
<1>7. PICK e \in Nat : e = E[n]
  BY <1>1, <1>2
<1>8. k = i + n
  BY DEF n
<1>9. PICK v : v = z[n]
  OBVIOUS
<1>10. DecRight(setup, dd, head.list, v, k, e) /\ v.next = x.next
  BY <1>6, <1>7, <1>8, <1>9
<1>11. PICK p, m : /\ v = DecState(v.next, Part(setup, 0, e), k - 1, p, m)
                   /\ ManagerFits(setup, dd, m, k, e) /\ Pointer(head.list, p, k)
  BY <1>10 DEF DecRight
<1>12. PICK out : out = Part(setup, 0, e)
  OBVIOUS
<1>13. PICK q : q = v.next
  OBVIOUS
<1>14. v = DecState(q, out, k - 1, p, m)
  BY <1>11, <1>12, <1>13
<1>15. PICK g \in Nat : g = c - e
  BY <1>2, <1>7
<1>16. out \o Part(setup, e, g) = Part(setup, 0, c)
  <2>1. c = e + g
    BY <1>7, <1>15
  <2>2. Reaches(setup, e, g, c)
    BY <1>1, <2>1 DEF Reaches
  <2> QED
    BY <1>12, <2>2, PartsFrom0
<1>17. b.tail = Part(setup, e, g)
  BY <1>2, <1>7, <1>15
<1>18. PICK w : w = DecState(q, Part(setup, 0, c), k - 1, p, m)
  OBVIOUS
<1>19. Writing(v, b.tail) = w
  <2>1. PICK r : r = out \o b.tail
    OBVIOUS
  <2>2. Writing(v, b.tail) = DecState(q, r, k - 1, p, m)
    BY <1>14, <2>1, WritingIs
  <2>3. r = Part(setup, 0, c)
    BY <1>16, <1>17, <2>1
  <2> QED
    BY <1>18, <2>2, <2>3
<1>20. w.next = q
  BY <1>18 DEF DecState, DecRecord
<1>21. y = NextSet(w, q + 1)
  <2>1. y = [w EXCEPT !.next = @ + 1]
    BY <1>4, <1>9, <1>19
  <2> QED
    BY <1>20, <2>1 DEF NextSet
<1>22. PICK r : r = q + 1
  OBVIOUS
<1>23. y = DecState(r, Part(setup, 0, c), k - 1, p, m)
  BY <1>18, <1>21, <1>22, StateWith
<1>24. ManagerFits(setup, dd, m, k, c)
  <2>1. /\ ManagerHas(dd, m, k) /\ m.total <= e /\ Len(setup.file.bytes) <= Limit(m.array)
        /\ AsForetold(dd, m, k)
    BY <1>11 DEF ManagerFits
  <2>2. PICK T \in Nat : T = m.total
    BY <2>1 DEF ManagerHas, ManagerRight
  <2>3. m.total <= c
    BY <1>2, <1>7, <2>1, <2>2
  <2> QED
    BY <2>1, <2>3 DEF ManagerFits
<1>25. y.next = r
  BY <1>23 DEF DecState, DecRecord
<1>26. DecRight(setup, dd, head.list, y, k, c)
  <2>1. y = DecState(y.next, Part(setup, 0, c), k - 1, p, m)
    BY <1>23, <1>25
  <2> QED
    BY <1>11, <1>24, <2>1 DEF DecRight
<1> QED
  BY <1>10, <1>13, <1>22, <1>25, <1>26

-----------------------------------------------------------------------------
(* Streams that have been numbered *)

\* A sequence, whatever it is of.
IsList(s) == \E S : s \in Seq(S)

\* List t has e behind what s has.
Longer(s, e, t) ==
  /\ IsList(t) /\ Len(s) \in Nat /\ Len(t) = Len(s) + 1 /\ t[Len(s) + 1] = e
  /\ \A j \in 1 .. Len(s) : t[j] = s[j]

\* A list with one more element.
LEMMA AppendedIs ==
  ASSUME NEW s, IsList(s), NEW e, NEW t, t = Append(s, e)
  PROVE  Longer(s, e, t)
<1>1. PICK S : s \in Seq(S)
  BY DEF IsList
<1>2. PICK T : T = S \cup {e}
  OBVIOUS
<1>3. PICK n \in Nat : n = Len(s)
  BY <1>1
<1>4. s \in Seq(T)
  <2>1. s \in [1 .. n -> S]
    BY <1>1, <1>3
  <2>2. s \in [1 .. n -> T]
    BY <1>2, <2>1
  <2> QED
    BY <2>2, SeqDef
<1>5. e \in T
  BY <1>2
<1>6. /\ t \in Seq(T) /\ Len(t) = Len(s) + 1
      /\ \A j \in 1 .. Len(s) : t[j] = s[j]
      /\ t[Len(s) + 1] = e
  BY <1>4, <1>5, AppendProperties
<1> QED
  BY <1>3, <1>6 DEF IsList, Longer

\* The empty list.
LEMMA NoneIsList == IsList(<<>>) /\ Len(<<>>) = 0
BY DEF IsList

\* What is numbered later leaves earlier streams as they are.
Grown(d, w) ==
  /\ d.streams \in Nat /\ w.streams \in Nat /\ d.streams <= w.streams
  /\ Len(d.firsts) \in Nat /\ Len(w.firsts) \in Nat /\ Len(d.firsts) <= Len(w.firsts)
  /\ \A z \in 1 .. Len(d.firsts) :
       w.firsts[z].index = d.firsts[z].index /\ w.firsts[z].key = d.firsts[z].key
  /\ Len(d.dups) \in Nat /\ Len(w.dups) \in Nat /\ Len(d.dups) <= Len(w.dups)
  /\ \A q \in 1 .. Len(d.dups) : w.dups[q] = d.dups[q]
  /\ \A q \in 1 .. Len(w.dups) : q > Len(d.dups) => w.dups[q].stream >= d.streams
  /\ \A q \in 1 .. Len(d.dups) : d.dups[q].first \in 1 .. Len(d.firsts)

\* Nothing is added.
LEMMA GrownSame ==
  ASSUME NEW u, NEW d, DDRight(u, d), NEW w,
         w.firsts = d.firsts, w.dups = d.dups, w.streams = d.streams
  PROVE  Grown(d, w)
<1>1. Len(d.firsts) \in Nat /\ Len(d.dups) \in Nat /\ d.streams \in Nat
  BY DEF DDRight, FirstsRight, DupsRight
<1>2. \A q \in 1 .. Len(d.dups) : d.dups[q].first \in 1 .. Len(d.firsts)
  BY DEF DDRight, DupsRight
<1> QED
  BY <1>1, <1>2 DEF Grown

\* Growing is transitive.
LEMMA GrownTwice ==
  ASSUME NEW d, NEW v, NEW w, Grown(d, v), Grown(v, w), DupsRight(w)
  PROVE  Grown(d, w)
<1>1. /\ d.streams \in Nat /\ v.streams \in Nat /\ w.streams \in Nat
      /\ d.streams <= v.streams /\ v.streams <= w.streams
      /\ Len(d.firsts) \in Nat /\ Len(v.firsts) \in Nat /\ Len(w.firsts) \in Nat
      /\ Len(d.firsts) <= Len(v.firsts) /\ Len(v.firsts) <= Len(w.firsts)
      /\ Len(d.dups) \in Nat /\ Len(v.dups) \in Nat /\ Len(w.dups) \in Nat
      /\ Len(d.dups) <= Len(v.dups) /\ Len(v.dups) <= Len(w.dups)
  BY DEF Grown
<1>2. ASSUME NEW z \in 1 .. Len(d.firsts)
      PROVE  w.firsts[z].index = d.firsts[z].index /\ w.firsts[z].key = d.firsts[z].key
  <2>1. z \in 1 .. Len(v.firsts)
    BY <1>1
  <2>2. v.firsts[z].index = d.firsts[z].index /\ v.firsts[z].key = d.firsts[z].key
    BY DEF Grown
  <2>3. w.firsts[z].index = v.firsts[z].index /\ w.firsts[z].key = v.firsts[z].key
    BY <2>1 DEF Grown
  <2> QED
    BY <2>2, <2>3
<1>3. ASSUME NEW q \in 1 .. Len(d.dups)
      PROVE  w.dups[q] = d.dups[q]
  <2>1. q \in 1 .. Len(v.dups)
    BY <1>1
  <2>2. v.dups[q] = d.dups[q]
    BY DEF Grown
  <2>3. w.dups[q] = v.dups[q]
    BY <2>1 DEF Grown
  <2> QED
    BY <2>2, <2>3
<1>4. ASSUME NEW q \in 1 .. Len(w.dups), q > Len(d.dups)
      PROVE  w.dups[q].stream >= d.streams
  <2>0. w.dups[q].stream \in Nat
    BY DupIs
  <2>1. CASE q <= Len(v.dups)
    <3>1. q \in 1 .. Len(v.dups)
      BY <1>1, <2>1
    <3>2. w.dups[q] = v.dups[q]
      BY <3>1 DEF Grown
    <3>3. v.dups[q].stream >= d.streams
      BY <1>4, <3>1 DEF Grown
    <3> QED
      BY <3>2, <3>3
  <2>2. CASE q > Len(v.dups)
    <3>1. w.dups[q].stream >= v.streams
      BY <2>2 DEF Grown
    <3> QED
      BY <1>1, <2>0, <3>1
  <2> QED
    BY <1>1, <2>1, <2>2
<1>5. \A q \in 1 .. Len(d.dups) : d.dups[q].first \in 1 .. Len(d.firsts)
  BY DEF Grown
<1>6. d.streams <= w.streams /\ Len(d.firsts) <= Len(w.firsts) /\ Len(d.dups) <= Len(w.dups)
  BY <1>1
<1> QED
  BY <1>1, <1>2, <1>3, <1>4, <1>5, <1>6 DEF Grown

\* A stream that was numbered before stays right as the lists grow.
LEMMA StreamGrown ==
  ASSUME NEW d, NEW w, Grown(d, w), NEW u, NEW b, NEW j, NEW i \in Nat, i < d.streams,
         NEW a, NEW to, StreamRight(u, d, b, j, i, a, to)
  PROVE  StreamRight(u, w, b, j, i, a, to)
<1>1. PICK s \in Nat, n \in Nat :
        /\ a <= s /\ n > 0 /\ to = s + n /\ to <= Len(u.file.bytes)
        /\ b.gaps[j] = Part(u, a, s - a)
        /\ \/ ReferenceRight(u, d, b, j, i, s, n)
           \/ StoredRight(u, d, b, j, i, s, n)
  BY DEF StreamRight
<1>2. /\ d.streams \in Nat /\ Len(d.firsts) \in Nat /\ Len(w.firsts) \in Nat
      /\ Len(d.firsts) <= Len(w.firsts)
      /\ Len(d.dups) \in Nat /\ Len(w.dups) \in Nat /\ Len(d.dups) <= Len(w.dups)
  BY DEF Grown
<1>3. CASE ReferenceRight(u, d, b, j, i, s, n)
  <2>1. PICK q \in 1 .. Len(d.dups) :
          /\ d.dups[q].stream = i
          /\ b.headers[j].option = d.firsts[d.dups[q].first].index
          /\ d.firsts[d.dups[q].first].key = Part(u, s, n)
    BY <1>3 DEF ReferenceRight
  <2>2. w.dups[q] = d.dups[q] /\ d.dups[q].first \in 1 .. Len(d.firsts)
    BY DEF Grown
  <2>3. PICK z \in 1 .. Len(d.firsts) : z = d.dups[q].first
    BY <2>2
  <2>4. w.firsts[z].index = d.firsts[z].index /\ w.firsts[z].key = d.firsts[z].key
    BY DEF Grown
  <2>5. q \in 1 .. Len(w.dups)
    BY <1>2
  <2>6. /\ w.dups[q].stream = i
        /\ b.headers[j].option = w.firsts[w.dups[q].first].index
        /\ w.firsts[w.dups[q].first].key = Part(u, s, n)
    BY <2>1, <2>2, <2>3, <2>4
  <2>7. b.headers[j].dup = TRUE
    BY <1>3 DEF ReferenceRight
  <2>8. ReferenceRight(u, w, b, j, i, s, n)
    BY <2>5, <2>6, <2>7 DEF ReferenceRight
  <2> QED
    BY <1>1, <2>8 DEF StreamRight
<1>4. CASE StoredRight(u, d, b, j, i, s, n)
  <2>1. ASSUME NEW q \in 1 .. Len(w.dups) PROVE w.dups[q].stream # i
    <3>1. CASE q <= Len(d.dups)
      <4>1. q \in 1 .. Len(d.dups)
        BY <1>2, <3>1
      <4>2. w.dups[q] = d.dups[q]
        BY <4>1 DEF Grown
      <4>3. d.dups[q].stream # i
        BY <1>4, <4>1 DEF StoredRight
      <4> QED
        BY <4>2, <4>3
    <3>2. CASE q > Len(d.dups)
      <4>1. w.dups[q].stream >= d.streams
        BY <3>2 DEF Grown
      <4> QED
        BY <1>2, <4>1
    <3> QED
      BY <1>2, <3>1, <3>2
  <2>2. ASSUME u.dedup
        PROVE  \E z \in 1 .. Len(w.firsts) : w.firsts[z].index = i /\ w.firsts[z].key = Part(u, s, n)
    <3>1. PICK z \in 1 .. Len(d.firsts) : d.firsts[z].index = i /\ d.firsts[z].key = Part(u, s, n)
      BY <1>4, <2>2 DEF StoredRight
    <3>2. w.firsts[z].index = d.firsts[z].index /\ w.firsts[z].key = d.firsts[z].key
      BY DEF Grown
    <3>3. z \in 1 .. Len(w.firsts)
      BY <1>2
    <3> QED
      BY <3>1, <3>2, <3>3
  <2>3. StoredRight(u, w, b, j, i, s, n)
    BY <1>4, <2>1, <2>2 DEF StoredRight
  <2> QED
    BY <1>1, <2>3 DEF StreamRight
<1> QED
  BY <1>1, <1>3, <1>4

\* A block that was written before stays right as the lists grow.
LEMMA BlockGrown ==
  ASSUME NEW d, NEW w, Grown(d, w), NEW u, NEW b, NEW i \in Nat, i + Len(b.headers) <= d.streams,
         NEW a, NEW c, BlockRight(u, d, b, a, i, c)
  PROVE  BlockRight(u, w, b, a, i, c)
<1>1. PICK n \in Nat : n = Len(b.headers)
  BY DEF BlockRight
<1>2. PICK E \in [0 .. n -> Nat] :
        /\ E[0] = a /\ E[n] <= c
        /\ \A j \in 1 .. n : StreamRight(u, d, b, j, i + j - 1, E[j - 1], E[j])
        /\ b.tail = Part(u, E[n], c - E[n])
  BY <1>1 DEF BlockRight
<1>3. ASSUME NEW j \in 1 .. n
      PROVE  StreamRight(u, w, b, j, i + j - 1, E[j - 1], E[j])
  <2>1. PICK k \in Nat : k = i + j - 1
    OBVIOUS
  <2>2. k < d.streams
    <3>1. d.streams \in Nat
      BY DEF Grown
    <3> QED
      BY <1>1, <2>1, <3>1
  <2>3. StreamRight(u, d, b, j, k, E[j - 1], E[j])
    BY <1>2, <2>1
  <2>4. StreamRight(u, w, b, j, k, E[j - 1], E[j])
    BY <2>2, <2>3, StreamGrown
  <2> QED
    BY <2>1, <2>4
<1>4. c <= Len(u.file.bytes)
  BY DEF BlockRight
<1> QED
  BY <1>1, <1>2, <1>3, <1>4 DEF BlockRight

-----------------------------------------------------------------------------
(* A stream is numbered *)

\* What FindOrAddDD looks for, and only with deduplication.
LEMMA FirstOfIs ==
  ASSUME NEW d, Len(d.firsts) \in Nat, NEW e, NEW i, i = FirstOf(d, e)
  PROVE  /\ i \in 0 .. Len(d.firsts)
         /\ i # 0 => setup.dedup /\ d.firsts[i].key = e.key
         /\ i = 0 => ~setup.dedup \/ \A z \in 1 .. Len(d.firsts) : d.firsts[z].key # e.key
<1> DEFINE I == {z \in 1 .. Len(d.firsts) : d.firsts[z].key = e.key}
<1>1. i = IF setup.dedup THEN (IF I # {} THEN Min(I) ELSE 0) ELSE 0
  BY DEF FirstOf, SelectInSeq
<1>2. I # {} => Min(I) \in I
  <2>1. I \subseteq 1 .. Len(d.firsts)
    OBVIOUS
  <2> HIDE DEF I
  <2> QED
    BY <2>1, LeastPlace
<1>3. CASE setup.dedup /\ I # {}
  <2>1. i \in I
    BY <1>1, <1>2, <1>3
  <2>2. i # 0
    BY <2>1
  <2> QED
    BY <1>3, <2>1, <2>2
<1>4. CASE setup.dedup /\ I = {}
  BY <1>1, <1>4
<1>5. CASE ~setup.dedup
  BY <1>1, <1>5
<1> QED
  BY <1>3, <1>4, <1>5

\* The lists of the deduplication, from their fields.
DDRecord(f, p, s, w) == [firsts |-> f, dups |-> p, streams |-> s, written |-> w]

\* A stream that is new, and one that comes again.
FirstRecord(key, i, n) == [key |-> key, index |-> i, count |-> n]
DupRecord(i, z) == [stream |-> i, first |-> z]

\* The first stream of these bytes, and one that comes again.
FirstAdded(d, e, w) ==
  \E f : /\ f = Append(d.firsts, FirstRecord(e.key, d.streams, 0))
         /\ w = DDRecord(f, d.dups, d.streams + 1, d.written)
\* The entry e is a copy of the i-th stream that was new.
DupAdded(d, i, w) ==
  \E f, p : /\ f = [d.firsts EXCEPT ![i].count = @ + 1]
            /\ p = Append(d.dups, DupRecord(d.streams, i))
            /\ w = DDRecord(f, p, d.streams + 1, d.written)

\* The lists, and the number of streams, become others.
DDSet(d, x, y, z) == [d EXCEPT !.streams = z, !.firsts = x, !.dups = y]

\* What changing the fields does.
LEMMA DDSetIs ==
  ASSUME NEW f, NEW p, NEW s, NEW v, NEW x, NEW y, NEW z
  PROVE  DDSet(DDRecord(f, p, s, v), x, y, z) = DDRecord(x, y, z, v)
<1>1. PICK d : d = DDRecord(f, p, s, v)
  OBVIOUS
<1>2. DOMAIN d = {"firsts", "dups", "streams", "written"} /\ d.written = v
  BY <1>1 DEF DDRecord
<1>3. DDSet(d, x, y, z) =
        [k \in DOMAIN d |-> IF k = "dups" THEN y ELSE IF k = "firsts" THEN x
                            ELSE IF k = "streams" THEN z ELSE d[k]]
  BY DEF DDSet
<1>4. DDRecord(x, y, z, v) =
        [k \in {"firsts", "dups", "streams", "written"} |->
           IF k = "dups" THEN y ELSE IF k = "firsts" THEN x ELSE IF k = "streams" THEN z ELSE v]
  BY DEF DDRecord
<1>5. DDSet(d, x, y, z) = DDRecord(x, y, z, v)
  BY <1>2, <1>3, <1>4
<1> QED
  BY <1>1, <1>5

\* FindOrAddDD, case by case.
LEMMA FindOrAddIs ==
  ASSUME NEW d, d = DDRecord(d.firsts, d.dups, d.streams, d.written), NEW e,
         NEW i, i = FirstOf(d, e), NEW w, w = FindOrAdd(d, e)
  PROVE  /\ i = 0 => FirstAdded(d, e, w)
         /\ i # 0 => DupAdded(d, i, w)
<1>1. PICK f, p, s, v : f = d.firsts /\ p = d.dups /\ s = d.streams /\ v = d.written
  OBVIOUS
<1>2. d = DDRecord(f, p, s, v)
  BY <1>1
<1>3. \A x, y, z : DDSet(d, x, y, z) = DDRecord(x, y, z, v)
  BY <1>2, DDSetIs
<1>7. /\ d.streams = s /\ d.firsts = f /\ d.dups = p
  BY <1>1
<1>8. w = [d EXCEPT !.streams = @ + 1,
             !.firsts = IF i = 0 THEN Append(@, FirstRecord(e.key, d.streams, 0))
                        ELSE [d.firsts EXCEPT ![i].count = @ + 1],
             !.dups = IF i = 0 THEN @ ELSE Append(@, DupRecord(d.streams, i))]
  BY DEF FindOrAdd, FirstRecord, DupRecord
<1>4. \E x, y, z :
        /\ x = IF i = 0 THEN Append(d.firsts, FirstRecord(e.key, d.streams, 0))
               ELSE [d.firsts EXCEPT ![i].count = @ + 1]
        /\ y = IF i = 0 THEN d.dups ELSE Append(d.dups, DupRecord(d.streams, i))
        /\ z = d.streams + 1
        /\ w = DDSet(d, x, y, z)
  BY <1>8, Zenon DEF DDSet
<1>5. PICK x, y, z :
        /\ x = IF i = 0 THEN Append(d.firsts, FirstRecord(e.key, d.streams, 0))
               ELSE [d.firsts EXCEPT ![i].count = @ + 1]
        /\ y = IF i = 0 THEN d.dups ELSE Append(d.dups, DupRecord(d.streams, i))
        /\ z = d.streams + 1
        /\ w = DDSet(d, x, y, z)
  BY <1>4
<1>6. w = DDRecord(x, y, z, d.written)
  BY <1>1, <1>3, <1>5
<1>9. i = 0 => FirstAdded(d, e, w)
  BY <1>5, <1>6 DEF FirstAdded
<1>10. i # 0 => DupAdded(d, i, w)
  BY <1>5, <1>6 DEF DupAdded
<1> QED
  BY <1>9, <1>10

\* How stream i, e, has been recorded with header h.
Recorded(u, d, h, e, i) ==
  \/ /\ h.dup = TRUE /\ h.new = 0 /\ u.dedup
     /\ \E q \in 1 .. Len(d.dups) :
          /\ d.dups[q].stream = i /\ h.option = d.firsts[d.dups[q].first].index
          /\ d.firsts[d.dups[q].first].key = e.key
  \/ /\ h.dup = FALSE /\ h.old = e.old /\ h.new = e.new
     /\ \A q \in 1 .. Len(d.dups) : d.dups[q].stream # i
     /\ u.dedup => \E z \in 1 .. Len(d.firsts) : d.firsts[z].index = i /\ d.firsts[z].key = e.key

\* What the list has then.
Numbered(u, d, w) ==
  DDRight(u, w) /\ Grown(d, w) /\ w.streams = d.streams + 1 /\ w.written = d.written
\* The new stream is listed with its bytes.
NewFirst(d, e, w) ==
  /\ \A q \in 1 .. Len(w.dups) : w.dups[q].stream # d.streams
  /\ \E z \in 1 .. Len(w.firsts) : w.firsts[z].index = d.streams /\ w.firsts[z].key = e.key
\* The copy is listed, and names the stream with its bytes.
NewDup(d, i, w) ==
  \E q \in 1 .. Len(w.dups) :
    /\ w.dups[q].stream = d.streams /\ d.firsts[i].index = w.firsts[w.dups[q].first].index
    /\ w.firsts[w.dups[q].first].key = d.firsts[i].key

\* A stream that was not found becomes a new one.
LEMMA FirstAddedIs ==
  ASSUME NEW u, NEW d, DDRight(u, d), NEW e, e.key \in Seq(Int), Len(e.key) > 0,
         u.dedup => \A z \in 1 .. Len(d.firsts) : d.firsts[z].key # e.key,
         NEW w, FirstAdded(d, e, w)
  PROVE  Numbered(u, d, w) /\ NewFirst(d, e, w)
<1>1. FirstsRight(d) /\ DupsRight(d) /\ d.streams \in Nat /\ d.written \in Nat
  BY DEF DDRight
<1>2. PICK r : r = FirstRecord(e.key, d.streams, 0)
  OBVIOUS
<1>3. r.key = e.key /\ r.index = d.streams /\ r.count = 0 /\ r \in FirstType
  BY <1>1, <1>2 DEF FirstRecord, FirstType
<1>4. PICK f : f = Append(d.firsts, r) /\ w = DDRecord(f, d.dups, d.streams + 1, d.written)
  BY <1>2 DEF FirstAdded
<1>5. /\ w.firsts = f /\ w.dups = d.dups /\ w.streams = d.streams + 1 /\ w.written = d.written
      /\ w = [firsts |-> w.firsts, dups |-> w.dups, streams |-> w.streams, written |-> w.written]
  BY <1>4 DEF DDRecord
<1>6. PICK n \in Nat : n = Len(d.firsts)
  BY <1>1 DEF FirstsRight
<1>7. /\ w.firsts \in Seq(FirstType) /\ Len(w.firsts) = n + 1 /\ w.firsts[n + 1] = r
      /\ \A z \in 1 .. n : w.firsts[z] = d.firsts[z]
  <2>1. d.firsts \in Seq(FirstType)
    BY <1>1 DEF FirstsRight
  <2>2. /\ f \in Seq(FirstType) /\ Len(f) = Len(d.firsts) + 1 /\ f[Len(d.firsts) + 1] = r
        /\ \A z \in 1 .. Len(d.firsts) : f[z] = d.firsts[z]
    BY <1>3, <1>4, <2>1, AppendProperties
  <2> QED
    BY <1>5, <1>6, <2>2
<1>8. PICK s \in Nat : s = d.streams
  BY <1>1
<1>9. \A z : Copies(w, z, 0) = Copies(d, z, 0)
  BY <1>5 DEF Copies
<1>10. Copies(d, n + 1, 0) = {}
  <2>1. ASSUME NEW q \in 1 .. Len(d.dups) PROVE d.dups[q].first # n + 1
    <3>1. d.dups[q].first \in 1 .. n
      BY <1>1, <1>6, DupIs
    <3> QED
      BY <3>1
  <2> QED
    BY <2>1 DEF Copies
<1>11. ASSUME NEW z \in 1 .. n + 1
       PROVE  /\ Len(w.firsts[z].key) > 0 /\ w.firsts[z].index < w.streams
              /\ w.firsts[z].count = Cardinality(Copies(w, z, 0))
  <2>1. CASE z = n + 1
    <3>1. Cardinality(Copies(w, z, 0)) = 0
      BY <1>9, <1>10, <2>1, FS_EmptySet
    <3> QED
      BY <1>3, <1>5, <1>7, <1>8, <2>1, <3>1
  <2>2. CASE z # n + 1
    <3>1. z \in 1 .. n
      BY <2>2
    <3>2. w.firsts[z] = d.firsts[z]
      BY <1>7, <3>1
    <3>3. /\ Len(d.firsts[z].key) > 0 /\ d.firsts[z].index < d.streams
          /\ d.firsts[z].count = Cardinality(Copies(d, z, 0))
      BY <1>1, <1>6, <3>1 DEF FirstsRight
    <3>4. d.firsts[z].index \in Nat
      BY <1>1, <1>6, <3>1, FirstIsOf
    <3>5. d.firsts[z].index < w.streams
      BY <1>5, <1>8, <3>3, <3>4
    <3> QED
      BY <1>9, <3>2, <3>3, <3>5
  <2> QED
    BY <2>1, <2>2
<1>12. ASSUME NEW y \in 1 .. n + 1, NEW z \in 1 .. n + 1, y < z
       PROVE  w.firsts[y].index < w.firsts[z].index
  <2>0. y \in 1 .. n /\ w.firsts[y] = d.firsts[y]
    BY <1>7, <1>12
  <2>1. CASE z = n + 1
    <3>1. d.firsts[y].index < d.streams
      BY <1>1, <1>6, <2>0 DEF FirstsRight
    <3> QED
      BY <1>3, <1>7, <2>0, <2>1, <3>1
  <2>2. CASE z # n + 1
    <3>1. z \in 1 .. n
      BY <2>2
    <3>2. w.firsts[z] = d.firsts[z]
      BY <1>7, <3>1
    <3>3. d.firsts[y].index < d.firsts[z].index
      BY <1>1, <1>6, <1>12, <2>0, <3>1 DEF FirstsRight
    <3> QED
      BY <2>0, <3>2, <3>3
  <2> QED
    BY <2>1, <2>2
<1>13. FirstsRight(w)
  BY <1>7, <1>11, <1>12 DEF FirstsRight
<1>14. ASSUME NEW q \in 1 .. Len(w.dups)
       PROVE  /\ w.dups[q].stream < w.streams /\ w.dups[q].first \in 1 .. Len(w.firsts)
              /\ w.firsts[w.dups[q].first].index < w.dups[q].stream
              /\ w.dups[q].stream # d.streams
              /\ \A z \in 1 .. Len(w.firsts) : w.firsts[z].index # w.dups[q].stream
  <2>1. /\ d.dups[q].stream < d.streams /\ d.dups[q].first \in 1 .. n
        /\ d.firsts[d.dups[q].first].index < d.dups[q].stream
        /\ \A z \in 1 .. n : d.firsts[z].index # d.dups[q].stream
    BY <1>1, <1>5, <1>6 DEF DupsRight
  <2>2. PICK a \in Nat : a = d.dups[q].stream /\ a = w.dups[q].stream
    BY <1>1, <1>5, DupIs
  <2>3. PICK y \in 1 .. n : y = d.dups[q].first /\ y = w.dups[q].first
    BY <1>5, <2>1
  <2>4. a < s /\ a < w.streams
    BY <1>5, <1>8, <2>1, <2>2
  <2>5. ASSUME NEW z \in 1 .. n + 1 PROVE w.firsts[z].index # a
    <3>1. CASE z = n + 1
      BY <1>3, <1>7, <1>8, <2>4, <3>1
    <3>2. CASE z # n + 1
      <4>1. z \in 1 .. n
        BY <3>2
      <4> QED
        BY <1>7, <2>1, <2>2, <4>1
    <3> QED
      BY <3>1, <3>2
  <2>6. y \in 1 .. n + 1 /\ w.firsts[y] = d.firsts[y]
    BY <1>7
  <2>7. w.firsts[y].index < a
    BY <2>1, <2>2, <2>3, <2>6
  <2> QED
    BY <1>7, <1>8, <2>2, <2>3, <2>4, <2>5, <2>6, <2>7
<1>15. DupsRight(w)
  <2>1. w.dups \in Seq(DupType)
    BY <1>1, <1>5 DEF DupsRight
  <2>2. \A p, q \in 1 .. Len(w.dups) : p < q => w.dups[p].stream < w.dups[q].stream
    BY <1>1, <1>5 DEF DupsRight
  <2> QED
    BY <1>14, <2>1, <2>2 DEF DupsRight
<1>16. IF u.dedup
       THEN \A y, z \in 1 .. Len(w.firsts) : w.firsts[y].key = w.firsts[z].key => y = z
       ELSE w.dups = <<>>
  <2>1. CASE u.dedup
    <3>1. ASSUME NEW z \in 1 .. n PROVE w.firsts[z].key # e.key
      BY <1>6, <1>7, <2>1
    <3>2. ASSUME NEW y \in 1 .. n + 1, NEW z \in 1 .. n + 1, w.firsts[y].key = w.firsts[z].key
          PROVE  y = z
      <4>1. CASE y = n + 1 /\ z # n + 1
        <5>1. z \in 1 .. n
          BY <4>1
        <5> QED
          BY <1>3, <1>7, <3>1, <3>2, <4>1, <5>1
      <4>2. CASE y # n + 1 /\ z = n + 1
        <5>1. y \in 1 .. n
          BY <4>2
        <5> QED
          BY <1>3, <1>7, <3>1, <3>2, <4>2, <5>1
      <4>3. CASE y # n + 1 /\ z # n + 1
        <5>1. y \in 1 .. n /\ z \in 1 .. n
          BY <4>3
        <5>2. d.firsts[y].key = d.firsts[z].key
          BY <1>7, <3>2, <5>1
        <5> QED
          BY <1>6, <2>1, <5>1, <5>2 DEF DDRight
      <4> QED
        BY <4>1, <4>2, <4>3
    <3> QED
      BY <1>7, <2>1, <3>2
  <2>2. CASE ~u.dedup
    BY <1>5, <2>2 DEF DDRight
  <2> QED
    BY <2>1, <2>2
<1>17. DDRight(u, w)
  <2>1. w.streams \in Nat /\ w.written \in Nat
    BY <1>1, <1>5
  <2> QED
    BY <1>5, <1>13, <1>15, <1>16, <2>1 DEF DDRight
<1>18. Grown(d, w)
  <2>1. Len(d.dups) \in Nat /\ Len(w.dups) = Len(d.dups)
    BY <1>1, <1>5 DEF DupsRight
  <2>2. \A q \in 1 .. Len(d.dups) : d.dups[q].first \in 1 .. Len(d.firsts) /\ w.dups[q] = d.dups[q]
    BY <1>1, <1>5 DEF DupsRight
  <2>3. \A z \in 1 .. n : w.firsts[z].index = d.firsts[z].index /\ w.firsts[z].key = d.firsts[z].key
    BY <1>7
  <2>4. d.streams <= w.streams /\ w.streams \in Nat
    BY <1>5, <1>8
  <2>5. Len(w.firsts) \in Nat /\ Len(d.firsts) <= Len(w.firsts)
    BY <1>6, <1>7
  <2>6. \A q \in 1 .. Len(w.dups) : q > Len(d.dups) => w.dups[q].stream >= d.streams
    BY <2>1
  <2> QED
    BY <1>1, <1>6, <2>1, <2>2, <2>3, <2>4, <2>5, <2>6 DEF Grown
<1>19. \E z \in 1 .. Len(w.firsts) : w.firsts[z].index = d.streams /\ w.firsts[z].key = e.key
  <2>1. n + 1 \in 1 .. Len(w.firsts)
    BY <1>7
  <2> QED
    BY <1>3, <1>7, <2>1
<1> QED
  BY <1>5, <1>14, <1>17, <1>18, <1>19 DEF Numbered, NewFirst

\* A stream that was found becomes a copy.
LEMMA DupAddedIs ==
  ASSUME NEW u, u.dedup, NEW d, DDRight(u, d), NEW i \in 1 .. Len(d.firsts), NEW w, DupAdded(d, i, w)
  PROVE  Numbered(u, d, w) /\ NewDup(d, i, w)
<1>1. FirstsRight(d) /\ DupsRight(d) /\ d.streams \in Nat /\ d.written \in Nat
  BY DEF DDRight
<1>2. PICK s \in Nat : s = d.streams
  BY <1>1
<1>3. PICK r : r = DupRecord(d.streams, i)
  OBVIOUS
<1>4. r.stream = s /\ r.first = i /\ r \in DupType
  BY <1>1, <1>2, <1>3 DEF DupRecord, DupType
<1>5. PICK f, p : /\ f = [d.firsts EXCEPT ![i].count = @ + 1] /\ p = Append(d.dups, r)
                  /\ w = DDRecord(f, p, d.streams + 1, d.written)
  BY <1>3 DEF DupAdded
<1>6. /\ w.firsts = f /\ w.dups = p /\ w.streams = s + 1 /\ w.written = d.written
      /\ w = [firsts |-> w.firsts, dups |-> w.dups, streams |-> w.streams, written |-> w.written]
  BY <1>2, <1>5 DEF DDRecord
<1>7. PICK n \in Nat : n = Len(d.firsts)
  BY <1>1 DEF FirstsRight
<1>8. PICK m \in Nat : m = Len(d.dups)
  BY <1>1 DEF DupsRight
<1>9. /\ w.dups \in Seq(DupType) /\ Len(w.dups) = m + 1 /\ w.dups[m + 1] = r
      /\ \A q \in 1 .. m : w.dups[q] = d.dups[q]
  <2>1. d.dups \in Seq(DupType)
    BY <1>1 DEF DupsRight
  <2>2. /\ p \in Seq(DupType) /\ Len(p) = Len(d.dups) + 1 /\ p[Len(d.dups) + 1] = r
        /\ \A q \in 1 .. Len(d.dups) : p[q] = d.dups[q]
    BY <1>4, <1>5, <2>1, AppendProperties
  <2> QED
    BY <1>6, <1>8, <2>2
<1>10. /\ w.firsts \in Seq(FirstType) /\ Len(w.firsts) = n
       /\ \A z \in 1 .. n : /\ w.firsts[z].key = d.firsts[z].key
                            /\ w.firsts[z].index = d.firsts[z].index
                            /\ w.firsts[z].count =
                                 IF z = i THEN d.firsts[z].count + 1 ELSE d.firsts[z].count
  <2>1. d.firsts \in Seq(FirstType)
    BY <1>1 DEF FirstsRight
  <2>2. d.firsts[i].count \in Nat /\ d.firsts[i] \in FirstType
    BY <1>1, FirstIsOf
  <2>3. PICK g : g = [d.firsts[i] EXCEPT !.count = @ + 1]
    OBVIOUS
  <2>4. g \in FirstType /\ g.key = d.firsts[i].key /\ g.index = d.firsts[i].index
        /\ g.count = d.firsts[i].count + 1
    BY <2>2, <2>3 DEF FirstType
  <2>5. f = [d.firsts EXCEPT ![i] = g]
    BY <1>5, <2>3
  <2>6. /\ f \in Seq(FirstType) /\ Len(f) = n
        /\ \A z \in 1 .. n : f[z] = IF z = i THEN g ELSE d.firsts[z]
    <3>1. d.firsts \in [1 .. n -> FirstType]
      BY <1>7, <2>1
    <3>2. f \in [1 .. n -> FirstType] /\ \A z \in 1 .. n : f[z] = IF z = i THEN g ELSE d.firsts[z]
      BY <2>4, <2>5, <3>1
    <3>3. f \in Seq(FirstType)
      BY <3>2, SeqDef
    <3> QED
      BY <1>7, <3>2, <3>3, LenProperties
  <2> QED
    BY <1>6, <1>7, <2>4, <2>6
<1>11. ASSUME NEW z \in 1 .. n, z # i
       PROVE  Copies(w, z, 0) = Copies(d, z, 0)
  <2>1. ASSUME NEW q \in 1 .. m + 1
        PROVE  w.dups[q].first = z <=> q \in 1 .. m /\ d.dups[q].first = z
    <3>1. CASE q = m + 1
      BY <1>4, <1>9, <1>11, <3>1
    <3>2. CASE q # m + 1
      <4>1. q \in 1 .. m
        BY <3>2
      <4> QED
        BY <1>9, <4>1
    <3> QED
      BY <3>1, <3>2
  <2>2. ASSUME NEW q
        PROVE  q \in Copies(w, z, 0) <=> q \in Copies(d, z, 0)
    <3>1. q \in 1 .. m => q \in 1 .. m + 1 /\ w.dups[q] = d.dups[q]
      BY <1>9
    <3> QED
      BY <1>8, <1>9, <2>1, <3>1 DEF Copies
  <2> QED
    BY <2>2
<1>12. Copies(w, i, 0) = Copies(d, i, 0) \cup {m + 1} /\ m + 1 \notin Copies(d, i, 0)
  <2>1. m + 1 \in Copies(w, i, 0)
    BY <1>4, <1>9 DEF Copies
  <2>2. m + 1 \notin Copies(d, i, 0)
    BY <1>8 DEF Copies
  <2>3. ASSUME NEW q, q # m + 1
        PROVE  q \in Copies(w, i, 0) <=> q \in Copies(d, i, 0)
    <3>1. q \in 1 .. m + 1 <=> q \in 1 .. m
      BY <2>3
    <3>2. q \in 1 .. m => w.dups[q] = d.dups[q]
      BY <1>9
    <3> QED
      BY <1>8, <1>9, <3>1, <3>2 DEF Copies
  <2> QED
    BY <2>1, <2>2, <2>3
<1>13. Cardinality(Copies(w, i, 0)) = Cardinality(Copies(d, i, 0)) + 1
  <2>1. IsFiniteSet(Copies(d, i, 0))
    BY <1>1, CopiesFinite
  <2> QED
    BY <1>12, <2>1, FS_AddElement
<1>14. ASSUME NEW z \in 1 .. n
       PROVE  /\ Len(w.firsts[z].key) > 0 /\ w.firsts[z].index < w.streams
              /\ w.firsts[z].count = Cardinality(Copies(w, z, 0))
              /\ w.firsts[z].index < s
  <2>1. /\ Len(d.firsts[z].key) > 0 /\ d.firsts[z].index < s
        /\ d.firsts[z].count = Cardinality(Copies(d, z, 0)) /\ d.firsts[z].index \in Nat
    BY <1>1, <1>2, <1>7, FirstIsOf DEF FirstsRight
  <2>2. w.firsts[z].index < w.streams
    BY <1>6, <1>10, <2>1
  <2>3. w.firsts[z].count = Cardinality(Copies(w, z, 0))
    BY <1>10, <1>11, <1>13, <2>1
  <2> QED
    BY <1>10, <2>1, <2>2, <2>3
<1>15. \A y, z \in 1 .. n : y < z => w.firsts[y].index < w.firsts[z].index
  BY <1>1, <1>7, <1>10 DEF FirstsRight
<1>16. FirstsRight(w)
  BY <1>10, <1>14, <1>15 DEF FirstsRight
<1>17. ASSUME NEW q \in 1 .. m + 1
       PROVE  /\ w.dups[q].stream < w.streams /\ w.dups[q].first \in 1 .. n
              /\ w.firsts[w.dups[q].first].index < w.dups[q].stream
              /\ \A z \in 1 .. n : w.firsts[z].index # w.dups[q].stream
  <2>1. CASE q = m + 1
    <3>1. w.dups[q].stream = s /\ w.dups[q].first = i
      BY <1>4, <1>9, <2>1
    <3>2. w.dups[q].first \in 1 .. n
      BY <1>7, <3>1
    <3>4. \A z \in 1 .. n : w.firsts[z].index \in Nat
      BY <1>10, <1>16, FirstIsOf
    <3>3. \A z \in 1 .. n : w.firsts[z].index < s /\ w.firsts[z].index # s
      BY <1>14, <3>4
    <3> QED
      BY <1>6, <3>1, <3>2, <3>3
  <2>2. CASE q # m + 1
    <3>1. q \in 1 .. m
      BY <2>2
    <3>2. /\ d.dups[q].stream < d.streams /\ d.dups[q].first \in 1 .. n
          /\ d.firsts[d.dups[q].first].index < d.dups[q].stream
          /\ \A z \in 1 .. n : d.firsts[z].index # d.dups[q].stream
      BY <1>1, <1>7, <1>8, <3>1 DEF DupsRight
    <3>3. PICK a \in Nat : a = d.dups[q].stream
      BY <1>1, <1>8, <3>1, DupIs
    <3>4. PICK y \in 1 .. n : y = d.dups[q].first
      BY <3>2
    <3>5. w.dups[q].stream = a /\ w.dups[q].first = y
      BY <1>9, <3>1, <3>3, <3>4
    <3>6. a < w.streams
      BY <1>2, <1>6, <3>2, <3>3
    <3>7. w.firsts[y].index < a /\ \A z \in 1 .. n : w.firsts[z].index # a
      BY <1>10, <3>2, <3>3, <3>4
    <3> QED
      BY <3>5, <3>6, <3>7
  <2> QED
    BY <2>1, <2>2
<1>18. ASSUME NEW x \in 1 .. m + 1, NEW q \in 1 .. m + 1, x < q
       PROVE  w.dups[x].stream < w.dups[q].stream
  <2>1. x \in 1 .. m /\ w.dups[x] = d.dups[x]
    BY <1>9, <1>18
  <2>2. CASE q = m + 1
    <3>1. d.dups[x].stream < d.streams
      BY <1>1, <1>8, <2>1 DEF DupsRight
    <3> QED
      BY <1>2, <1>4, <1>9, <2>1, <2>2, <3>1
  <2>3. CASE q # m + 1
    <3>1. q \in 1 .. m
      BY <2>3
    <3>2. d.dups[x].stream < d.dups[q].stream
      BY <1>1, <1>8, <1>18, <2>1, <3>1 DEF DupsRight
    <3> QED
      BY <1>9, <2>1, <3>1, <3>2
  <2> QED
    BY <2>2, <2>3
<1>19. DupsRight(w)
  BY <1>9, <1>10, <1>17, <1>18 DEF DupsRight
<1>20. \A y, z \in 1 .. Len(w.firsts) : w.firsts[y].key = w.firsts[z].key => y = z
  <2>1. ASSUME NEW y \in 1 .. n, NEW z \in 1 .. n, w.firsts[y].key = w.firsts[z].key
        PROVE  y = z
    <3>1. d.firsts[y].key = d.firsts[z].key
      BY <1>10, <2>1
    <3> QED
      BY <1>7, <3>1 DEF DDRight
  <2> QED
    BY <1>10, <2>1
<1>21. DDRight(u, w)
  <2>1. w.streams \in Nat /\ w.written \in Nat
    BY <1>1, <1>2, <1>6
  <2> QED
    BY <1>6, <1>16, <1>19, <1>20, <2>1 DEF DDRight
<1>22. Grown(d, w)
  <2>1. Len(d.dups) \in Nat /\ Len(w.dups) \in Nat /\ Len(d.dups) <= Len(w.dups)
    BY <1>8, <1>9
  <2>2. \A q \in 1 .. Len(d.dups) : d.dups[q].first \in 1 .. Len(d.firsts) /\ w.dups[q] = d.dups[q]
    BY <1>1, <1>8, <1>9 DEF DupsRight
  <2>3. \A z \in 1 .. n : w.firsts[z].index = d.firsts[z].index /\ w.firsts[z].key = d.firsts[z].key
    BY <1>10
  <2>4. d.streams <= w.streams /\ w.streams \in Nat
    BY <1>2, <1>6
  <2>5. Len(w.firsts) \in Nat /\ Len(d.firsts) <= Len(w.firsts)
    BY <1>7, <1>10
  <2>6. ASSUME NEW q \in 1 .. Len(w.dups), q > Len(d.dups) PROVE w.dups[q].stream >= d.streams
    <3>1. q = m + 1
      BY <1>8, <1>9, <2>6
    <3> QED
      BY <1>2, <1>4, <1>9, <3>1
  <2> QED
    BY <1>1, <1>7, <2>1, <2>2, <2>3, <2>4, <2>5, <2>6 DEF Grown
<1>23. \E q \in 1 .. Len(w.dups) :
         /\ w.dups[q].stream = d.streams /\ d.firsts[i].index = w.firsts[w.dups[q].first].index
         /\ w.firsts[w.dups[q].first].key = d.firsts[i].key
  <2>1. m + 1 \in 1 .. Len(w.dups) /\ w.dups[m + 1].first = i /\ w.dups[m + 1].stream = d.streams
    BY <1>2, <1>4, <1>9
  <2>2. i \in 1 .. n
    BY <1>7
  <2>3. w.firsts[i].index = d.firsts[i].index /\ w.firsts[i].key = d.firsts[i].key
    BY <1>10, <2>2
  <2> QED
    BY <2>1, <2>3
<1> QED
  BY <1>2, <1>6, <1>21, <1>22, <1>23 DEF Numbered, NewDup

\* A header, from its fields.
HeaderRecord(dup, old, new, option) == [dup |-> dup, old |-> old, new |-> new, option |-> option]

\* The fields of a header.
LEMMA HeaderFields ==
  ASSUME NEW dup, NEW old, NEW new, NEW option, NEW h, h = HeaderRecord(dup, old, new, option)
  PROVE  h.dup = dup /\ h.old = old /\ h.new = new /\ h.option = option
BY DEF HeaderRecord

\* What the header says of e, of which i is the first stream.
HeaderFits(d, e, i, h) ==
  /\ i = 0 => h.dup = FALSE /\ h.old = e.old /\ h.new = e.new
  /\ i # 0 => h.dup = TRUE /\ h.new = 0 /\ h.option = d.firsts[i].index

\* The header of an entry refers to what the lists hold before it.
LEMMA HeaderIs ==
  ASSUME NEW d, NEW e, NEW i, i = FirstOf(d, e), i \in Nat, NEW h, h = Header(d, e)
  PROVE  HeaderFits(d, e, i, h)
<1>1. PICK t, f : t = TRUE /\ f = FALSE
  OBVIOUS
<1>2. i > 0 <=> i # 0
  OBVIOUS
<1>3. h = IF i # 0 THEN HeaderRecord(t, 0, 0, d.firsts[i].index) ELSE HeaderRecord(f, e.old, e.new, 0)
  BY <1>1, <1>2 DEF Header, HeaderRecord
<1>4. i = 0 => h = HeaderRecord(f, e.old, e.new, 0)
  BY <1>3
<1>5. i # 0 => h = HeaderRecord(t, 0, 0, d.firsts[i].index)
  BY <1>3
<1>6. i = 0 => h.dup = f /\ h.old = e.old /\ h.new = e.new
  BY <1>4, HeaderFields
<1>7. i # 0 => h.dup = t /\ h.new = 0 /\ h.option = d.firsts[i].index
  BY <1>5, HeaderFields
<1> QED
  BY <1>1, <1>6, <1>7 DEF HeaderFits

\* A stream that is written has been numbered and recorded.
LEMMA NumberedIs ==
  ASSUME NEW d, DDRight(setup, d), NEW e, e.key \in Seq(Int), Len(e.key) > 0,
         NEW h, h = Header(d, e), NEW w, w = FindOrAdd(d, e)
  PROVE  Numbered(setup, d, w) /\ Recorded(setup, w, h, e, d.streams)
<1>1. PICK i : i = FirstOf(d, e)
  OBVIOUS
<1>2. Len(d.firsts) \in Nat
  BY DEF DDRight, FirstsRight
<1>3. /\ i \in 0 .. Len(d.firsts)
      /\ i # 0 => setup.dedup /\ d.firsts[i].key = e.key
      /\ i = 0 => ~setup.dedup \/ \A z \in 1 .. Len(d.firsts) : d.firsts[z].key # e.key
  BY <1>1, <1>2, FirstOfIs
<1>4. i \in Nat
  BY <1>3
<1>5. HeaderFits(d, e, i, h)
  BY <1>1, <1>4, HeaderIs
<1>6. d = DDRecord(d.firsts, d.dups, d.streams, d.written)
  BY DEF DDRight, DDRecord
<1>7. /\ i = 0 => FirstAdded(d, e, w)
      /\ i # 0 => DupAdded(d, i, w)
  BY <1>1, <1>6, FindOrAddIs
<1>8. CASE i = 0
  <2>1. setup.dedup => \A z \in 1 .. Len(d.firsts) : d.firsts[z].key # e.key
    BY <1>3, <1>8
  <2>2. FirstAdded(d, e, w)
    BY <1>7, <1>8
  <2>3. Numbered(setup, d, w) /\ NewFirst(d, e, w)
    BY <2>1, <2>2, FirstAddedIs
  <2>4. Recorded(setup, w, h, e, d.streams)
    BY <1>5, <1>8, <2>3 DEF Recorded, NewFirst, HeaderFits
  <2> QED
    BY <2>3, <2>4
<1>9. CASE i # 0
  <2>1. i \in 1 .. Len(d.firsts) /\ setup.dedup /\ d.firsts[i].key = e.key
    BY <1>2, <1>3, <1>9
  <2>2. DupAdded(d, i, w)
    BY <1>7, <1>9
  <2>3. Numbered(setup, d, w) /\ NewDup(d, i, w)
    BY <2>1, <2>2, DupAddedIs
  <2>4. Recorded(setup, w, h, e, d.streams)
    BY <1>5, <1>9, <2>1, <2>3, SMTT(40) DEF Recorded, NewDup, HeaderFits
  <2> QED
    BY <2>3, <2>4
<1> QED
  BY <1>8, <1>9

\* What was recorded stays recorded as the lists grow.
LEMMA RecordedGrown ==
  ASSUME NEW d, NEW w, Grown(d, w), NEW u, NEW h, NEW e, NEW i \in Nat, i < d.streams,
         Recorded(u, d, h, e, i)
  PROVE  Recorded(u, w, h, e, i)
<1>1. /\ d.streams \in Nat /\ Len(d.firsts) \in Nat /\ Len(w.firsts) \in Nat
      /\ Len(d.firsts) <= Len(w.firsts)
      /\ Len(d.dups) \in Nat /\ Len(w.dups) \in Nat /\ Len(d.dups) <= Len(w.dups)
  BY DEF Grown
<1>2. ASSUME h.dup = TRUE, h.new = 0, u.dedup,
             NEW q \in 1 .. Len(d.dups), d.dups[q].stream = i,
             h.option = d.firsts[d.dups[q].first].index,
             d.firsts[d.dups[q].first].key = e.key
      PROVE  Recorded(u, w, h, e, i)
  <2>1. w.dups[q] = d.dups[q] /\ d.dups[q].first \in 1 .. Len(d.firsts)
    BY DEF Grown
  <2>2. PICK z \in 1 .. Len(d.firsts) : z = d.dups[q].first
    BY <2>1
  <2>3. w.firsts[z].index = d.firsts[z].index /\ w.firsts[z].key = d.firsts[z].key
    BY DEF Grown
  <2>4. q \in 1 .. Len(w.dups)
    BY <1>1
  <2>5. /\ w.dups[q].stream = i /\ h.option = w.firsts[w.dups[q].first].index
        /\ w.firsts[w.dups[q].first].key = e.key
    BY <1>2, <2>1, <2>2, <2>3
  <2> QED
    BY <1>2, <2>4, <2>5 DEF Recorded
<1>3. ASSUME h.dup = FALSE, h.old = e.old, h.new = e.new,
             \A q \in 1 .. Len(d.dups) : d.dups[q].stream # i,
             u.dedup => \E z \in 1 .. Len(d.firsts) : d.firsts[z].index = i /\ d.firsts[z].key = e.key
      PROVE  Recorded(u, w, h, e, i)
  <2>1. ASSUME NEW q \in 1 .. Len(w.dups) PROVE w.dups[q].stream # i
    <3>1. CASE q <= Len(d.dups)
      <4>1. q \in 1 .. Len(d.dups)
        BY <1>1, <3>1
      <4>2. w.dups[q] = d.dups[q]
        BY <4>1 DEF Grown
      <4> QED
        BY <1>3, <4>1, <4>2
    <3>2. CASE q > Len(d.dups)
      <4>1. w.dups[q].stream >= d.streams
        BY <3>2 DEF Grown
      <4> QED
        BY <1>1, <4>1
    <3> QED
      BY <1>1, <3>1, <3>2
  <2>2. ASSUME u.dedup
        PROVE  \E z \in 1 .. Len(w.firsts) : w.firsts[z].index = i /\ w.firsts[z].key = e.key
    <3>1. PICK z \in 1 .. Len(d.firsts) : d.firsts[z].index = i /\ d.firsts[z].key = e.key
      BY <1>3, <2>2
    <3>2. w.firsts[z].index = d.firsts[z].index /\ w.firsts[z].key = d.firsts[z].key
      BY DEF Grown
    <3>3. z \in 1 .. Len(w.firsts)
      BY <1>1
    <3> QED
      BY <3>1, <3>2, <3>3
  <2> QED
    BY <1>3, <2>1, <2>2 DEF Recorded
<1> QED
  BY <1>2, <1>3 DEF Recorded

-----------------------------------------------------------------------------
(* The walk over the entries of a slot *)

\* An entry of a slot that begins at byte z of the input.
EntryRight(u, z, e) ==
  /\ e.pos \in Nat /\ e.old \in Nat /\ e.new \in Nat /\ e.old > 0 /\ e.new > 0
  /\ z + e.pos + e.old <= Len(u.file.bytes) /\ e.pos + e.old <= 2 * FSize
  /\ e.key = Part(u, z + e.pos, e.old)
  /\ e.data = [x \in 1 .. e.new |-> [of |-> e.key, n |-> e.new, k |-> x]]

\* Where the bytes before the j-th of the streams t begin, l before the first.
Begins(l, t, j) == IF j = 1 THEN l ELSE t[j - 1].pos + t[j - 1].old

\* The fields of a walk.
WalkFields == {"taken", "rest", "headers", "last", "memory", "full", "dd"}

\* What the walk has come to, when it began at l with the streams of d.
TakenRight(u, z, l, d, w) ==
  /\ IsList(w.taken) /\ IsList(w.headers) /\ Len(w.taken) \in Nat /\ Len(w.headers) = Len(w.taken)
  /\ \A j \in 1 .. Len(w.taken) :
       /\ EntryRight(u, z, w.taken[j]) /\ Begins(l, w.taken, j) <= w.taken[j].pos
       /\ Recorded(u, w.dd, w.headers[j], w.taken[j], d.streams + j - 1)
  /\ w.last = Begins(l, w.taken, Len(w.taken) + 1)

\* A list of entries of the slot that begins at z.
RestRight(u, z, r) == IsList(r) /\ \A j \in 1 .. Len(r) : EntryRight(u, z, r[j])

\* What the walk over the entries of the slot at z keeps, l being where it began
\* and d the lists it began with.
WalkRight(u, z, l, d, w) ==
  /\ DOMAIN w = WalkFields /\ TakenRight(u, z, l, d, w) /\ RestRight(u, z, w.rest)
  /\ DDRight(u, w.dd) /\ Grown(d, w.dd)
  /\ w.dd.streams = d.streams + Len(w.taken) /\ w.dd.written = d.written

\* A list of right entries with one more.
LEMMA AppendKeepsRest ==
  ASSUME NEW u, NEW z, NEW r, RestRight(u, z, r), NEW e, EntryRight(u, z, e),
         NEW s, s = Append(r, e)
  PROVE  RestRight(u, z, s)
<1>0. IsList(r)
  BY DEF RestRight
<1>4. Longer(r, e, s)
  BY <1>0, AppendedIs
<1>1. /\ IsList(s) /\ Len(r) \in Nat /\ Len(s) = Len(r) + 1 /\ s[Len(r) + 1] = e
      /\ \A j \in 1 .. Len(r) : s[j] = r[j]
  BY <1>4 DEF Longer
<1>2. PICK n \in Nat : n = Len(r)
  BY <1>1
<1>3. ASSUME NEW j \in 1 .. n + 1 PROVE EntryRight(u, z, s[j])
  <2>1. CASE j = n + 1
    BY <1>1, <1>2, <2>1
  <2>2. CASE j # n + 1
    <3>1. j \in 1 .. n
      BY <2>2
    <3>2. EntryRight(u, z, r[j])
      BY <1>2, <3>1 DEF RestRight
    <3> QED
      BY <1>1, <1>2, <3>1, <3>2
  <2> QED
    BY <2>1, <2>2
<1> QED
  BY <1>1, <1>2, <1>3 DEF RestRight

\* The bytes of an entry.
LEMMA EntryKey ==
  ASSUME NEW u, u.file.bytes \in Seq(Int), NEW z \in Nat, NEW e, EntryRight(u, z, e)
  PROVE  /\ e.key \in Seq(Int) /\ Len(e.key) = e.old /\ Len(e.key) > 0
<1>1. PICK o \in Nat : o = z + e.pos
  BY DEF EntryRight
<1>2. PICK n \in Nat : n = e.old /\ n > 0
  BY DEF EntryRight
<1>3. PICK N \in Nat : N = Len(u.file.bytes)
  OBVIOUS
<1>4. o + n <= N
  BY <1>1, <1>2, <1>3 DEF EntryRight
<1>5. e.key = Part(u, o, n)
  BY <1>1, <1>2 DEF EntryRight
<1>6. e.key \in Seq(Int) /\ Len(e.key) = n
  BY <1>3, <1>4, <1>5, PartIs
<1> QED
  BY <1>2, <1>6

\* The walk takes e, with header h and then the streams of x.
Accepted(w, e, h, x, v) ==
  /\ DOMAIN v = WalkFields /\ v.taken = Append(w.taken, e) /\ v.headers = Append(w.headers, h)
  /\ v.rest = w.rest /\ v.last = e.pos + e.old /\ v.dd = x

\* One entry is taken.
LEMMA TakenMore ==
  ASSUME NEW u, NEW z, NEW l, NEW d, d.streams \in Nat, NEW w, TakenRight(u, z, l, d, w),
         NEW e, EntryRight(u, z, e), w.last <= e.pos, w.dd.streams = d.streams + Len(w.taken),
         NEW h, NEW x, NEW v, Accepted(w, e, h, x, v), Grown(w.dd, x),
         Recorded(u, x, h, e, w.dd.streams)
  PROVE  TakenRight(u, z, l, d, v)
<1>1. IsList(w.taken) /\ IsList(w.headers)
  BY DEF TakenRight
<1>2. PICK n \in Nat : n = Len(w.taken) /\ n = Len(w.headers)
  BY DEF TakenRight
<1>3. PICK t : t = v.taken
  OBVIOUS
<1>4. PICK g : g = v.headers
  OBVIOUS
<1>5. /\ IsList(t) /\ Len(t) = n + 1 /\ t[n + 1] = e /\ \A j \in 1 .. n : t[j] = w.taken[j]
  <2>1. Longer(w.taken, e, t)
    BY <1>1, <1>3, AppendedIs DEF Accepted
  <2> QED
    BY <1>2, <2>1 DEF Longer
<1>6. /\ IsList(g) /\ Len(g) = n + 1 /\ g[n + 1] = h /\ \A j \in 1 .. n : g[j] = w.headers[j]
  <2>1. Longer(w.headers, h, g)
    BY <1>1, <1>4, AppendedIs DEF Accepted
  <2> QED
    BY <1>2, <2>1 DEF Longer
<1>7. PICK s \in Nat : s = d.streams
  OBVIOUS
<1>8. w.dd.streams = s + n
  BY <1>2, <1>7
<1>13. v.dd = x /\ v.last = e.pos + e.old
  BY DEF Accepted
<1>9. ASSUME NEW j \in 1 .. n + 1
      PROVE  Begins(l, t, j) = Begins(l, w.taken, j)
  <2>1. CASE j = 1
    BY <2>1 DEF Begins
  <2>2. CASE j # 1
    <3>1. j - 1 \in 1 .. n
      BY <2>2
    <3> QED
      BY <1>5, <2>2, <3>1 DEF Begins
  <2> QED
    BY <2>1, <2>2
<1>10. ASSUME NEW j \in 1 .. n + 1
       PROVE  /\ EntryRight(u, z, t[j]) /\ Begins(l, t, j) <= t[j].pos
              /\ Recorded(u, x, g[j], t[j], s + j - 1)
  <2>1. CASE j = n + 1
    <3>1. t[j] = e /\ g[j] = h
      BY <1>5, <1>6, <2>1
    <3>2. Begins(l, t, j) = w.last
      BY <1>2, <1>9, <2>1 DEF TakenRight
    <3>3. s + j - 1 = w.dd.streams
      BY <1>8, <2>1
    <3> QED
      BY <3>1, <3>2, <3>3
  <2>2. CASE j # n + 1
    <3>1. j \in 1 .. n
      BY <2>2
    <3>2. t[j] = w.taken[j] /\ g[j] = w.headers[j]
      BY <1>5, <1>6, <3>1
    <3>3. /\ EntryRight(u, z, t[j]) /\ Begins(l, w.taken, j) <= t[j].pos
          /\ Recorded(u, w.dd, g[j], t[j], s + j - 1)
      BY <1>2, <1>7, <3>1, <3>2 DEF TakenRight
    <3>4. PICK i \in Nat : i = s + j - 1
      OBVIOUS
    <3>5. i < w.dd.streams
      BY <1>8, <3>1, <3>4
    <3>6. Recorded(u, w.dd, g[j], t[j], i)
      BY <3>3, <3>4
    <3>7. Recorded(u, x, g[j], t[j], i)
      BY <3>5, <3>6, RecordedGrown
    <3> QED
      BY <1>9, <3>3, <3>4, <3>7
  <2> QED
    BY <2>1, <2>2
<1>11. v.last = Begins(l, t, n + 2)
  <2>1. n + 2 - 1 = n + 1 /\ n + 2 # 1
    OBVIOUS
  <2> QED
    BY <1>5, <1>13, <2>1 DEF Begins
<1>12. n + 1 + 1 = n + 2
  OBVIOUS
<1> QED
  <2>1. Len(t) \in Nat /\ Len(g) = Len(t) /\ v.last = Begins(l, t, Len(t) + 1)
    BY <1>5, <1>6, <1>11, <1>12
  <2>2. \A j \in 1 .. Len(t) :
          /\ EntryRight(u, z, t[j]) /\ Begins(l, t, j) <= t[j].pos
          /\ Recorded(u, v.dd, g[j], t[j], d.streams + j - 1)
    BY <1>5, <1>7, <1>10, <1>13
  <2> QED
    BY <1>3, <1>4, <1>5, <1>6, <2>1, <2>2 DEF TakenRight

\* What accepting an entry does.
LEMMA AcceptIs ==
  ASSUME NEW w, DOMAIN w = WalkFields, NEW e, NEW v, v = Accept(w, e),
         NEW h, h = Header(w.dd, e), NEW x, x = FindOrAdd(w.dd, e)
  PROVE  Accepted(w, e, h, x, v)
<1>2. PICK m : m = w.memory + Max({h.old, h.new})
  OBVIOUS
<1>3. PICK f : f = (m >= DecodeMemBlock)
  OBVIOUS
<1>4. v = [w EXCEPT !.taken = Append(@, e), !.headers = Append(@, h),
                    !.last = e.pos + e.old, !.memory = m, !.full = f, !.dd = x]
  BY <1>2, <1>3 DEF Accept
<1> QED
  BY <1>4 DEF WalkFields, Accepted

\* One step of the walk, whether the entry is taken, left for the next slot
\* or dropped, keeps what the walk keeps.
LEMMA WalkKeeps ==
  ASSUME setup.file.bytes \in Seq(Int), NEW z \in Nat, NEW l, NEW d, d.streams \in Nat,
         NEW w, WalkRight(setup, z, l, d, w), NEW e, EntryRight(setup, z, e),
         NEW v, v = Walk(w, e)
  PROVE  WalkRight(setup, z, l, d, v)
<1>1. /\ DOMAIN w = WalkFields /\ TakenRight(setup, z, l, d, w) /\ RestRight(setup, z, w.rest)
      /\ DDRight(setup, w.dd) /\ Grown(d, w.dd)
      /\ w.dd.streams = d.streams + Len(w.taken) /\ w.dd.written = d.written
  BY DEF WalkRight
<1>2. CASE v = w
  BY <1>2
<1>3. CASE v = [w EXCEPT !.full = TRUE, !.rest = Append(@, e)]
  <2>0. PICK t : t = TRUE
    OBVIOUS
  <2>1. v = [w EXCEPT !.full = t, !.rest = Append(@, e)]
    BY <1>3, <2>0
  <2>2. /\ DOMAIN v = WalkFields /\ v.rest = Append(w.rest, e) /\ v.taken = w.taken
        /\ v.headers = w.headers /\ v.last = w.last /\ v.dd = w.dd
    BY <1>1, <2>1 DEF WalkFields
  <2>3. TakenRight(setup, z, l, d, v)
    BY <1>1, <2>2 DEF TakenRight
  <2>4. RestRight(setup, z, v.rest)
    BY <1>1, <2>2, AppendKeepsRest
  <2> QED
    BY <1>1, <2>2, <2>3, <2>4 DEF WalkRight
<1>4. CASE v = Accept(w, e) /\ w.last <= e.pos
  <2>1. PICK h, x : h = Header(w.dd, e) /\ x = FindOrAdd(w.dd, e)
    OBVIOUS
  <2>2. Accepted(w, e, h, x, v)
    BY <1>1, <1>4, <2>1, AcceptIs
  <2>3. e.key \in Seq(Int) /\ Len(e.key) > 0
    BY EntryKey
  <2>4. PICK c : c = w.dd
    OBVIOUS
  <2>5. Numbered(setup, c, x) /\ Recorded(setup, x, h, e, c.streams)
    BY <1>1, <2>1, <2>3, <2>4, NumberedIs
  <2>6. DDRight(setup, x) /\ Grown(c, x) /\ x.streams = c.streams + 1 /\ x.written = c.written
    BY <2>5 DEF Numbered
  <2>7. TakenRight(setup, z, l, d, v)
    <3>1. Grown(w.dd, x) /\ Recorded(setup, x, h, e, w.dd.streams)
      BY <2>4, <2>5, <2>6
    <3> QED
      BY <1>1, <1>4, <2>2, <3>1, TakenMore
  <2>8. Grown(d, x)
    <3>1. DupsRight(x)
      BY <2>6 DEF DDRight
    <3> QED
      BY <1>1, <2>4, <2>6, <3>1, GrownTwice
  <2>9. x.streams = d.streams + Len(v.taken)
    <3>1. PICK n \in Nat : n = Len(w.taken)
      BY <1>1 DEF TakenRight
    <3>2. Len(v.taken) = n + 1
      <4>1. IsList(w.taken)
        BY <1>1 DEF TakenRight
      <4>2. PICK t : t = v.taken
        OBVIOUS
      <4>3. Longer(w.taken, e, t)
        BY <2>2, <4>1, <4>2, AppendedIs DEF Accepted
      <4> QED
        BY <3>1, <4>2, <4>3 DEF Longer
    <3>3. PICK s \in Nat : s = d.streams
      OBVIOUS
    <3>4. c.streams = s + n
      BY <1>1, <2>4, <3>1, <3>3
    <3>5. x.streams = s + n + 1
      BY <2>6, <3>4
    <3> QED
      BY <3>2, <3>3, <3>5
  <2> QED
    BY <1>1, <2>2, <2>4, <2>6, <2>7, <2>8, <2>9 DEF WalkRight, Accepted
<1> QED
  BY <1>2, <1>3, <1>4 DEF Walk

-----------------------------------------------------------------------------
(* The bytes of a slot *)

\* Where byte j of a region is.
LEMMA RegionPlace ==
  ASSUME NEW B \in Nat, NEW f \in Nat, NEW p \in Nat, NEW n \in Nat, NEW j \in Nat, j > 0, j <= n,
         NEW a \in Nat, a = f + p + j - 1, NEW o \in Nat, o = B + f + p, NEW L \in Nat, p + n <= L,
         NEW W \in Nat, f + L <= W, NEW S \in Nat, o + n <= S
  PROVE  B + a < S /\ a < W /\ f <= a /\ B + a + 1 = o + j
OBVIOUS

\* Length n of slot i, which begins at byte z of the input, from p on; it begins
\* at byte o.
InSlot(i, z, p, n, o) ==
  /\ findex = 0 \/ findex < i
  /\ z = Base + Off(i) /\ p + n <= 2 * FSize /\ z + p + n <= inputSize /\ o = z + p

\* It is that part of the input.
LEMMA RegionIs ==
  ASSUME Window, setup.file.bytes \in Seq(Int), inputSize = Len(setup.file.bytes),
         NEW i \in Slots, NEW z \in Nat, NEW p \in Nat, NEW n \in Nat, NEW o \in Nat,
         InSlot(i, z, p, n, o)
  PROVE  Region(i, p, n) = Part(setup, o, n)
<1>1. /\ inputSize \in Nat /\ mpos \in Nat /\ Base \in Nat /\ findex \in Slots
      /\ FillInv /\ MemInv
  BY DEF Window, WindowTypes, PlaceInv
<1>2. /\ i \in Nat /\ i < FSlots /\ Off(i) \in Nat /\ FSize \in Nat /\ WindowEnd \in Nat
      /\ Off(i) + 2 * FSize <= WindowEnd /\ findex \in Nat
  BY <1>1, SlotFits, OffFacts
<1>4. PICK B \in Nat, f \in Nat, W \in Nat, S \in Nat :
        B = Base /\ f = Off(i) /\ W = WindowEnd /\ S = inputSize
  BY <1>1, <1>2
<1>6. PICK L \in Nat : L = 2 * FSize
  BY <1>2
<1>5. f + L <= W /\ o = B + f + p /\ o + n <= S /\ p + n <= L
  BY <1>2, <1>4, <1>6 DEF InSlot
<1>7. findex = 0 \/ findex < i
  BY DEF InSlot
<1>3. ASSUME NEW j \in 1 .. n
      PROVE  Content(mem[i * FSize + p + j - 1]) = setup.file.bytes[o + j]
  <2>1. PICK a \in Nat : a = f + p + j - 1 /\ a < f + p + n
    <3>1. f + p + j - 1 \in Nat /\ f + p + j - 1 < f + p + n
      OBVIOUS
    <3> QED
      BY <3>1
  <2>2. B + a < S /\ a < W /\ f <= a /\ B + a + 1 = o + j
    <3>4. j \in Nat /\ j > 0 /\ j <= n
      OBVIOUS
    <3>5. a = f + p + j - 1
      BY <2>1
    <3> QED
      BY <1>5, <3>4, <3>5, RegionPlace
  <2>3. mem[a] = Base + a
    <3>1. CASE findex = 0
      <4>1. mpos = Clip(W, S - B) /\ Origin = Base
        BY <1>1, <1>4, <3>1 DEF FillInv, Origin, Top
      <4>3. PICK m \in Nat : m = mpos
        BY <1>1
      <4>2. a \in 0 .. mpos - 1
        BY <2>2, <4>1, <4>3 DEF Clip
      <4> QED
        BY <1>1, <4>1, <4>2 DEF MemInv
    <3>2. CASE findex # 0
      <4>1. findex < i
        BY <1>7, <3>2
      <4>2. Top = Off(findex + 1) /\ Off(findex + 1) \in Nat
        <5>1. findex + 1 \in Nat
          BY <1>2
        <5>2. Off(findex + 1) \in Nat
          BY <5>1, OffFacts
        <5> QED
          BY <3>2, <5>2 DEF Top
      <4>3. Off(findex + 1) <= Off(i)
        <5>1. CASE findex + 1 = i
          BY <1>2, <5>1
        <5>2. CASE findex + 1 # i
          <6>1. findex + 1 \in Nat /\ findex + 1 < i
            BY <1>2, <4>1, <5>2
          <6>2. Off(findex + 1) + FSize <= Off(i)
            BY <1>2, <6>1, OffGrows
          <6> QED
            BY <1>2, <4>2, <6>2
        <5> QED
          BY <5>1, <5>2
      <4>4. a \in Top .. WindowEnd - 1
        <5>1. PICK t \in Nat : t = Top
          BY <4>2
        <5>2. t <= f
          BY <1>4, <4>2, <4>3, <5>1
        <5>3. a \in t .. W - 1
          BY <2>2, <5>2
        <5> QED
          BY <1>4, <5>1, <5>3
      <4>5. Base + a < inputSize
        BY <1>4, <2>2
      <4> QED
        BY <1>1, <4>4, <4>5 DEF MemInv
    <3> QED
      BY <3>1, <3>2
  <2>4. i * FSize + p + j - 1 = a
    BY <1>4, <2>1 DEF Off
  <2>5. PICK v \in Nat : v = Base + a
    BY <1>4
  <2>6. Content(v) = setup.file.bytes[v + 1]
    BY DEF Content
  <2>7. v + 1 = o + j
    BY <1>4, <2>2, <2>5
  <2> QED
    BY <2>3, <2>4, <2>5, <2>6, <2>7
<1> QED
  BY <1>3 DEF Region, Part

-----------------------------------------------------------------------------
(* The scans *)

\* What ContainerAssumption says of a file.
FileRight(f) ==
  /\ f.bytes \in Seq(Int) /\ f.streams \in Seq(Streams)
  /\ \A i \in 1 .. Len(f.streams) : f.streams[i].old > 0 /\ f.streams[i].new > 0

\* A stream that is found from slot i is entered as it is.
LEMMA EntryOfIs ==
  ASSUME Window, findex = 0, FileRight(setup.file), inputSize = Len(setup.file.bytes),
         NEW i \in Slots, NEW z, z = Base + Off(i), NEW k \in 1 .. Len(setup.file.streams),
         NEW s, s = setup.file.streams[k], FoundIn(i, s), NEW e, e = EntryOf(i, s)
  PROVE  EntryRight(setup, z, e)
<1>1. s.pos \in Nat /\ s.old \in Nat /\ s.new \in Nat /\ s.old > 0 /\ s.new > 0
  <2>0. setup.file.streams \in Seq([found : Nat, pos : Nat, old : Nat, new : Nat, ok : BOOLEAN])
    BY DEF FileRight, Streams
  <2>3. PICK T : T = [found : Nat, pos : Nat, old : Nat, new : Nat, ok : BOOLEAN]
    OBVIOUS
  <2>4. setup.file.streams \in Seq(T)
    BY <2>0, <2>3
  <2>5. s \in T
    BY <2>4
  <2>1. s \in [found : Nat, pos : Nat, old : Nat, new : Nat, ok : BOOLEAN]
    BY <2>3, <2>5
  <2>2. s.old > 0 /\ s.new > 0
    BY DEF FileRight
  <2> QED
    BY <2>1, <2>2
<1>2. /\ inputSize \in Nat /\ Base \in Nat /\ i \in Nat /\ Off(i) \in Nat /\ FSize \in Nat
      /\ size[i] \in Nat /\ positions[i] = Base + Off(i)
  <2>1. Base \in Nat /\ i \in Nat /\ Off(i) \in Nat /\ FSize \in Nat /\ inputSize \in Nat /\ size[i] \in Nat
    BY SlotFits, OffFacts DEF Window, WindowTypes, PlaceInv
  <2>2. positions[i] = Base + Off(i) + (IF i < findex THEN Off(FSlots) ELSE 0)
    BY DEF Window, PlaceInv
  <2>3. ~(i < findex)
    BY <2>1
  <2> QED
    BY <2>1, <2>2, <2>3
<1>3. SizeOf(i) \in Nat
  BY <1>2, SizeOfIs
<1>4. PICK at \in Nat : at = s.pos - positions[i]
  BY <1>3 DEF FoundIn
<1>5. s.pos + s.old - positions[i] <= size[i]
  BY DEF FoundIn
<1>6. at + s.old <= size[i]
  BY <1>1, <1>2, <1>4, <1>5, SMTT(40)
<1>7. PICK y \in Int : y = inputSize - z
  BY <1>2
<1>8. size[i] = Clip(2 * FSize, y)
  BY <1>2, <1>7 DEF Window, SizeInv
<1>9. at + s.old <= 2 * FSize /\ at + s.old <= y
  BY <1>1, <1>2, <1>6, <1>8, SMTT(40) DEF Clip
<1>10. z + at + s.old <= inputSize /\ z \in Nat
  <2>1. z \in Nat
    BY <1>2
  <2>2. PICK n \in Nat : n = s.old
    BY <1>1
  <2>3. at + n <= y
    BY <1>9, <2>2
  <2>4. z + at + n <= inputSize
    <3>1. PICK S \in Nat : S = inputSize
      BY <1>2
    <3>2. at + n <= S - z
      BY <1>7, <2>3, <3>1
    <3>3. z + at + n <= S
      BY <2>1, <3>2
    <3> QED
      BY <3>1, <3>3
  <2> QED
    BY <2>1, <2>2, <2>4
<1>11. PICK o \in Nat : o = z + at
  BY <1>10
<1>12. PICK n \in Nat : n = s.old
  BY <1>1
<1>13. Region(i, at, n) = Part(setup, o, n)
  <2>1. at + n <= 2 * FSize /\ z + at + n <= inputSize
    BY <1>9, <1>10, <1>12
  <2>2. setup.file.bytes \in Seq(Int)
    BY DEF FileRight
  <2> QED
    <3>1. z \in Nat
      BY <1>10
    <3>2. InSlot(i, z, at, n, o)
      BY <1>11, <2>1 DEF InSlot
    <3> QED
      BY <2>2, <3>1, <3>2, RegionIs
<1>14. PICK key : key = Region(i, at, n)
  OBVIOUS
<1>15. PICK data : data = [x \in 1 .. s.new |-> [of |-> key, n |-> s.new, k |-> x]]
  OBVIOUS
<1>16. e = [pos |-> at, old |-> n, new |-> s.new, ok |-> s.ok, key |-> key, data |-> data]
  BY <1>4, <1>12, <1>14, <1>15 DEF EntryOf
<1>17. e.pos = at /\ e.old = n /\ e.new = s.new /\ e.key = key /\ e.data = data
  BY <1>16
<1>18. e.data = [x \in 1 .. e.new |-> [of |-> e.key, n |-> e.new, k |-> x]]
  BY <1>15, <1>17
<1>19. e.key = Part(setup, z + e.pos, e.old)
  BY <1>11, <1>13, <1>14, <1>17
<1>20. z + e.pos + e.old <= Len(setup.file.bytes) /\ e.pos + e.old <= 2 * FSize
  BY <1>9, <1>10, <1>12, <1>17
<1>21. e.pos \in Nat /\ e.old \in Nat /\ e.new \in Nat /\ e.old > 0 /\ e.new > 0
  BY <1>1, <1>12, <1>17
<1> QED
  BY <1>18, <1>19, <1>20, <1>21 DEF EntryRight

\* The entries of slot t: the list r with stream s, if it was found there, and
\* the list after each stream of the input.
FoundNext(t, r, s) == IF FoundIn(t, s) THEN Append(r, EntryOf(t, s)) ELSE r

FoundSoFar(t) ==
  LET found[k \in 0 .. Len(setup.file.streams)] ==
        IF k = 0 THEN <<>> ELSE FoundNext(t, found[k - 1], setup.file.streams[k])
  IN found

\* One stream after the other is looked at.
LEMMA FoundSoFarOf ==
  ASSUME NEW t, Len(setup.file.streams) \in Nat
  PROVE  /\ FoundSoFar(t)[0] = <<>>
         /\ \A i \in 1..Len(setup.file.streams) : FoundSoFar(t)[i] = FoundNext(t, FoundSoFar(t)[i - 1], setup.file.streams[i])
<1> DEFINE Solves(g, k) ==
             g = [i \in 0..k |-> IF i = 0 THEN <<>> ELSE FoundNext(t, g[i - 1], setup.file.streams[i])]
           None == {k \in Nat : ~\E g : Solves(g, k)}
<1>1. None = {}
  <2> SUFFICES ASSUME None # {} PROVE FALSE
    OBVIOUS
  <2>1. PICK k \in None : \A m \in None : k <= m
    BY LeastNumber
  <2>2. k # 0
    <3>1. Solves([i \in 0..0 |-> <<>>], 0)
      OBVIOUS
    <3> HIDE DEF Solves
    <3> QED
      BY <3>1, <2>1
  <2>3. k - 1 \in Nat /\ ~(k <= k - 1)
    BY <2>1, <2>2
  <2>4. PICK g : Solves(g, k - 1)
    BY <2>1, <2>3
  <2> DEFINE h == [i \in 0..k |-> IF i = k THEN FoundNext(t, g[k - 1], setup.file.streams[k]) ELSE g[i]]
  <2>5. Solves(h, k)
    <3>1. \A i \in 0..(k - 1) : h[i] = g[i] /\ i \in 0..k
      BY <2>3
    <3>2. ASSUME NEW i \in 0..k
          PROVE  h[i] = IF i = 0 THEN <<>> ELSE FoundNext(t, h[i - 1], setup.file.streams[i])
      <4>1. CASE i = k
        BY <4>1, <3>1, <2>2, <2>3
      <4>2. CASE i # k
        <5>1. i \in 0..(k - 1) /\ (i # 0 => i - 1 \in 0..(k - 1))
          BY <4>2, <2>3
        <5>2. g[i] = IF i = 0 THEN <<>> ELSE FoundNext(t, g[i - 1], setup.file.streams[i])
          BY <5>1, <2>4
        <5> HIDE DEF h
        <5> QED
          BY <5>1, <5>2, <3>1
      <4> QED
        BY <4>1, <4>2
    <3>3. h = [i \in 0..k |-> h[i]]
      OBVIOUS
    <3> HIDE DEF h
    <3> QED
      BY <3>2, <3>3
  <2> HIDE DEF h, Solves
  <2> QED
    BY <2>5, <2>1
<1>2. PICK g : Solves(g, Len(setup.file.streams))
  BY <1>1
<1> DEFINE e == FoundSoFar(t)
<1>3. Solves(e, Len(setup.file.streams))
  BY <1>2 DEF FoundSoFar
<1> HIDE DEF e
<1>4. e[0] = <<>> /\ \A i \in 1..Len(setup.file.streams) : e[i] = FoundNext(t, e[i - 1], setup.file.streams[i])
  <2>1. \A i \in 1..Len(setup.file.streams) : i \in 0..Len(setup.file.streams) /\ i # 0
    OBVIOUS
  <2>2. 0 \in 0..Len(setup.file.streams)
    OBVIOUS
  <2> QED
    BY <1>3, <2>1, <2>2
<1> QED
  BY <1>4 DEF e

\* What the scans find, stream by stream.
LEMMA EntriesAre ==
  ASSUME NEW t
  PROVE  Entries(t) = FoundSoFar(t)[Len(setup.file.streams)]
BY DEF Entries, FoundSoFar, FoundNext

\* Every entry of a slot names the bytes that lie there.
LEMMA EntriesRight ==
  ASSUME Window, findex = 0, FileRight(setup.file), inputSize = Len(setup.file.bytes),
         NEW t \in Slots, NEW z, z = Base + Off(t)
  PROVE  RestRight(setup, z, Entries(t))
<1>1. PICK n \in Nat : n = Len(setup.file.streams)
  BY DEF FileRight
<1> DEFINE f == FoundSoFar(t)
           Good(k) == RestRight(setup, z, f[k])
           Bad == {k \in Nat : k <= n /\ ~Good(k)}
<1>2. f[0] = <<>> /\ \A k \in 1 .. n : f[k] = FoundNext(t, f[k - 1], setup.file.streams[k])
  BY <1>1, FoundSoFarOf
<1> HIDE DEF f
<1>3. Bad = {}
  <2> SUFFICES ASSUME Bad # {} PROVE FALSE
    OBVIOUS
  <2>1. PICK k \in Bad : \A m \in Bad : k <= m
    BY LeastNumber
  <2>2. k # 0
    <3>1. IsList(<<>>) /\ Len(<<>>) = 0
      BY NoneIsList
    <3>2. Good(0)
      BY <1>2, <3>1 DEF RestRight
    <3> HIDE DEF Good
    <3> QED
      BY <2>1, <3>2
  <2>3. k \in 1 .. n /\ k - 1 \in Nat /\ k - 1 <= n /\ ~(k <= k - 1)
    BY <2>1, <2>2
  <2>4. Good(k - 1)
    <3> HIDE DEF Good
    <3> QED
      BY <2>1, <2>3
  <2>5. PICK s : s = setup.file.streams[k]
    OBVIOUS
  <2>6. PICK r : r = f[k - 1] /\ RestRight(setup, z, r)
    BY <2>4
  <2>7. f[k] = FoundNext(t, r, s)
    BY <1>2, <2>3, <2>5, <2>6
  <2>8. Good(k)
    <3>1. CASE FoundIn(t, s)
      <4>1. PICK e : e = EntryOf(t, s)
        OBVIOUS
      <4>2. k \in 1 .. Len(setup.file.streams)
        BY <1>1, <2>3
      <4>3. EntryRight(setup, z, e)
        BY <2>5, <3>1, <4>1, <4>2, EntryOfIs
      <4>4. PICK q : q = f[k]
        OBVIOUS
      <4>5. q = Append(r, e)
        BY <2>7, <3>1, <4>1, <4>4 DEF FoundNext
      <4>6. RestRight(setup, z, q)
        BY <2>6, <4>3, <4>5, AppendKeepsRest
      <4> QED
        BY <4>4, <4>6
    <3>2. CASE ~FoundIn(t, s)
      BY <2>6, <2>7, <3>2 DEF FoundNext
    <3> QED
      BY <3>1, <3>2
  <2> HIDE DEF Good
  <2> QED
    BY <2>1, <2>8
<1>4. Good(n)
  <2> HIDE DEF Good
  <2>1. n <= n
    OBVIOUS
  <2> QED
    BY <1>3, <2>1
<1> QED
  BY <1>1, <1>4, EntriesAre DEF f

\* The walk, entry by entry.
WalkedSoFar ==
  LET upTo[k \in 0 .. Len(info[slot])] ==
        IF k = 0 THEN WalkStart ELSE Walk(upTo[k - 1], info[slot][k])
  IN upTo

\* Every entry is walked over.
LEMMA WalkedSoFarOf ==
  ASSUME Len(info[slot]) \in Nat
  PROVE  /\ WalkedSoFar[0] = WalkStart
         /\ \A i \in 1..Len(info[slot]) : WalkedSoFar[i] = Walk(WalkedSoFar[i - 1], info[slot][i])
<1> DEFINE Solves(g, k) ==
             g = [i \in 0..k |-> IF i = 0 THEN WalkStart ELSE Walk(g[i - 1], info[slot][i])]
           None == {k \in Nat : ~\E g : Solves(g, k)}
<1>1. None = {}
  <2> SUFFICES ASSUME None # {} PROVE FALSE
    OBVIOUS
  <2>1. PICK k \in None : \A m \in None : k <= m
    BY LeastNumber
  <2>2. k # 0
    <3>1. Solves([i \in 0..0 |-> WalkStart], 0)
      OBVIOUS
    <3> HIDE DEF Solves
    <3> QED
      BY <3>1, <2>1
  <2>3. k - 1 \in Nat /\ ~(k <= k - 1)
    BY <2>1, <2>2
  <2>4. PICK g : Solves(g, k - 1)
    BY <2>1, <2>3
  <2> DEFINE h == [i \in 0..k |-> IF i = k THEN Walk(g[k - 1], info[slot][k]) ELSE g[i]]
  <2>5. Solves(h, k)
    <3>1. \A i \in 0..(k - 1) : h[i] = g[i] /\ i \in 0..k
      BY <2>3
    <3>2. ASSUME NEW i \in 0..k
          PROVE  h[i] = IF i = 0 THEN WalkStart ELSE Walk(h[i - 1], info[slot][i])
      <4>1. CASE i = k
        BY <4>1, <3>1, <2>2, <2>3
      <4>2. CASE i # k
        <5>1. i \in 0..(k - 1) /\ (i # 0 => i - 1 \in 0..(k - 1))
          BY <4>2, <2>3
        <5>2. g[i] = IF i = 0 THEN WalkStart ELSE Walk(g[i - 1], info[slot][i])
          BY <5>1, <2>4
        <5> HIDE DEF h
        <5> QED
          BY <5>1, <5>2, <3>1
      <4> QED
        BY <4>1, <4>2
    <3>3. h = [i \in 0..k |-> h[i]]
      OBVIOUS
    <3> HIDE DEF h
    <3> QED
      BY <3>2, <3>3
  <2> HIDE DEF h, Solves
  <2> QED
    BY <2>5, <2>1
<1>2. PICK g : Solves(g, Len(info[slot]))
  BY <1>1
<1> DEFINE e == WalkedSoFar
<1>3. Solves(e, Len(info[slot]))
  BY <1>2 DEF WalkedSoFar
<1> HIDE DEF e
<1>4. e[0] = WalkStart /\ \A i \in 1..Len(info[slot]) : e[i] = Walk(e[i - 1], info[slot][i])
  <2>1. \A i \in 1..Len(info[slot]) : i \in 0..Len(info[slot]) /\ i # 0
    OBVIOUS
  <2>2. 0 \in 0..Len(info[slot])
    OBVIOUS
  <2> QED
    BY <1>3, <2>1, <2>2
<1> QED
  BY <1>4 DEF e

\* The walk begins right.
LEMMA WalkStartIs ==
  ASSUME NEW z, DDRight(setup, dd)
  PROVE  WalkRight(setup, z, lastStream, dd, WalkStart)
<1>1. PICK w : w = WalkStart
  OBVIOUS
<1>2. PICK f : f = FALSE
  OBVIOUS
<1>3. w = [taken |-> <<>>, rest |-> <<>>, headers |-> <<>>, last |-> lastStream,
           memory |-> 0, full |-> f, dd |-> dd]
  BY <1>1, <1>2 DEF WalkStart
<1>4. /\ w.taken = <<>> /\ w.rest = <<>> /\ w.headers = <<>> /\ w.last = lastStream /\ w.dd = dd
      /\ DOMAIN w = WalkFields
  BY <1>3 DEF WalkFields
<1>5. IsList(<<>>) /\ Len(<<>>) = 0
  BY NoneIsList
<1>6. TakenRight(setup, z, lastStream, dd, w)
  <2>1. Begins(lastStream, w.taken, 0 + 1) = lastStream
    BY DEF Begins
  <2> QED
    BY <1>4, <1>5, <2>1 DEF TakenRight
<1>7. RestRight(setup, z, w.rest)
  BY <1>4, <1>5 DEF RestRight
<1>8. Grown(dd, dd)
  BY GrownSame
<1>9. dd.streams = dd.streams + Len(w.taken)
  BY <1>4, <1>5 DEF DDRight
<1> QED
  BY <1>1, <1>4, <1>6, <1>7, <1>8, <1>9 DEF WalkRight

\* The walk ends right.
LEMMA WalkedIs ==
  ASSUME setup.file.bytes \in Seq(Int), DDRight(setup, dd), NEW z \in Nat,
         RestRight(setup, z, info[slot])
  PROVE  WalkRight(setup, z, lastStream, dd, Walked)
<1>1. PICK n \in Nat : n = Len(info[slot])
  <2>1. PICK S : info[slot] \in Seq(S)
    BY DEF RestRight, IsList
  <2> QED
    BY <2>1
<1> DEFINE f == WalkedSoFar
           Good(k) == WalkRight(setup, z, lastStream, dd, f[k])
           Bad == {k \in Nat : k <= n /\ ~Good(k)}
<1>2. f[0] = WalkStart /\ \A k \in 1 .. n : f[k] = Walk(f[k - 1], info[slot][k])
  BY <1>1, WalkedSoFarOf
<1> HIDE DEF f
<1>5. dd.streams \in Nat
  BY DEF DDRight
<1>3. Bad = {}
  <2> SUFFICES ASSUME Bad # {} PROVE FALSE
    OBVIOUS
  <2>1. PICK k \in Bad : \A m \in Bad : k <= m
    BY LeastNumber
  <2>2. k # 0
    <3>2. Good(0)
      BY <1>2, WalkStartIs
    <3> HIDE DEF Good
    <3> QED
      BY <2>1, <3>2
  <2>3. k \in 1 .. n /\ k - 1 \in Nat /\ k - 1 <= n /\ ~(k <= k - 1)
    BY <2>1, <2>2
  <2>4. Good(k - 1)
    <3> HIDE DEF Good
    <3> QED
      BY <2>1, <2>3
  <2>5. PICK e : e = info[slot][k]
    OBVIOUS
  <2>6. PICK w : w = f[k - 1] /\ WalkRight(setup, z, lastStream, dd, w)
    BY <2>4
  <2>7. PICK v : v = f[k] /\ v = Walk(w, e)
    BY <1>2, <2>3, <2>5, <2>6
  <2>8. EntryRight(setup, z, e)
    BY <1>1, <2>3, <2>5 DEF RestRight
  <2>9. WalkRight(setup, z, lastStream, dd, v)
    BY <1>5, <2>6, <2>7, <2>8, WalkKeeps
  <2>10. Good(k)
    BY <2>7, <2>9
  <2> HIDE DEF Good
  <2> QED
    BY <2>1, <2>10
<1>4. Good(n)
  <2> HIDE DEF Good
  <2>1. n <= n
    OBVIOUS
  <2> QED
    BY <1>3, <2>1
<1>6. Walked = WalkedSoFar[Len(info[slot])]
  BY DEF Walked, WalkedSoFar
<1> QED
  BY <1>1, <1>4, <1>6 DEF f

-----------------------------------------------------------------------------
(* The stored bytes of a block *)

\* FlattenSeq, part by part.
PartsLaid(s) ==
  LET flatten[i \in 1 .. Len(s)] == IF i = 1 THEN s[i] ELSE flatten[i - 1] \o s[i]
  IN flatten

\* The parts are laid one behind the other.
LEMMA PartsLaidOf ==
  ASSUME NEW s, Len(s) \in Nat
  PROVE  \A i \in 1..Len(s) :
           PartsLaid(s)[i] = IF i = 1 THEN s[i] ELSE PartsLaid(s)[i - 1] \o s[i]
<1> DEFINE Solves(g, k) ==
             g = [i \in 1..k |-> IF i = 1 THEN s[i] ELSE g[i - 1] \o s[i]]
           None == {k \in Nat : ~\E g : Solves(g, k)}
<1>1. None = {}
  <2> SUFFICES ASSUME None # {} PROVE FALSE
    OBVIOUS
  <2>1. PICK k \in None : \A m \in None : k <= m
    BY LeastNumber
  <2>2. k # 0
    <3>1. Solves([i \in 1..0 |-> s[i]], 0)
      OBVIOUS
    <3> HIDE DEF Solves
    <3> QED
      BY <3>1, <2>1
  <2>3. k - 1 \in Nat /\ ~(k <= k - 1)
    BY <2>1, <2>2
  <2>4. PICK g : Solves(g, k - 1)
    BY <2>1, <2>3
  <2> DEFINE h == [i \in 1..k |-> IF i = k THEN (IF k = 1 THEN s[k] ELSE g[k - 1] \o s[k]) ELSE g[i]]
  <2>5. Solves(h, k)
    <3>1. \A i \in 1..(k - 1) : h[i] = g[i] /\ i \in 1..k
      BY <2>3
    <3>2. ASSUME NEW i \in 1..k
          PROVE  h[i] = IF i = 1 THEN s[i] ELSE h[i - 1] \o s[i]
      <4>1. CASE i = k
        BY <4>1, <3>1, <2>2, <2>3
      <4>2. CASE i # k
        <5>1. i \in 1..(k - 1) /\ (i # 1 => i - 1 \in 1..(k - 1))
          BY <4>2, <2>3
        <5>2. g[i] = IF i = 1 THEN s[i] ELSE g[i - 1] \o s[i]
          BY <5>1, <2>4
        <5> HIDE DEF h
        <5> QED
          BY <5>1, <5>2, <3>1
      <4> QED
        BY <4>1, <4>2
    <3>3. h = [i \in 1..k |-> h[i]]
      OBVIOUS
    <3> HIDE DEF h
    <3> QED
      BY <3>2, <3>3
  <2> HIDE DEF h, Solves
  <2> QED
    BY <2>5, <2>1
<1>2. PICK g : Solves(g, Len(s))
  BY <1>1, Zenon
<1> DEFINE e == PartsLaid(s)
<1>3. Solves(e, Len(s))
  BY <1>2, Zenon DEF PartsLaid
<1> HIDE DEF e
<1>4. \A i \in 1..Len(s) : e[i] = IF i = 1 THEN s[i] ELSE e[i - 1] \o s[i]
  BY <1>3
<1> QED
  BY <1>4 DEF e

\* Where the stored bytes of the first k streams end.
EndsSoFar(b) ==
  LET end[k \in 0 .. Len(b.headers)] == IF k = 0 THEN 0 ELSE end[k - 1] + b.headers[k].new
  IN end

\* Where the stored bytes of each stream end.
LEMMA EndsSoFarOf ==
  ASSUME NEW b, Len(b.headers) \in Nat
  PROVE  /\ EndsSoFar(b) = [i \in 0..Len(b.headers) |-> EndsSoFar(b)[i]]
         /\ EndsSoFar(b)[0] = 0
         /\ \A i \in 1..Len(b.headers) : EndsSoFar(b)[i] = EndsSoFar(b)[i - 1] + b.headers[i].new
<1> DEFINE Solves(g, k) ==
             g = [i \in 0..k |-> IF i = 0 THEN 0 ELSE g[i - 1] + b.headers[i].new]
           None == {k \in Nat : ~\E g : Solves(g, k)}
<1>1. None = {}
  <2> SUFFICES ASSUME None # {} PROVE FALSE
    OBVIOUS
  <2>1. PICK k \in None : \A m \in None : k <= m
    BY LeastNumber
  <2>2. k # 0
    <3>1. Solves([i \in 0..0 |-> 0], 0)
      OBVIOUS
    <3> HIDE DEF Solves
    <3> QED
      BY <3>1, <2>1
  <2>3. k - 1 \in Nat /\ ~(k <= k - 1)
    BY <2>1, <2>2
  <2>4. PICK g : Solves(g, k - 1)
    BY <2>1, <2>3
  <2> DEFINE h == [i \in 0..k |-> IF i = k THEN g[k - 1] + b.headers[k].new ELSE g[i]]
  <2>5. Solves(h, k)
    <3>1. \A i \in 0..(k - 1) : h[i] = g[i] /\ i \in 0..k
      BY <2>3
    <3>2. ASSUME NEW i \in 0..k
          PROVE  h[i] = IF i = 0 THEN 0 ELSE h[i - 1] + b.headers[i].new
      <4>1. CASE i = k
        BY <4>1, <3>1, <2>2, <2>3
      <4>2. CASE i # k
        <5>1. i \in 0..(k - 1) /\ (i # 0 => i - 1 \in 0..(k - 1))
          BY <4>2, <2>3
        <5>2. g[i] = IF i = 0 THEN 0 ELSE g[i - 1] + b.headers[i].new
          BY <5>1, <2>4
        <5> HIDE DEF h
        <5> QED
          BY <5>1, <5>2, <3>1
      <4> QED
        BY <4>1, <4>2
    <3>3. h = [i \in 0..k |-> h[i]]
      OBVIOUS
    <3> HIDE DEF h
    <3> QED
      BY <3>2, <3>3
  <2> HIDE DEF h, Solves
  <2> QED
    BY <2>5, <2>1
<1>2. PICK g : Solves(g, Len(b.headers))
  BY <1>1
<1> DEFINE e == EndsSoFar(b)
<1>3. Solves(e, Len(b.headers))
  BY <1>2 DEF EndsSoFar
<1> HIDE DEF e
<1>4. e[0] = 0 /\ \A i \in 1..Len(b.headers) : e[i] = e[i - 1] + b.headers[i].new
  <2>1. \A i \in 1..Len(b.headers) : i \in 0..Len(b.headers) /\ i # 0
    OBVIOUS
  <2>2. 0 \in 0..Len(b.headers)
    OBVIOUS
  <2> QED
    BY <1>3, <2>1, <2>2
<1>5. e = [i \in 0..Len(b.headers) |-> e[i]]
  BY <1>3
<1> QED
  BY <1>4, <1>5 DEF e

\* List r is s and then t.
Joined(s, t, r) ==
  /\ IsList(r) /\ Len(s) \in Nat /\ Len(t) \in Nat /\ Len(r) = Len(s) + Len(t)
  /\ \A j \in 1 .. Len(s) : r[j] = s[j]
  /\ \A j \in 1 .. Len(t) : r[Len(s) + j] = t[j]

\* Two lists, joined.
LEMMA ListsJoin ==
  ASSUME NEW s, IsList(s), NEW t, IsList(t), NEW r, r = s \o t
  PROVE  Joined(s, t, r)
<1>1. PICK S : s \in Seq(S)
  BY DEF IsList
<1>2. PICK T : t \in Seq(T)
  BY DEF IsList
<1>3. PICK U : U = S \cup T
  OBVIOUS
<1>4. s \in Seq(U)
  <2>1. S \subseteq U
    BY <1>3
  <2> QED
    BY <1>1, <2>1
<1>5. t \in Seq(U)
  <2>1. T \subseteq U
    BY <1>3
  <2> QED
    BY <1>2, <2>1
<1>6. /\ r \in Seq(U) /\ Len(r) = Len(s) + Len(t)
      /\ Len(s) \in Nat /\ Len(t) \in Nat
      /\ \A j \in 1 .. Len(s) : r[j] = s[j]
      /\ \A j \in 1 .. Len(t) : r[Len(s) + j] = t[j]
  BY <1>4, <1>5, JoinIs
<1> QED
  BY <1>6 DEF IsList, Joined

\* A list is known by its elements.
LEMMA ListIs ==
  ASSUME NEW s, IsList(s)
  PROVE  Len(s) \in Nat /\ s = [x \in 1 .. Len(s) |-> s[x]]
<1>1. PICK S : s \in Seq(S)
  BY DEF IsList
<1> QED
  BY <1>1

\* t has the parts of s as far as the i-th, each ending where E says.
Laid(t, s, E, i) ==
  /\ IsList(t) /\ Len(t) = E[i]
  /\ \A j \in 1 .. i : E[j] <= E[i]
  /\ \A j \in 1 .. i : \A x \in 1 .. Len(s[j]) : t[E[j - 1] + x] = s[j][x]

\* Parts and where they end.
Parts(s, E, n) ==
  /\ E \in [0 .. n -> Nat] /\ E[0] = 0
  /\ \A j \in 1 .. n : IsList(s[j]) /\ E[j] = E[j - 1] + Len(s[j])

\* One part more is laid.
LEMMA LaidMore ==
  ASSUME NEW n \in Nat, NEW s, NEW E, Parts(s, E, n), NEW i \in 1 .. n, i > 1,
         NEW r, Laid(r, s, E, i - 1), NEW t, t = r \o s[i]
  PROVE  Laid(t, s, E, i)
<1>1. PICK p : p = s[i]
  OBVIOUS
<1>2. IsList(p) /\ IsList(r) /\ Len(r) = E[i - 1] /\ E[i] = E[i - 1] + Len(p)
  BY <1>1 DEF Parts, Laid
<1>3. /\ IsList(t) /\ Len(r) \in Nat /\ Len(p) \in Nat /\ Len(t) = Len(r) + Len(p)
      /\ \A j \in 1 .. Len(r) : t[j] = r[j]
      /\ \A j \in 1 .. Len(p) : t[Len(r) + j] = p[j]
  <2>1. t = r \o p
    BY <1>1
  <2>2. IsList(r) /\ IsList(p)
    BY <1>2
  <2>3. Joined(r, p, t)
    BY <2>1, <2>2, ListsJoin
  <2> QED
    BY <2>3 DEF Joined
<1>4. PICK e \in Nat, f \in Nat, m \in Nat : e = E[i - 1] /\ f = E[i] /\ m = Len(p)
  BY <1>2, <1>3
<1>5. f = e + m /\ Len(t) = f /\ Len(r) = e
  BY <1>2, <1>3, <1>4
<1>6. ASSUME NEW j \in 1 .. i PROVE E[j] <= E[i]
  <2>1. CASE j = i
    BY <1>4, <2>1
  <2>2. CASE j # i
    <3>1. j \in 1 .. i - 1 /\ j \in 0 .. n
      BY <2>2
    <3>2. E[j] <= e
      BY <1>4, <3>1 DEF Laid
    <3>3. PICK g \in Nat : g = E[j]
      BY <3>1 DEF Parts
    <3> QED
      BY <1>4, <1>5, <3>2, <3>3
  <2> QED
    BY <2>1, <2>2
<1>7. ASSUME NEW j \in 1 .. i, NEW x \in 1 .. Len(s[j]) PROVE t[E[j - 1] + x] = s[j][x]
  <2>1. CASE j = i
    <3>1. x \in 1 .. Len(p)
      BY <1>1, <2>1
    <3>2. t[e + x] = p[x]
      BY <1>3, <1>5, <3>1
    <3> QED
      BY <1>1, <1>4, <2>1, <3>2
  <2>2. CASE j # i
    <3>1. j \in 1 .. i - 1 /\ j \in 0 .. n /\ j - 1 \in 0 .. n /\ j \in 1 .. n
      BY <2>2
    <3>2. PICK g \in Nat, h \in Nat : g = E[j - 1] /\ h = E[j]
      BY <3>1 DEF Parts
    <3>3. h <= e
      BY <1>4, <3>1, <3>2 DEF Laid
    <3>4. IsList(s[j]) /\ h = g + Len(s[j])
      BY <3>1, <3>2 DEF Parts
    <3>5. PICK l \in Nat : l = Len(s[j])
      BY <3>4, ListIs
    <3>6. x \in 1 .. l
      BY <3>5
    <3>7. g + x \in 1 .. e
      BY <3>3, <3>4, <3>5, <3>6
    <3>8. t[g + x] = r[g + x]
      BY <1>3, <1>5, <3>7
    <3>9. r[g + x] = s[j][x]
      BY <3>1, <3>2 DEF Laid
    <3> QED
      BY <3>2, <3>8, <3>9
  <2> QED
    BY <2>1, <2>2
<1> QED
  BY <1>3, <1>4, <1>5, <1>6, <1>7 DEF Laid

\* All parts, one behind the other.
LEMMA FlatIs ==
  ASSUME NEW n \in Nat, n > 0, NEW s, Len(s) = n, NEW E, Parts(s, E, n),
         NEW t, t = FlattenSeq(s)
  PROVE  Laid(t, s, E, n)
<1> DEFINE z == PartsLaid(s)
<1>1. \A i \in 1 .. n : z[i] = IF i = 1 THEN s[i] ELSE z[i - 1] \o s[i]
  BY PartsLaidOf
<1>2. t = z[n]
  BY DEF FlattenSeq, PartsLaid
<1> HIDE DEF z
<1> DEFINE Good(i) == Laid(z[i], s, E, i)
           Bad == {i \in Nat : i > 0 /\ i <= n /\ ~Good(i)}
<1>3. Good(1)
  <2>1. PICK p : p = s[1]
    OBVIOUS
  <2>2. z[1] = p
    BY <1>1, <2>1
  <2>3. IsList(p) /\ E[1] = E[0] + Len(p) /\ E[0] = 0
    <3>1. 1 \in 1 .. n /\ 1 - 1 = 0
      OBVIOUS
    <3>2. IsList(s[1]) /\ E[1] = E[1 - 1] + Len(s[1])
      BY <3>1 DEF Parts
    <3> QED
      BY <2>1, <3>1, <3>2 DEF Parts
  <2>4. Len(p) \in Nat
    BY <2>3, ListIs
  <2>5. E[1] = Len(p)
    BY <2>3, <2>4
  <2>6. ASSUME NEW j \in 1 .. 1, NEW x \in 1 .. Len(s[j]) PROVE p[E[j - 1] + x] = s[j][x]
    <3>1. j = 1 /\ j - 1 = 0
      OBVIOUS
    <3>2. x \in Nat
      BY <2>1, <2>4, <3>1
    <3>3. E[j - 1] + x = x
      BY <2>3, <3>1, <3>2
    <3> QED
      BY <2>1, <3>1, <3>3
  <2>7. \A j \in 1 .. 1 : E[j] <= E[1]
    BY <2>4, <2>5
  <2> QED
    BY <2>2, <2>3, <2>5, <2>6, <2>7 DEF Laid
<1>4. Bad = {}
  <2> SUFFICES ASSUME Bad # {} PROVE FALSE
    OBVIOUS
  <2>1. PICK i \in Bad : \A m \in Bad : i <= m
    BY LeastNumber
  <2>2. i # 1
    <3> HIDE DEF Good
    <3> QED
      BY <1>3, <2>1
  <2>3. i \in 1 .. n /\ i > 1 /\ i - 1 \in Nat /\ i - 1 > 0 /\ i - 1 <= n /\ ~(i <= i - 1)
    BY <2>1, <2>2
  <2>4. Good(i - 1)
    <3> HIDE DEF Good
    <3> QED
      BY <2>1, <2>3
  <2>5. z[i] = z[i - 1] \o s[i]
    BY <1>1, <2>2, <2>3, Zenon
  <2>6. Laid(z[i], s, E, i)
    BY <2>3, <2>4, <2>5, LaidMore
  <2> HIDE DEF Good
  <2> QED
    BY <2>1, <2>6 DEF Good
<1>5. Good(n)
  <2> HIDE DEF Good
  <2> QED
    BY <1>4
<1> QED
  BY <1>2, <1>5

\* What is stored of the streams of a block, as the headers say how much.
Stores(b, s) ==
  /\ Len(b.headers) \in Nat /\ Len(s) = Len(b.headers) /\ b.data = FlattenSeq(s)
  /\ \A j \in 1 .. Len(b.headers) : IsList(s[j]) /\ b.headers[j].new = Len(s[j])

\* The decoder finds it.
LEMMA StoredBytesAre ==
  ASSUME NEW b, NEW s, Stores(b, s), NEW j \in 1 .. Len(b.headers)
  PROVE  StoredBytes(b, j) = s[j]
<1> DEFINE n == Len(b.headers)
           E == EndsSoFar(b)
<1>1. n \in Nat /\ n > 0 /\ Len(s) = n /\ \A k \in 1 .. n : IsList(s[k]) /\ b.headers[k].new = Len(s[k])
  BY DEF Stores
<1>2. E[0] = 0 /\ \A k \in 1 .. n : E[k] = E[k - 1] + b.headers[k].new
  BY <1>1, EndsSoFarOf
<1>3. StoredBytes(b, j) = SubSeq(b.data, E[j - 1] + 1, E[j])
  BY DEF StoredBytes, EndsSoFar
<1>4. DOMAIN E = 0 .. n /\ E = [k \in 0 .. n |-> E[k]]
  BY <1>1, EndsSoFarOf
<1>5. PICK t : t = FlattenSeq(s)
  OBVIOUS
<1>6. b.data = t
  BY <1>5 DEF Stores
<1>7. j \in 1 .. n
  OBVIOUS
<1> HIDE DEF n, E
<1>8. \A k \in 1 .. n : Len(s[k]) \in Nat
  BY <1>1, ListIs
<1> DEFINE Bad == {k \in Nat : k <= n /\ ~(E[k] \in Nat)}
<1>9. Bad = {}
  <2> SUFFICES ASSUME Bad # {} PROVE FALSE
    OBVIOUS
  <2>1. PICK k \in Bad : \A m \in Bad : k <= m
    BY LeastNumber
  <2>2. k # 0
    BY <1>2, <2>1
  <2>3. k \in 1 .. n /\ k - 1 \in Nat /\ k - 1 <= n /\ ~(k <= k - 1)
    BY <1>1, <2>1, <2>2
  <2>4. E[k - 1] \in Nat
    BY <2>1, <2>3
  <2>5. E[k] = E[k - 1] + Len(s[k]) /\ Len(s[k]) \in Nat
    BY <1>1, <1>2, <1>8, <2>3
  <2> QED
    BY <2>1, <2>4, <2>5
<1>10. Parts(s, E, n)
  <2>1. \A k \in 0 .. n : E[k] \in Nat
    BY <1>1, <1>9
  <2>2. E \in [0 .. n -> Nat]
    BY <1>4, <2>1
  <2>3. \A k \in 1 .. n : IsList(s[k]) /\ E[k] = E[k - 1] + Len(s[k])
    BY <1>1, <1>2
  <2> QED
    BY <1>2, <2>2, <2>3 DEF Parts
<1>11. Laid(t, s, E, n)
  BY <1>1, <1>5, <1>10, FlatIs
<1>12. PICK e \in Nat, f \in Nat, l \in Nat : e = E[j - 1] /\ f = E[j] /\ l = Len(s[j])
  <2>1. j - 1 \in 0 .. n /\ j \in 0 .. n
    BY <1>1, <1>7
  <2> QED
    BY <1>7, <1>8, <1>10, <2>1 DEF Parts
<1>13. f = e + l
  BY <1>7, <1>10, <1>12 DEF Parts
<1>14. PICK L \in Nat : L = Len(t) /\ f <= L
  <2>1. IsList(t) /\ Len(t) = E[n] /\ E[j] <= E[n]
    BY <1>7, <1>11 DEF Laid
  <2>2. Len(t) \in Nat
    BY <2>1, ListIs
  <2> QED
    BY <1>12, <2>1, <2>2
<1>15. PICK S : t \in Seq(S)
  BY <1>11 DEF Laid, IsList
<1>16. PICK r : r = SubSeq(t, e + 1, f)
  OBVIOUS
<1>17. /\ r \in Seq(S) /\ Len(r) = IF e < f THEN f - e ELSE 0
       /\ \A x \in 1 .. Len(r) : r[x] = t[e + x]
  <2>1. f \in Int /\ f <= Len(t)
    BY <1>14
  <2> QED
    BY <1>15, <1>16, <2>1, PieceIs
<1>18. Len(r) = l
  BY <1>13, <1>17
<1>19. \A x \in 1 .. l : r[x] = s[j][x]
  <2>1. \A x \in 1 .. l : t[e + x] = s[j][x]
    BY <1>7, <1>11, <1>12 DEF Laid
  <2> QED
    BY <1>17, <1>18, <2>1
<1>20. r = [x \in 1 .. l |-> r[x]]
  BY <1>17, <1>18
<1>21. s[j] = [x \in 1 .. l |-> s[j][x]]
  BY <1>1, <1>7, <1>12, ListIs
<1>22. r = s[j]
  BY <1>19, <1>20, <1>21, SMTT(40)
<1> QED
  BY <1>3, <1>6, <1>12, <1>16, <1>22

-----------------------------------------------------------------------------
(* The block of a walk *)

\* A stream is written exactly if its header is not that of a reference.
LEMMA IsWrittenIs ==
  ASSUME NEW w, DDRight(setup, w.dd), NEW j, NEW i \in Nat, i = dd.written + j - 1,
         Recorded(setup, w.dd, w.headers[j], w.taken[j], i)
  PROVE  /\ w.headers[j].dup \in BOOLEAN /\ (IsWritten(w, j) <=> ~w.headers[j].dup)
<1>1. PICK d, e, h : d = w.dd /\ e = w.taken[j] /\ h = w.headers[j]
  OBVIOUS
<1>2. DDRight(setup, d) /\ Recorded(setup, d, h, e, i)
  BY <1>1
<1>3. FirstsRight(d) /\ DupsRight(d)
  BY <1>2 DEF DDRight
<1>4. Len(d.firsts) \in Nat
  BY <1>3 DEF FirstsRight
<1>5. PICK y : y = FirstOf(d, e)
  OBVIOUS
<1>6. /\ y \in 0 .. Len(d.firsts)
      /\ y # 0 => setup.dedup /\ d.firsts[y].key = e.key
      /\ y = 0 => ~setup.dedup \/ \A z \in 1 .. Len(d.firsts) : d.firsts[z].key # e.key
  BY <1>4, <1>5, FirstOfIs
<1>7. IsWritten(w, j) <=> y = 0 \/ d.firsts[y].index = i
  BY <1>1, <1>5 DEF IsWritten
<1>8. ASSUME setup.dedup, NEW z \in 1 .. Len(d.firsts), d.firsts[z].key = e.key
      PROVE  y = z
  <2>1. y # 0
    BY <1>6, <1>8
  <2>2. y \in 1 .. Len(d.firsts) /\ d.firsts[y].key = d.firsts[z].key
    BY <1>6, <1>8, <2>1
  <2>3. \A a, c \in 1 .. Len(d.firsts) : d.firsts[a].key = d.firsts[c].key => a = c
    BY <1>2, <1>8 DEF DDRight
  <2> QED
    BY <1>8, <2>2, <2>3
<1>9. CASE /\ h.dup = TRUE /\ setup.dedup
           /\ \E q \in 1 .. Len(d.dups) : d.dups[q].stream = i /\ d.firsts[d.dups[q].first].key = e.key
  <2>1. PICK q \in 1 .. Len(d.dups) : d.dups[q].stream = i /\ d.firsts[d.dups[q].first].key = e.key
    BY <1>9
  <2>2. PICK z \in 1 .. Len(d.firsts) : z = d.dups[q].first
    BY <1>3, DupIs
  <2>3. y = z
    BY <1>8, <1>9, <2>1, <2>2
  <2>4. d.firsts[z].index < i
    BY <1>3, <2>1, <2>2 DEF DupsRight
  <2>5. d.firsts[z].index \in Nat
    BY <1>3, FirstIsOf
  <2>6. y # 0 /\ d.firsts[y].index # i
    BY <2>3, <2>4, <2>5
  <2> QED
    BY <1>1, <1>7, <1>9, <2>6
<1>10. CASE /\ h.dup = FALSE
            /\ setup.dedup => \E z \in 1 .. Len(d.firsts) : d.firsts[z].index = i /\ d.firsts[z].key = e.key
  <2>1. y = 0 \/ d.firsts[y].index = i
    <3>1. CASE ~setup.dedup
      BY <1>6, <3>1
    <3>2. CASE setup.dedup
      <4>1. PICK z \in 1 .. Len(d.firsts) : d.firsts[z].index = i /\ d.firsts[z].key = e.key
        BY <1>10, <3>2
      <4>2. y = z
        BY <1>8, <3>2, <4>1
      <4> QED
        BY <4>1, <4>2
    <3> QED
      BY <3>1, <3>2
  <2> QED
    BY <1>1, <1>7, <1>10, <2>1
<1> QED
  BY <1>2, <1>9, <1>10, Zenon DEF Recorded

\* The j-th entry of a walk, and its header.
LEMMA TakenIs ==
  ASSUME NEW z, NEW l, NEW d, d.streams \in Nat, NEW w, WalkRight(setup, z, l, d, w),
         NEW j \in 1 .. Len(w.taken)
  PROVE  /\ EntryRight(setup, z, w.taken[j]) /\ Begins(l, w.taken, j) <= w.taken[j].pos
         /\ d.streams + j - 1 \in Nat
         /\ Recorded(setup, w.dd, w.headers[j], w.taken[j], d.streams + j - 1)
<1>1. TakenRight(setup, z, l, d, w)
  BY DEF WalkRight
<1>2. Len(w.taken) \in Nat
  BY <1>1 DEF TakenRight
<1>3. d.streams + j - 1 \in Nat
  BY <1>2
<1> QED
  BY <1>1, <1>3 DEF TakenRight

\* The data of an entry.
LEMMA DataIs ==
  ASSUME NEW z, NEW e, EntryRight(setup, z, e)
  PROVE  IsList(e.data) /\ Len(e.data) = e.new
<1>1. PICK n \in Nat : n = e.new
  BY DEF EntryRight
<1>2. PICK t : t = [x \in 1 .. n |-> [of |-> e.key, n |-> e.new, k |-> x]]
  OBVIOUS
<1>3. e.data = t
  BY <1>1, <1>2 DEF EntryRight
<1>4. PICK S : S = {t[x] : x \in 1 .. n}
  OBVIOUS
<1>5. t \in [1 .. n -> S]
  BY <1>2, <1>4
<1>6. t \in Seq(S) /\ Len(t) = n
  BY <1>5
<1> QED
  BY <1>1, <1>3, <1>6 DEF IsList

\* What of the j-th stream is stored.
StoredOf(w, j) == IF IsWritten(w, j) THEN w.taken[j].data ELSE <<>>

\* The parts are stored as the headers say how much.
LEMMA WalkStores ==
  ASSUME DDRight(setup, dd), dd.written = dd.streams, NEW z, NEW l, NEW w,
         WalkRight(setup, z, l, dd, w), NEW b, b = BlockOfWalk(w)
  PROVE  /\ Len(b.headers) = Len(w.taken) /\ Len(w.taken) \in Nat
         /\ \A j \in 1 .. Len(w.taken) : StoredBytes(b, j) = StoredOf(w, j)
<1>1. dd.streams \in Nat
  BY DEF DDRight
<1>2. PICK n \in Nat : n = Len(w.taken) /\ Len(w.headers) = n
  BY DEF WalkRight, TakenRight
<1>3. PICK s : s = [j \in 1 .. n |-> StoredOf(w, j)]
  OBVIOUS
<1>4. b.headers = w.headers /\ b.data = FlattenSeq(s)
  BY <1>2, <1>3 DEF BlockOfWalk, StoredOf
<1>5. Len(s) = n
  <2>1. PICK S : S = {s[x] : x \in 1 .. n}
    OBVIOUS
  <2>2. s \in [1 .. n -> S]
    BY <1>3, <2>1
  <2> QED
    BY <2>2
<1>6. ASSUME NEW j \in 1 .. n PROVE IsList(s[j]) /\ b.headers[j].new = Len(s[j])
  <2>1. PICK i \in Nat : i = dd.streams + j - 1
    BY <1>1
  <2>2. /\ EntryRight(setup, z, w.taken[j])
        /\ Recorded(setup, w.dd, w.headers[j], w.taken[j], i)
    BY <1>1, <1>2, <2>1, TakenIs
  <2>3. DDRight(setup, w.dd) /\ i = dd.written + j - 1
    BY <2>1 DEF WalkRight
  <2>4. w.headers[j].dup \in BOOLEAN /\ (IsWritten(w, j) <=> ~w.headers[j].dup)
    BY <2>2, <2>3, IsWrittenIs
  <2>5. s[j] = IF IsWritten(w, j) THEN w.taken[j].data ELSE <<>>
    BY <1>3 DEF StoredOf
  <2>6. CASE w.headers[j].dup
    <3>1. s[j] = <<>>
      BY <2>4, <2>5, <2>6
    <3>2. w.headers[j].new = 0
      BY <2>2, <2>6 DEF Recorded
    <3> QED
      BY <1>4, <3>1, <3>2, NoneIsList
  <2>7. CASE ~w.headers[j].dup
    <3>1. s[j] = w.taken[j].data
      BY <2>4, <2>5, <2>7
    <3>2. w.headers[j].new = w.taken[j].new
      BY <2>2, <2>7 DEF Recorded
    <3>3. IsList(w.taken[j].data) /\ Len(w.taken[j].data) = w.taken[j].new
      BY <2>2, DataIs
    <3> QED
      BY <1>4, <3>1, <3>2, <3>3
  <2> QED
    BY <2>6, <2>7
<1>7. Stores(b, s)
  BY <1>2, <1>4, <1>5, <1>6 DEF Stores
<1>8. ASSUME NEW j \in 1 .. n PROVE StoredBytes(b, j) = s[j]
  <2>1. j \in 1 .. Len(b.headers)
    BY <1>2, <1>4
  <2> QED
    BY <1>7, <2>1, StoredBytesAre
<1> QED
  BY <1>2, <1>3, <1>4, <1>8

\* Slot is one whose bytes from z on are to be written, and those before
\* lastStream have been.
AtSlot(z) ==
  /\ Window /\ setup.file.bytes \in Seq(Int) /\ inputSize = Len(setup.file.bytes)
  /\ slot \in Slots
  /\ findex = 0 \/ findex < slot
  /\ z = Base + Off(slot)

\* The bytes between two streams.
LEMMA GapIs ==
  ASSUME NEW z \in Nat, AtSlot(z), NEW p \in Nat, NEW q \in Nat, p <= q, q <= 2 * FSize,
         NEW S \in Nat, S = Len(setup.file.bytes), z + q <= S
  PROVE  Region(slot, p, q - p) = Part(setup, z + p, q - p)
<1>1. /\ Window /\ setup.file.bytes \in Seq(Int) /\ inputSize = Len(setup.file.bytes)
      /\ slot \in Slots
      /\ findex = 0 \/ findex < slot
      /\ z = Base + Off(slot)
  BY DEF AtSlot
<1>2. PICK n \in Nat : n = q - p
  OBVIOUS
<1>3. PICK o \in Nat : o = z + p
  OBVIOUS
<1>4. p + n = q /\ z + p + n = z + q
  BY <1>2
<1>5. InSlot(slot, z, p, n, o)
  BY <1>1, <1>3, <1>4 DEF InSlot
<1>6. Region(slot, p, n) = Part(setup, o, n)
  <2>1. /\ Window /\ setup.file.bytes \in Seq(Int) /\ inputSize = Len(setup.file.bytes)
        /\ slot \in Slots
    BY <1>1
  <2> QED
    BY <1>5, <2>1, RegionIs
<1> QED
  BY <1>2, <1>3, <1>6

\* A stream of the block.
LEMMA StreamOfWalk ==
  ASSUME NEW z \in Nat, AtSlot(z), lastStream \in Nat, DDRight(setup, dd), dd.written = dd.streams,
         NEW w, WalkRight(setup, z, lastStream, dd, w), NEW b, b = BlockOfWalk(w),
         NEW j \in 1 .. Len(w.taken), NEW i \in Nat, i = dd.streams + j - 1,
         NEW p \in Nat, p = Begins(lastStream, w.taken, j),
         NEW q \in Nat, q = w.taken[j].pos + w.taken[j].old
  PROVE  StreamRight(setup, w.dd, b, j, i, z + p, z + q)
<1>1. PICK e, h, d : e = w.taken[j] /\ h = w.headers[j] /\ d = w.dd
  OBVIOUS
<1>2. dd.streams \in Nat
  BY DEF DDRight
<1>3. /\ EntryRight(setup, z, e) /\ p <= e.pos /\ Recorded(setup, d, h, e, i)
  BY <1>1, <1>2, TakenIs
<1>4. DDRight(setup, d)
  BY <1>1 DEF WalkRight
<1>5. PICK r \in Nat, n \in Nat : r = e.pos /\ n = e.old
  BY <1>3 DEF EntryRight
<1>6. PICK S \in Nat : S = Len(setup.file.bytes)
  BY DEF AtSlot
<1>7. n > 0 /\ z + r + n <= S /\ r + n <= 2 * FSize /\ p <= r /\ q = r + n
  BY <1>1, <1>3, <1>5, <1>6 DEF EntryRight
<1>8. FSize \in Nat
  BY OffFacts
<1>9. r <= 2 * FSize /\ z + r <= S
  BY <1>7, <1>8
<1>10. PICK a \in Nat, s \in Nat, to \in Nat : a = z + p /\ s = z + r /\ to = z + q
  <2>1. z + p \in Nat /\ z + r \in Nat /\ z + q \in Nat
    OBVIOUS
  <2> QED
    BY <2>1, Zenon
<1>11. Region(slot, p, r - p) = Part(setup, a, s - a)
  <2>1. Region(slot, p, r - p) = Part(setup, z + p, r - p)
    BY <1>6, <1>7, <1>9, GapIs
  <2>2. s - a = r - p
    BY <1>10
  <2> QED
    BY <1>10, <2>1, <2>2
<1>12. b.gaps[j] = Part(setup, a, s - a)
  <2>1. EndBefore(w, j) = p
    BY DEF EndBefore, Begins
  <2>2. b.gaps[j] = Region(slot, EndBefore(w, j), w.taken[j].pos - EndBefore(w, j))
    BY DEF BlockOfWalk
  <2> QED
    BY <1>1, <1>5, <1>11, <2>1, <2>2
<1>13. a <= s /\ to = s + n /\ to <= S
  BY <1>7, <1>10
<1>14. e.key = Part(setup, s, n)
  BY <1>3, <1>5, <1>10 DEF EntryRight
<1>15. StoredBytes(b, j) = StoredOf(w, j) /\ b.headers[j] = h
  <2>1. StoredBytes(b, j) = StoredOf(w, j)
    BY WalkStores
  <2>2. b.headers = w.headers
    BY DEF BlockOfWalk
  <2> QED
    BY <1>1, <2>1, <2>2
<1>16. IsWritten(w, j) <=> ~h.dup
  <2>1. i = dd.written + j - 1
    OBVIOUS
  <2> QED
    BY <1>1, <1>3, <1>4, <2>1, IsWrittenIs
<1>17. ReferenceRight(setup, d, b, j, i, s, n) \/ StoredRight(setup, d, b, j, i, s, n)
  <2>1. CASE h.dup = TRUE
    <3>1. \E x \in 1 .. Len(d.dups) :
            /\ d.dups[x].stream = i /\ h.option = d.firsts[d.dups[x].first].index
            /\ d.firsts[d.dups[x].first].key = e.key
      BY <1>3, <2>1 DEF Recorded
    <3> QED
      BY <1>14, <1>15, <2>1, <3>1 DEF ReferenceRight
  <2>2. CASE ~(h.dup = TRUE)
    <3>1. /\ h.dup = FALSE /\ h.old = e.old /\ h.new = e.new
          /\ \A x \in 1 .. Len(d.dups) : d.dups[x].stream # i
          /\ setup.dedup => \E x \in 1 .. Len(d.firsts) : d.firsts[x].index = i /\ d.firsts[x].key = e.key
      BY <1>3, <2>2 DEF Recorded
    <3>2. StoredBytes(b, j) = e.data
      BY <1>1, <1>15, <1>16, <3>1 DEF StoredOf
    <3>3. PICK k \in Nat : k = e.new /\ k > 0
      BY <1>3 DEF EntryRight
    <3>4. PICK key : key = Part(setup, s, n)
      OBVIOUS
    <3>5. e.key = key
      BY <1>14, <3>4
    <3>6. StoredBytes(b, j) = [x \in 1 .. k |-> [of |-> key, n |-> k, k |-> x]]
      BY <1>3, <3>2, <3>3, <3>5 DEF EntryRight
    <3>7. \E y \in Nat : /\ y > 0
                         /\ StoredBytes(b, j) = [x \in 1 .. y |-> [of |-> key, n |-> y, k |-> x]]
      BY <3>3, <3>6
    <3>8. b.headers[j].dup = FALSE /\ b.headers[j].old = n
      BY <1>5, <1>15, <3>1
    <3>9. setup.dedup => \E x \in 1 .. Len(d.firsts) : d.firsts[x].index = i /\ d.firsts[x].key = key
      BY <3>1, <3>5
    <3> QED
      BY <3>1, <3>4, <3>7, <3>8, <3>9 DEF StoredRight
  <2> QED
    BY <2>1, <2>2
<1>18. to <= Len(setup.file.bytes)
  BY <1>6, <1>13
<1>19. StreamRight(setup, d, b, j, i, a, to)
  BY <1>7, <1>12, <1>13, <1>17, <1>18 DEF StreamRight
<1> QED
  BY <1>1, <1>10, <1>19

\* Where the block that walk w makes ends: at the end of the slot or of the last
\* stream, whichever is later, or, when entries are left, behind the last stream.
EndsAt(w, z, c) ==
  \/ w.rest = <<>> /\ c = z + (IF w.last < SizeOf(slot) THEN SizeOf(slot) ELSE w.last)
  \/ w.rest # <<>> /\ c = z + w.last

\* Where the bytes before the j-th stream of a walk begin, and those behind the
\* last one.
LEMMA BeginsIs ==
  ASSUME NEW z \in Nat, NEW l \in Nat, z + l <= Len(setup.file.bytes), NEW d, d.streams \in Nat,
         NEW w, WalkRight(setup, z, l, d, w)
  PROVE  /\ Len(w.taken) \in Nat
         /\ \A j \in 1 .. Len(w.taken) + 1 :
              /\ Begins(l, w.taken, j) \in Nat
              /\ z + Begins(l, w.taken, j) <= Len(setup.file.bytes)
         /\ w.last = Begins(l, w.taken, Len(w.taken) + 1)
<1>1. PICK n \in Nat : n = Len(w.taken) /\ w.last = Begins(l, w.taken, n + 1)
  BY DEF WalkRight, TakenRight
<1>2. ASSUME NEW j \in 1 .. n + 1
      PROVE  Begins(l, w.taken, j) \in Nat /\ z + Begins(l, w.taken, j) <= Len(setup.file.bytes)
  <2>1. CASE j = 1
    BY <2>1 DEF Begins
  <2>2. CASE j # 1
    <3>1. j - 1 \in 1 .. n
      BY <2>2
    <3>2. EntryRight(setup, z, w.taken[j - 1])
      BY <1>1, <3>1, TakenIs
    <3>3. PICK e : e = w.taken[j - 1]
      OBVIOUS
    <3>4. PICK p \in Nat, o \in Nat : p = e.pos /\ o = e.old
      BY <3>2, <3>3 DEF EntryRight
    <3>5. z + p + o <= Len(setup.file.bytes)
      BY <3>2, <3>3, <3>4 DEF EntryRight
    <3>6. Begins(l, w.taken, j) = p + o
      BY <2>2, <3>3, <3>4 DEF Begins
    <3>7. z + p + o = z + (p + o)
      OBVIOUS
    <3> QED
      BY <3>5, <3>6, <3>7
  <2> QED
    BY <2>1, <2>2
<1> QED
  BY <1>1, <1>2

\* The bytes behind the last stream.
LEMMA TailIs ==
  ASSUME NEW z \in Nat, AtSlot(z), NEW b, NEW w, b = BlockOfWalk(w), NEW n \in Nat, n = Len(w.taken),
         NEW p \in Nat, p = Begins(lastStream, w.taken, n + 1), p = w.last,
         z + p <= Len(setup.file.bytes), NEW c, EndsAt(w, z, c), NEW a, a = z + p
  PROVE  /\ c \in Nat /\ a <= c /\ c <= Len(setup.file.bytes) /\ b.tail = Part(setup, a, c - a)
<1>1. Window /\ slot \in Slots /\ findex <= slot /\ z = Base + Off(slot) /\ inputSize = Len(setup.file.bytes)
  <2>1. findex \in Nat /\ slot \in Nat
    BY DEF AtSlot, Window, WindowTypes, Slots
  <2> QED
    BY <2>1 DEF AtSlot
<1>2. PICK S \in Nat : S = Len(setup.file.bytes)
  BY DEF AtSlot
<1>3. FSize \in Nat
  BY OffFacts
<1>4. PICK k \in Nat : k = SizeOf(slot) /\ k <= FSize /\ k = Clip(FSize, S - z)
  BY <1>1, <1>2, SizeOfIs
<1>5. z <= S /\ z + p <= S
  BY <1>2
<1>6. z + k <= S
  BY <1>3, <1>4, <1>5 DEF Clip
<1>7. EndBefore(w, n + 1) = p
  BY DEF EndBefore, Begins
<1>8. w.rest # <<>> => b.tail = <<>>
  BY DEF BlockOfWalk
<1>9. w.rest = <<>> => b.tail = Region(slot, p, k - p)
  BY <1>4, <1>7 DEF BlockOfWalk
<1>10. Part(setup, a, a - a) = <<>>
  <2>1. a - a = 0
    OBVIOUS
  <2> QED
    BY <2>1 DEF Part
<1>11. CASE w.rest # <<>>
  <2>1. c = a
    BY <1>11 DEF EndsAt
  <2> QED
    BY <1>5, <1>8, <1>10, <1>11, <1>2, <2>1
<1>12. CASE w.rest = <<>> /\ p < k
  <2>1. c = z + k
    BY <1>4, <1>12 DEF EndsAt
  <2>2. k <= 2 * FSize
    BY <1>3, <1>4
  <2>3. Region(slot, p, k - p) = Part(setup, z + p, k - p)
    <3>1. p <= k
      BY <1>12
    <3> QED
      BY <1>2, <1>6, <2>2, <3>1, GapIs
  <2>4. c - a = k - p
    BY <2>1
  <2>5. c \in Nat /\ a <= c /\ c <= S
    BY <1>6, <1>12, <2>1
  <2> QED
    BY <1>2, <1>9, <1>12, <2>3, <2>4, <2>5
<1>13. CASE w.rest = <<>> /\ ~(p < k)
  <2>1. c = a
    BY <1>4, <1>13 DEF EndsAt
  <2>2. Region(slot, p, k - p) = <<>>
    <3>1. 1 .. (k - p) = {}
      BY <1>13
    <3> QED
      BY <3>1 DEF Region
  <2> QED
    BY <1>2, <1>5, <1>9, <1>10, <1>13, <2>1, <2>2
<1> QED
  BY <1>11, <1>12, <1>13

\* The block of a walk is the part of the input from lastStream to its end.
LEMMA BlockOfWalkIs ==
  ASSUME NEW z \in Nat, AtSlot(z), lastStream \in Nat, z + lastStream <= Len(setup.file.bytes),
         DDRight(setup, dd), dd.written = dd.streams,
         NEW w, WalkRight(setup, z, lastStream, dd, w), NEW b, b = BlockOfWalk(w),
         NEW c, EndsAt(w, z, c), NEW a, a = z + lastStream, NEW i, i = dd.streams
  PROVE  BlockRight(setup, w.dd, b, a, i, c) /\ c \in Nat /\ Len(b.headers) = Len(w.taken)
<1> DEFINE l == lastStream
<1>1. i \in Nat /\ i = dd.written
  BY DEF DDRight
<1>2. /\ Len(w.taken) \in Nat
      /\ \A j \in 1 .. Len(w.taken) + 1 :
              /\ Begins(l, w.taken, j) \in Nat
              /\ z + Begins(l, w.taken, j) <= Len(setup.file.bytes)
      /\ w.last = Begins(l, w.taken, Len(w.taken) + 1)
  BY <1>1, BeginsIs
<1>3. PICK n \in Nat : n = Len(w.taken)
  BY <1>2
<1> DEFINE B(j) == Begins(l, w.taken, j)
<1>4. PICK E : E = [j \in 0 .. n |-> z + B(j + 1)]
  OBVIOUS
<1>5. Len(b.headers) = n
  BY <1>3, WalkStores
<1>6. E \in [0 .. n -> Nat]
  <2>1. ASSUME NEW j \in 0 .. n PROVE z + B(j + 1) \in Nat
    <3>1. j + 1 \in 1 .. n + 1
      OBVIOUS
    <3> HIDE DEF B
    <3>2. B(j + 1) \in Nat
      BY <1>2, <1>3, <3>1 DEF B
    <3> QED
      BY <3>2
  <2> HIDE DEF B
  <2> QED
    BY <1>4, <2>1
<1>7. E[0] = a
  <2>1. 0 \in 0 .. n /\ 0 + 1 = 1
    OBVIOUS
  <2>2. E[0] = z + B(1)
    BY <1>4, <2>1
  <2>3. B(1) = l
    BY DEF Begins
  <2> QED
    BY <2>2, <2>3
<1>8. PICK p \in Nat : p = Begins(l, w.taken, n + 1) /\ p = w.last /\ z + p <= Len(setup.file.bytes)
  <2>1. n + 1 \in 1 .. n + 1
    OBVIOUS
  <2> QED
    BY <1>2, <1>3, <2>1
<1>9. PICK e \in Nat : e = z + p
  OBVIOUS
<1>10. c \in Nat /\ e <= c /\ c <= Len(setup.file.bytes) /\ b.tail = Part(setup, e, c - e)
  BY <1>3, <1>8, <1>9, TailIs, SMTT(40)
<1>11. E[n] = e
  BY <1>4, <1>8, <1>9
<1>12. ASSUME NEW j \in 1 .. n
       PROVE  StreamRight(setup, w.dd, b, j, i + j - 1, E[j - 1], E[j])
  <2>1. PICK k \in Nat : k = i + j - 1
    BY <1>1
  <2>2. PICK f \in Nat : f = Begins(l, w.taken, j)
    <3>1. j \in 1 .. n + 1
      OBVIOUS
    <3> QED
      BY <1>2, <1>3, <3>1
  <2>3. EntryRight(setup, z, w.taken[j])
    BY <1>1, <1>3, TakenIs
  <2>4. PICK g \in Nat : g = w.taken[j].pos + w.taken[j].old
    BY <2>3 DEF EntryRight
  <2>5. E[j - 1] = z + f
    <3>1. j - 1 \in 0 .. n /\ (j - 1) + 1 = j
      OBVIOUS
    <3> QED
      BY <1>4, <2>2, <3>1
  <2>6. E[j] = z + g
    <3>1. j \in 0 .. n /\ j + 1 # 1 /\ (j + 1) - 1 = j
      OBVIOUS
    <3>2. Begins(l, w.taken, j + 1) = g
      BY <2>4, <3>1 DEF Begins
    <3> QED
      BY <1>4, <3>1, <3>2
  <2>7. k = dd.streams + j - 1
    BY <2>1
  <2>8. StreamRight(setup, w.dd, b, j, k, z + f, z + g)
    BY <1>3, <2>2, <2>4, <2>7, StreamOfWalk
  <2> QED
    BY <2>1, <2>5, <2>6, <2>8
<1> QED
  BY <1>3, <1>5, <1>6, <1>7, <1>10, <1>11, <1>12 DEF BlockRight

-----------------------------------------------------------------------------
(* The table of the streams that come again *)

\* The table r with the stream f, if it comes again, and the table after each
\* stream that was new.
TableNext(r, f) == IF f.count > 0 THEN Append(r, [index |-> f.index, count |-> f.count]) ELSE r

TableSoFar ==
  LET upTo[z \in 0 .. Len(dd.firsts)] ==
        IF z = 0 THEN <<>> ELSE TableNext(upTo[z - 1], dd.firsts[z])
  IN upTo

\* One first stream after the other is entered.
LEMMA TableSoFarOf ==
  ASSUME Len(dd.firsts) \in Nat
  PROVE  /\ TableSoFar[0] = <<>>
         /\ \A i \in 1..Len(dd.firsts) : TableSoFar[i] = TableNext(TableSoFar[i - 1], dd.firsts[i])
<1> DEFINE Solves(g, k) ==
             g = [i \in 0..k |-> IF i = 0 THEN <<>> ELSE TableNext(g[i - 1], dd.firsts[i])]
           None == {k \in Nat : ~\E g : Solves(g, k)}
<1>1. None = {}
  <2> SUFFICES ASSUME None # {} PROVE FALSE
    OBVIOUS
  <2>1. PICK k \in None : \A m \in None : k <= m
    BY LeastNumber
  <2>2. k # 0
    <3>1. Solves([i \in 0..0 |-> <<>>], 0)
      OBVIOUS
    <3> HIDE DEF Solves
    <3> QED
      BY <3>1, <2>1
  <2>3. k - 1 \in Nat /\ ~(k <= k - 1)
    BY <2>1, <2>2
  <2>4. PICK g : Solves(g, k - 1)
    BY <2>1, <2>3
  <2> DEFINE h == [i \in 0..k |-> IF i = k THEN TableNext(g[k - 1], dd.firsts[k]) ELSE g[i]]
  <2>5. Solves(h, k)
    <3>1. \A i \in 0..(k - 1) : h[i] = g[i] /\ i \in 0..k
      BY <2>3
    <3>2. ASSUME NEW i \in 0..k
          PROVE  h[i] = IF i = 0 THEN <<>> ELSE TableNext(h[i - 1], dd.firsts[i])
      <4>1. CASE i = k
        BY <4>1, <3>1, <2>2, <2>3
      <4>2. CASE i # k
        <5>1. i \in 0..(k - 1) /\ (i # 0 => i - 1 \in 0..(k - 1))
          BY <4>2, <2>3
        <5>2. g[i] = IF i = 0 THEN <<>> ELSE TableNext(g[i - 1], dd.firsts[i])
          BY <5>1, <2>4
        <5> HIDE DEF h
        <5> QED
          BY <5>1, <5>2, <3>1
      <4> QED
        BY <4>1, <4>2
    <3>3. h = [i \in 0..k |-> h[i]]
      OBVIOUS
    <3> HIDE DEF h
    <3> QED
      BY <3>2, <3>3
  <2> HIDE DEF h, Solves
  <2> QED
    BY <2>5, <2>1
<1>2. PICK g : Solves(g, Len(dd.firsts))
  BY <1>1
<1> DEFINE e == TableSoFar
<1>3. Solves(e, Len(dd.firsts))
  BY <1>2 DEF TableSoFar
<1> HIDE DEF e
<1>4. e[0] = <<>> /\ \A i \in 1..Len(dd.firsts) : e[i] = TableNext(e[i - 1], dd.firsts[i])
  <2>1. \A i \in 1..Len(dd.firsts) : i \in 0..Len(dd.firsts) /\ i # 0
    OBVIOUS
  <2>2. 0 \in 0..Len(dd.firsts)
    OBVIOUS
  <2> QED
    BY <1>3, <2>1, <2>2
<1> QED
  BY <1>4 DEF e

\* r is the table of the first z streams of d.
TableUpTo(d, r, z) ==
  /\ r \in Seq(TableEntry)
  /\ \A l \in 1 .. Len(r) : \E y \in 1 .. z :
       /\ d.firsts[y].index = r[l].index /\ d.firsts[y].count = r[l].count
       /\ r[l].count > 0
  /\ \A y \in 1 .. z :
       d.firsts[y].count > 0 => \E l \in 1 .. Len(r) : r[l].index = d.firsts[y].index
  /\ \A l, m \in 1 .. Len(r) : l < m => r[l].index < r[m].index

\* One stream more.
LEMMA TableMore ==
  ASSUME NEW d, FirstsRight(d), NEW z \in 1 .. Len(d.firsts), NEW r, TableUpTo(d, r, z - 1),
         NEW t, t = TableNext(r, d.firsts[z])
  PROVE  TableUpTo(d, t, z)
<1>1. PICK i \in Nat, n \in Nat : i = d.firsts[z].index /\ n = d.firsts[z].count
  BY FirstIsOf
<1>2. PICK y : y = [index |-> i, count |-> n]
  OBVIOUS
<1>3. y \in TableEntry /\ y.index = i /\ y.count = n
  BY <1>2 DEF TableEntry
<1>4. r \in Seq(TableEntry)
  BY DEF TableUpTo
<1>5. Len(r) \in Nat
  BY <1>4
<1>6. CASE ~(n > 0)
  <2>1. t = r
    BY <1>1, <1>6 DEF TableNext
  <2>2. ASSUME NEW x \in 1 .. z, d.firsts[x].count > 0
        PROVE  \E l \in 1 .. Len(r) : r[l].index = d.firsts[x].index
    <3>1. x # z
      BY <1>1, <1>6, <2>2
    <3>2. x \in 1 .. z - 1
      BY <3>1
    <3> QED
      BY <2>2, <3>2 DEF TableUpTo
  <2>3. \A l \in 1 .. Len(r) : \E x \in 1 .. z :
          /\ d.firsts[x].index = r[l].index /\ d.firsts[x].count = r[l].count /\ r[l].count > 0
    <3>1. \A x \in 1 .. z - 1 : x \in 1 .. z
      OBVIOUS
    <3> QED
      BY <3>1 DEF TableUpTo
  <2> QED
    BY <1>4, <2>1, <2>2, <2>3 DEF TableUpTo
<1>7. CASE n > 0
  <2>1. t = Append(r, y)
    BY <1>1, <1>2, <1>7 DEF TableNext
  <2>2. PICK m \in Nat : m = Len(r)
    BY <1>5
  <2>3. /\ t \in Seq(TableEntry) /\ Len(t) = m + 1 /\ t[m + 1] = y
        /\ \A l \in 1 .. m : t[l] = r[l]
    BY <1>3, <1>4, <2>1, <2>2
  <2>4. ASSUME NEW l \in 1 .. Len(t)
        PROVE  \E x \in 1 .. z : /\ d.firsts[x].index = t[l].index /\ d.firsts[x].count = t[l].count
                                 /\ t[l].count > 0
    <3>1. CASE l = m + 1
      <4>1. t[l] = y /\ z \in 1 .. z
        BY <2>3, <3>1
      <4> QED
        BY <1>1, <1>3, <1>7, <4>1
    <3>2. CASE l # m + 1
      <4>1. l \in 1 .. Len(r) /\ t[l] = r[l]
        BY <2>2, <2>3, <3>2
      <4>2. PICK x \in 1 .. z - 1 : /\ d.firsts[x].index = r[l].index /\ d.firsts[x].count = r[l].count
                                    /\ r[l].count > 0
        BY <4>1 DEF TableUpTo
      <4>3. x \in 1 .. z
        OBVIOUS
      <4> QED
        BY <4>1, <4>2, <4>3
    <3> QED
      BY <3>1, <3>2
  <2>5. ASSUME NEW x \in 1 .. z, d.firsts[x].count > 0
        PROVE  \E l \in 1 .. Len(t) : t[l].index = d.firsts[x].index
    <3>1. CASE x = z
      <4>1. m + 1 \in 1 .. Len(t)
        BY <2>3
      <4> QED
        BY <1>1, <1>3, <2>3, <3>1, <4>1
    <3>2. CASE x # z
      <4>1. x \in 1 .. z - 1
        BY <3>2
      <4>2. PICK l \in 1 .. Len(r) : r[l].index = d.firsts[x].index
        BY <2>5, <4>1 DEF TableUpTo
      <4>3. l \in 1 .. Len(t) /\ t[l] = r[l]
        BY <2>2, <2>3
      <4> QED
        BY <4>2, <4>3
    <3> QED
      BY <3>1, <3>2
  <2>6. ASSUME NEW l \in 1 .. Len(t), NEW k \in 1 .. Len(t), l < k
        PROVE  t[l].index < t[k].index
    <3>1. l \in 1 .. Len(r) /\ t[l] = r[l]
      BY <2>2, <2>3, <2>6
    <3>2. CASE k = m + 1
      <4>1. PICK x \in 1 .. z - 1 : d.firsts[x].index = r[l].index
        BY <3>1 DEF TableUpTo
      <4>2. x \in 1 .. Len(d.firsts) /\ x < z
        OBVIOUS
      <4>3. d.firsts[x].index < d.firsts[z].index
        BY <4>2 DEF FirstsRight
      <4> QED
        BY <1>1, <1>3, <2>3, <3>1, <3>2, <4>1, <4>3
    <3>3. CASE k # m + 1
      <4>1. k \in 1 .. Len(r) /\ t[k] = r[k]
        BY <2>2, <2>3, <3>3
      <4> QED
        BY <2>6, <3>1, <4>1 DEF TableUpTo
    <3> QED
      BY <3>2, <3>3
  <2> QED
    BY <2>3, <2>4, <2>5, <2>6 DEF TableUpTo
<1> QED
  BY <1>6, <1>7

\* The table that is written in front of the blocks is right.
LEMMA TableIs ==
  ASSUME DDRight(setup, dd)
  PROVE  TableRight(dd, Table)
<1> DEFINE n == Len(dd.firsts)
           T == TableSoFar
<1>1. FirstsRight(dd)
  BY DEF DDRight
<1>2. n \in Nat
  BY <1>1 DEF FirstsRight
<1>3. T[0] = <<>> /\ \A z \in 1 .. n : T[z] = TableNext(T[z - 1], dd.firsts[z])
  BY <1>2, TableSoFarOf
<1>4. Table = T[n]
  BY DEF Table, TableSoFar, TableNext
<1> HIDE DEF T
<1> DEFINE Good(z) == TableUpTo(dd, T[z], z)
           Bad == {z \in Nat : z <= n /\ ~Good(z)}
<1>5. Bad = {}
  <2> SUFFICES ASSUME Bad # {} PROVE FALSE
    OBVIOUS
  <2>1. PICK z \in Bad : \A m \in Bad : z <= m
    BY LeastNumber
  <2>2. z # 0
    <3>1. <<>> \in Seq(TableEntry) /\ Len(<<>>) = 0 /\ 1 .. 0 = {}
      OBVIOUS
    <3>2. TableUpTo(dd, <<>>, 0)
      BY <3>1 DEF TableUpTo
    <3>3. Good(0)
      BY <1>3, <3>2
    <3> HIDE DEF Good
    <3> QED
      BY <2>1, <3>3
  <2>3. z \in 1 .. n /\ z - 1 \in Nat /\ z - 1 <= n /\ ~(z <= z - 1)
    BY <1>2, <2>1, <2>2
  <2>4. Good(z - 1)
    <3> HIDE DEF Good
    <3> QED
      BY <2>1, <2>3
  <2>5. T[z] = TableNext(T[z - 1], dd.firsts[z])
    BY <1>3, <2>3
  <2>6. Good(z)
    BY <1>1, <2>3, <2>4, <2>5, TableMore
  <2> HIDE DEF Good
  <2> QED
    BY <2>1, <2>6
<1>6. Good(n)
  <2> HIDE DEF Good
  <2>1. n \in Nat /\ n <= n
    BY <1>2
  <2> QED
    BY <1>5, <2>1
<1>7. TableUpTo(dd, Table, n)
  BY <1>4, <1>6
<1> QED
  BY <1>7 DEF TableUpTo, TableRight

-----------------------------------------------------------------------------
(* The blocks that have been written *)

\* Block k goes from byte at[k - 1] of the input to at[k], and from stream
\* ids[k - 1] to ids[k].
Chain(u, d, bs, at, ids) ==
  /\ at \in [0 .. Len(bs) -> Nat] /\ ids \in [0 .. Len(bs) -> Nat] /\ at[0] = 0 /\ ids[0] = 0
  /\ \A k \in 1 .. Len(bs) :
       /\ BlockRight(u, d, bs[k], at[k - 1], ids[k - 1], at[k])
       /\ ids[k] = ids[k - 1] + Len(bs[k].headers) /\ ids[k] <= d.streams

\* The blocks stand for the first a bytes of the input and the first i streams.
WrittenRight(u, d, bs, a, i) ==
  /\ IsList(bs)
  /\ \E at, ids : Chain(u, d, bs, at, ids) /\ at[Len(bs)] = a /\ ids[Len(bs)] = i

\* In the beginning there is no block.
LEMMA NothingWritten ==
  ASSUME NEW u, NEW d
  PROVE  WrittenRight(u, d, <<>>, 0, 0)
<1>1. PICK f : f = [k \in 0 .. 0 |-> 0]
  OBVIOUS
<1>2. f \in [0 .. 0 -> Nat] /\ f[0] = 0
  BY <1>1
<1>3. IsList(<<>>) /\ Len(<<>>) = 0
  BY NoneIsList
<1>4. 1 .. 0 = {}
  OBVIOUS
<1>5. Chain(u, d, <<>>, f, f)
  BY <1>2, <1>3, <1>4 DEF Chain
<1>6. f[Len(<<>>)] = 0
  BY <1>2, <1>3
<1> QED
  BY <1>3, <1>5, <1>6 DEF WrittenRight

\* A function with one value more.
LEMMA OneMore ==
  ASSUME NEW n \in Nat, NEW f \in [0 .. n -> Nat], NEW v \in Nat, NEW g,
         g = [k \in 0 .. n + 1 |-> IF k = n + 1 THEN v ELSE f[k]]
  PROVE  /\ g \in [0 .. n + 1 -> Nat] /\ g[n + 1] = v
         /\ \A k \in 0 .. n : g[k] = f[k]
<1>1. ASSUME NEW k \in 0 .. n + 1, k # n + 1 PROVE k \in 0 .. n /\ f[k] \in Nat
  BY <1>1
<1>2. g \in [0 .. n + 1 -> Nat]
  BY <1>1
<1>3. n + 1 \in 0 .. n + 1
  OBVIOUS
<1>4. ASSUME NEW k \in 0 .. n PROVE g[k] = f[k]
  <2>1. k \in 0 .. n + 1 /\ k # n + 1
    OBVIOUS
  <2> QED
    BY <2>1
<1> QED
  BY <1>2, <1>3, <1>4

\* A block that goes on where the last one has ended.
GoesOn(u, w, b, a, i, c, j) ==
  /\ BlockRight(u, w, b, a, i, c) /\ j = i + Len(b.headers) /\ j <= w.streams

\* One more block, behind those that are right.
LEMMA WrittenMore ==
  ASSUME NEW u, NEW d, NEW bs, NEW a \in Nat, NEW i \in Nat, WrittenRight(u, d, bs, a, i),
         NEW w, Grown(d, w), NEW b, NEW c \in Nat, NEW j \in Nat, GoesOn(u, w, b, a, i, c, j),
         NEW t, t = Append(bs, b)
  PROVE  WrittenRight(u, w, t, c, j)
<1>1. IsList(bs)
  BY DEF WrittenRight
<1>2. PICK at, ids : Chain(u, d, bs, at, ids) /\ at[Len(bs)] = a /\ ids[Len(bs)] = i
  BY DEF WrittenRight
<1>3. Longer(bs, b, t)
  BY <1>1, AppendedIs
<1>4. PICK n \in Nat : n = Len(bs)
  BY <1>3 DEF Longer
<1>5. IsList(t) /\ Len(t) = n + 1 /\ t[n + 1] = b /\ \A k \in 1 .. n : t[k] = bs[k]
  BY <1>3, <1>4 DEF Longer
<1>6. /\ at \in [0 .. n -> Nat] /\ ids \in [0 .. n -> Nat] /\ at[0] = 0 /\ ids[0] = 0
      /\ \A k \in 1 .. n :
           /\ BlockRight(u, d, bs[k], at[k - 1], ids[k - 1], at[k])
           /\ ids[k] = ids[k - 1] + Len(bs[k].headers) /\ ids[k] <= d.streams
  BY <1>2, <1>4 DEF Chain
<1>7. PICK x : x = [k \in 0 .. n + 1 |-> IF k = n + 1 THEN c ELSE at[k]]
  OBVIOUS
<1>8. PICK y : y = [k \in 0 .. n + 1 |-> IF k = n + 1 THEN j ELSE ids[k]]
  OBVIOUS
<1>9. x \in [0 .. n + 1 -> Nat] /\ x[n + 1] = c /\ \A k \in 0 .. n : x[k] = at[k]
  BY <1>6, <1>7, OneMore
<1>10. y \in [0 .. n + 1 -> Nat] /\ y[n + 1] = j /\ \A k \in 0 .. n : y[k] = ids[k]
  BY <1>6, <1>8, OneMore
<1>11. x[0] = 0 /\ y[0] = 0 /\ x[n] = a /\ y[n] = i
  <2>1. 0 \in 0 .. n /\ n \in 0 .. n
    OBVIOUS
  <2> QED
    BY <1>2, <1>4, <1>6, <1>9, <1>10, <2>1
<1>12. d.streams \in Nat /\ w.streams \in Nat /\ d.streams <= w.streams
  BY DEF Grown
<1>13. BlockRight(u, w, b, a, i, c) /\ j = i + Len(b.headers) /\ j <= w.streams
  BY DEF GoesOn
<1>14. ASSUME NEW k \in 1 .. n + 1
       PROVE  /\ BlockRight(u, w, t[k], x[k - 1], y[k - 1], x[k])
              /\ y[k] = y[k - 1] + Len(t[k].headers) /\ y[k] <= w.streams
  <2>1. CASE k = n + 1
    <3>1. k - 1 = n
      BY <2>1
    <3> QED
      BY <1>5, <1>9, <1>10, <1>11, <1>13, <2>1, <3>1
  <2>2. CASE k # n + 1
    <3>1. k \in 1 .. n /\ k \in 0 .. n /\ k - 1 \in 0 .. n
      BY <2>2
    <3>2. PICK h : h = bs[k]
      OBVIOUS
    <3>3. PICK e \in Nat, f \in Nat, p \in Nat, q \in Nat :
            e = at[k - 1] /\ f = at[k] /\ p = ids[k - 1] /\ q = ids[k]
      BY <1>6, <3>1
    <3>4. BlockRight(u, d, h, e, p, f) /\ q = p + Len(h.headers) /\ q <= d.streams
      BY <1>6, <3>1, <3>2, <3>3
    <3>5. p + Len(h.headers) <= d.streams
      BY <3>4
    <3>6. BlockRight(u, w, h, e, p, f)
      BY <3>4, <3>5, BlockGrown
    <3>7. q <= w.streams
      BY <1>12, <3>4
    <3>8. t[k] = h /\ x[k - 1] = e /\ x[k] = f /\ y[k - 1] = p /\ y[k] = q
      BY <1>5, <1>9, <1>10, <3>1, <3>2, <3>3
    <3> QED
      BY <3>4, <3>6, <3>7, <3>8
  <2> QED
    BY <2>1, <2>2
<1>15. Chain(u, w, t, x, y)
  BY <1>5, <1>9, <1>10, <1>11, <1>14 DEF Chain
<1> QED
  BY <1>5, <1>9, <1>10, <1>15 DEF WrittenRight

-----------------------------------------------------------------------------
(* The invariant *)

\* The input; a tool of io/ has none of this kind.
SetupRight ==
  /\ FileRight(setup.file) /\ Len(setup.file.bytes) <= FilePart /\ setup.memory \in Nat
  /\ whole => setup.file.bytes = <<>>
  /\ ~whole => inputSize = Len(setup.file.bytes)

\* The decoder before it begins.
NewDecoder == DecState(1, <<>>, -1, 1, NewManager(<<setup.memory, FilePart>>))

\* The decoder has the table.
Decoding == phase \in {"decode", "decoded"}

\* The table before it is written.
NoTable == [list |-> <<>>, memory |-> 0]

\* The decoder waits for the table; an input read as a whole is not decoded.
IdleInv ==
  /\ ~Decoding => dec = NewDecoder /\ head = NoTable
  /\ whole => ~Decoding

\* The first n bytes have been emitted, and l more that belong to a stream that
\* reaches into the next slot.
EncodedRight(u, d, bs, l, n) ==
  /\ l \in Nat /\ n \in Nat /\ n + l <= Len(u.file.bytes) /\ d.written = d.streams
  /\ WrittenRight(u, d, bs, n + l, d.streams)

\* The blocks written so far are the input from its first byte on.
EncodedInv == ~whole /\ ~Decoding => EncodedRight(setup, dd, blocks, lastStream, Len(emitted))

\* The entries of slot i.
EntriesOf(i) == RestRight(setup, Base + Off(i), info[i])

\* Those of the slots that have not been written yet.
EntriesInv ==
  /\ DOMAIN info = Slots
  /\ ~whole /\ phase = "emit" => \A i \in Slots : i >= slot => EntriesOf(i)
  /\ ~whole /\ phase = "load" => \A i \in Slots : i > slot => EntriesOf(i)

\* The decoder is between two blocks, and knows what it needs for the next.
DecodedSoFar(u, d, list, bs, x) ==
  /\ TableRight(d, list) /\ IsList(bs)
  /\ \E at, ids :
       /\ Chain(u, d, bs, at, ids) /\ at[Len(bs)] = Len(u.file.bytes)
       /\ ids[Len(bs)] = d.streams /\ x.next \in 1 .. Len(bs) + 1
       /\ DecRight(u, d, list, x, ids[x.next - 1], at[x.next - 1])

\* The memory the table says the duplicates take.
Promised(u, d) == IF u.dedup THEN ForeseenOf(d)[d.streams].memory ELSE 0

\* What the decoder has written is the input up to the end of a block.
DecodedInv ==
  /\ Decoding => DecodedSoFar(setup, dd, head.list, blocks, dec)
  /\ Decoding => head.memory = Promised(setup, dd)
  /\ phase = "decoded" => dec.next = Len(blocks) + 1

\* The inductive invariant, on top of StoreInv.
ContainerInv ==
  /\ SetupRight /\ DDRight(setup, dd) /\ IdleInv /\ EncodedInv /\ EntriesInv /\ DecodedInv

-----------------------------------------------------------------------------
(* What the steps leave as it is *)

\* The set-up and the input stay.
LEMMA SetupStays ==
  ASSUME SetupRight, UNCHANGED <<setup, whole>>, whole \/ inputSize' = inputSize
  PROVE  SetupRight'
BY DEF SetupRight, FileRight

\* Entries stay right where the window does not move.
LEMMA EntriesStay ==
  ASSUME NEW i, EntriesOf(i), UNCHANGED <<setup, info>>, Base' = Base
  PROVE  EntriesOf(i)'
BY DEF EntriesOf, RestRight, EntryRight, Part, Off, IsList

\* The decoder has not begun, and does not.
LEMMA StillIdle ==
  ASSUME IdleInv, ~Decoding, ~Decoding', UNCHANGED <<setup, head, dec, whole>>
  PROVE  IdleInv' /\ DecodedInv'
<1>1. UNCHANGED NewDecoder
  BY DEF NewDecoder
<1> QED
  BY <1>1 DEF IdleInv, DecodedInv, Decoding

\* The number of bytes a slot is.
LEMMA EmittedMore ==
  ASSUME emitted \in Seq(Int), NEW k \in Nat, NEW e, e = emitted \o SlotBytes(slot, k)
  PROVE  Len(emitted) \in Nat /\ Len(e) = Len(emitted) + k
<1>1. PICK s : s = SlotBytes(slot, k)
  OBVIOUS
<1>2. s = [j \in 1 .. k |-> mem[slot * FSize + j - 1]]
  BY <1>1 DEF SlotBytes
<1>3. PICK S : S = {s[x] : x \in 1 .. k}
  OBVIOUS
<1>4. s \in [1 .. k -> S]
  BY <1>2, <1>3
<1>5. s \in Seq(S) /\ Len(s) = k
  BY <1>4
<1>6. IsList(s) /\ IsList(emitted)
  BY <1>5 DEF IsList
<1>7. Joined(emitted, s, e)
  BY <1>1, <1>6, ListsJoin
<1> QED
  BY <1>5, <1>7 DEF Joined

-----------------------------------------------------------------------------
(* A block is written *)

\* The slot that is written, and how much of the input has been emitted.
LEMMA AtSlotHolds ==
  ASSUME StoreInv, SetupRight, ~whole, phase = "emit", SizeOf(slot) > 0,
         NEW z, z = Base + Off(slot)
  PROVE  /\ z \in Nat /\ AtSlot(z) /\ Len(emitted) = z
         /\ SizeOf(slot) \in Nat /\ slot \in Slots
<1>1. /\ Window /\ slot \in Slots /\ setup.file.bytes \in Seq(Int)
      /\ inputSize = Len(setup.file.bytes)
  BY DEF StoreInv, LoopTypes, SetupRight, FileRight
<1>2. slot \in Nat /\ findex \in Nat /\ inputSize \in Nat /\ Base \in Nat
  BY <1>1, SlotFits DEF Window, WindowTypes, PlaceInv, Slots
<1>3. findex = 0 \/ findex < slot
  BY <1>2 DEF StoreInv, BehindInv
<1>4. AtSlot(z)
  BY <1>1, <1>3 DEF AtSlot
<1>5. Off(slot) \in Nat
  BY <1>1, SlotFits
<1>6. z \in Nat
  BY <1>2, <1>5
<1>7. findex <= slot
  BY <1>2, <1>3
<1>8. SizeOf(slot) \in Nat /\ SizeOf(slot) = Clip(FSize, inputSize - z)
  BY <1>1, <1>7, SizeOfIs
<1>9. z < inputSize
  <2>1. FSize \in Nat
    BY OffFacts
  <2> QED
    BY <1>2, <1>6, <1>8, <2>1 DEF Clip
<1>10. Len(emitted) = AtMost(inputSize, z)
  BY DEF StoreInv, EmitInv
<1>11. Len(emitted) = z
  BY <1>2, <1>6, <1>9, <1>10 DEF AtMost
<1> QED
  BY <1>1, <1>4, <1>6, <1>8, <1>11

\* n streams more are written.
Counted(w, n) == [w EXCEPT !.written = @ + n]

\* n more streams are numbered.
MoreStreams(d, w, n) == w.streams = d.streams + n /\ w.written = d.written

\* n more streams are numbered and written, x being d after the walk w.
AllWritten(u, d, w, x, n) ==
  /\ DDRight(u, x) /\ Grown(d, x) /\ Grown(w, x) /\ x.written = x.streams
  /\ x.streams = d.streams + n

\* The streams of a block count as written.
LEMMA CountedIs ==
  ASSUME NEW u, NEW d, DDRight(u, d), NEW w, DDRight(u, w), Grown(d, w), d.written = d.streams,
         NEW n \in Nat, MoreStreams(d, w, n), NEW x, x = Counted(w, n)
  PROVE  AllWritten(u, d, w, x, n)
<1>1. PICK f, p, s, v : w = DDRecord(f, p, s, v)
  BY DEF DDRight, DDRecord
<1>2. w.firsts = f /\ w.dups = p /\ w.streams = s /\ w.written = v
  BY <1>1 DEF DDRecord
<1>3. PICK y : y = v + n
  OBVIOUS
<1>4. x = DDRecord(f, p, s, y)
  BY <1>1, <1>2, <1>3 DEF DDRecord, Counted
<1>5. x.firsts = f /\ x.dups = p /\ x.streams = s /\ x.written = y
  BY <1>4 DEF DDRecord
<1>6. d.streams \in Nat /\ w.streams \in Nat /\ v \in Nat
  BY <1>2 DEF DDRight
<1>7. y \in Nat /\ y = s /\ s = d.streams + n
  BY <1>2, <1>3, <1>6 DEF MoreStreams
<1>8. DDRight(u, x)
  <2>1. x = [firsts |-> x.firsts, dups |-> x.dups, streams |-> x.streams, written |-> x.written]
    BY <1>4, <1>5 DEF DDRecord
  <2>2. FirstsRight(x)
    <3>1. \A z, i : Copies(x, z, i) = Copies(w, z, i)
      BY <1>2, <1>5 DEF Copies
    <3>2. FirstsRight(w)
      BY DEF DDRight
    <3> QED
      BY <1>2, <1>5, <3>1, <3>2 DEF FirstsRight
  <2>3. DupsRight(x)
    <3>1. DupsRight(w)
      BY DEF DDRight
    <3> QED
      BY <1>2, <1>5, <3>1 DEF DupsRight
  <2>4. IF u.dedup
        THEN \A a, b \in 1 .. Len(x.firsts) : x.firsts[a].key = x.firsts[b].key => a = b
        ELSE x.dups = <<>>
    BY <1>2, <1>5 DEF DDRight
  <2> QED
    BY <1>2, <1>5, <1>6, <1>7, <2>1, <2>2, <2>3, <2>4 DEF DDRight
<1>9. Grown(w, x)
  BY <1>2, <1>5, GrownSame
<1>10. Grown(d, x)
  BY <1>8, <1>9, GrownTwice DEF DDRight
<1> QED
  BY <1>2, <1>5, <1>7, <1>8, <1>9, <1>10 DEF AllWritten

\* What a block adds.
LEMMA BlockAdded ==
  ASSUME StoreInv, ContainerInv, ~whole, phase = "emit", SizeOf(slot) > 0,
         NEW w, w = Walked, NEW b, b = BlockOfWalk(w),
         NEW x, x = [w.dd EXCEPT !.written = @ + Len(w.taken)],
         NEW c, EndsAt(w, Len(emitted), c), NEW t, t = Append(blocks, b)
  PROVE  /\ c \in Nat /\ c <= Len(setup.file.bytes) /\ DDRight(setup, x) /\ x.written = x.streams
         /\ WrittenRight(setup, x, t, c, x.streams)
         /\ w.last \in Nat /\ RestRight(setup, Base + Off(slot), w.rest)
<1>1. PICK z : z = Base + Off(slot)
  OBVIOUS
<1>2. SetupRight /\ DDRight(setup, dd) /\ IdleInv /\ EncodedInv /\ EntriesInv
  BY DEF ContainerInv
<1>3. z \in Nat /\ AtSlot(z) /\ Len(emitted) = z /\ SizeOf(slot) \in Nat /\ slot \in Slots
  BY <1>1, <1>2, AtSlotHolds
<1>4. setup.file.bytes \in Seq(Int)
  BY <1>2 DEF SetupRight, FileRight
<1>5. RestRight(setup, z, info[slot])
  <2>1. slot \in Nat
    BY <1>3, SlotFits
  <2>2. slot >= slot
    BY <2>1
  <2> QED
    BY <1>1, <1>2, <1>3, <2>2 DEF EntriesInv, EntriesOf
<1>6. WalkRight(setup, z, lastStream, dd, w)
  BY <1>2, <1>3, <1>4, <1>5, WalkedIs
<1>7. EncodedRight(setup, dd, blocks, lastStream, z)
  BY <1>2, <1>3 DEF EncodedInv, Decoding
<1>8. /\ lastStream \in Nat /\ z + lastStream <= Len(setup.file.bytes) /\ dd.written = dd.streams
      /\ WrittenRight(setup, dd, blocks, z + lastStream, dd.streams)
  BY <1>7 DEF EncodedRight
<1>9. PICK a \in Nat, i \in Nat : a = z + lastStream /\ i = dd.streams
  BY <1>2, <1>3, <1>8 DEF DDRight
<1>10. EndsAt(w, z, c)
  BY <1>3
<1>11. BlockRight(setup, w.dd, b, a, i, c) /\ c \in Nat /\ Len(b.headers) = Len(w.taken)
  BY <1>2, <1>3, <1>6, <1>8, <1>9, <1>10, BlockOfWalkIs
<1>12. /\ DDRight(setup, w.dd) /\ Grown(dd, w.dd)
       /\ w.dd.streams = dd.streams + Len(w.taken) /\ w.dd.written = dd.written
       /\ RestRight(setup, z, w.rest)
  BY <1>6 DEF WalkRight
<1>13. PICK n \in Nat : n = Len(w.taken)
  BY <1>6 DEF WalkRight, TakenRight
<1>14. PICK v : v = w.dd
  OBVIOUS
<1>15. /\ DDRight(setup, x) /\ Grown(dd, x) /\ Grown(v, x) /\ x.written = x.streams
       /\ x.streams = dd.streams + n
  <2>1. DDRight(setup, v) /\ Grown(dd, v) /\ v.streams = dd.streams + n /\ v.written = dd.written
    BY <1>12, <1>13, <1>14
  <2>2. x = Counted(v, n)
    BY <1>13, <1>14 DEF Counted
  <2>3. DDRight(setup, dd) /\ dd.written = dd.streams
    BY <1>2, <1>8
  <2>4. PICK d : d = dd
    OBVIOUS
  <2>5. /\ DDRight(setup, d) /\ d.written = d.streams
        /\ DDRight(setup, v) /\ Grown(d, v) /\ MoreStreams(d, v, n)
    BY <2>1, <2>3, <2>4 DEF MoreStreams
  <2>6. AllWritten(setup, d, v, x, n)
    BY <2>2, <2>5, CountedIs
  <2> QED
    BY <2>4, <2>6 DEF AllWritten
<1>16. BlockRight(setup, x, b, a, i, c)
  <2>1. i + Len(b.headers) <= v.streams
    BY <1>9, <1>11, <1>12, <1>13, <1>14
  <2>2. BlockRight(setup, v, b, a, i, c)
    BY <1>11, <1>14
  <2> QED
    BY <1>15, <2>1, <2>2, BlockGrown
<1>17. PICK j \in Nat : j = i + n
  OBVIOUS
<1>18. GoesOn(setup, x, b, a, i, c, j)
  <2>1. j = i + Len(b.headers)
    BY <1>11, <1>13, <1>17
  <2>2. j <= x.streams
    BY <1>9, <1>15, <1>17
  <2> QED
    BY <1>16, <2>1, <2>2 DEF GoesOn
<1>19. WrittenRight(setup, dd, blocks, a, i)
  BY <1>8, <1>9
<1>20. WrittenRight(setup, x, t, c, j)
  BY <1>11, <1>15, <1>18, <1>19, WrittenMore
<1>21. j = x.streams
  BY <1>9, <1>15, <1>17
<1>22. c <= Len(setup.file.bytes)
  BY <1>11 DEF BlockRight
<1>23. w.last \in Nat
  <2>1. PICK d : d = dd
    OBVIOUS
  <2>2. d.streams \in Nat
    BY <1>2, <2>1 DEF DDRight
  <2>3. PICK l \in Nat : l = lastStream
    BY <1>8
  <2>4. z + l <= Len(setup.file.bytes) /\ WalkRight(setup, z, l, d, w)
    BY <1>6, <1>8, <2>1, <2>3
  <2>5. /\ Len(w.taken) \in Nat
        /\ \A k \in 1 .. Len(w.taken) + 1 :
             /\ Begins(l, w.taken, k) \in Nat
             /\ z + Begins(l, w.taken, k) <= Len(setup.file.bytes)
        /\ w.last = Begins(l, w.taken, Len(w.taken) + 1)
    BY <1>3, <2>2, <2>4, BeginsIs
  <2>6. Len(w.taken) + 1 \in 1 .. Len(w.taken) + 1
    BY <2>5
  <2> QED
    BY <2>5, <2>6
<1> QED
  BY <1>1, <1>11, <1>12, <1>15, <1>20, <1>21, <1>22, <1>23

\* The greater of what a walk has come to behind the slot, and nothing.
LEMMA OverIs ==
  ASSUME NEW l \in Nat, NEW s \in Nat
  PROVE  Max({l - s, 0}) = IF l < s THEN 0 ELSE l - s
<1>1. PICK d \in Int : d = l - s
  OBVIOUS
<1>2. Max({0, d}) = IF d < 0 THEN 0 ELSE d
  BY MaxIs
<1>3. {d, 0} = {0, d}
  OBVIOUS
<1> QED
  BY <1>1, <1>2, <1>3

\* A block is written behind those that have been.
LEMMA WriteBlockKeepsEncoded ==
  ASSUME StoreInv, ContainerInv, WriteBlock
  PROVE  DDRight(setup, dd)' /\ EncodedInv'
<1>1. phase = "emit" /\ ~whole /\ SizeOf(slot) > 0
  BY DEF WriteBlock
<1>2. PICK w : /\ w = Walked
               /\ blocks' = Append(blocks, BlockOfWalk(w))
               /\ dd' = [w.dd EXCEPT !.written = @ + Len(w.taken)]
               /\ IF w.rest = <<>>
                  THEN lastStream' = Max({w.last - SizeOf(slot), 0}) /\ Emit
                  ELSE lastStream' = w.last /\ UNCHANGED vars
  BY DEF WriteBlock
<1>3. setup' = setup /\ whole' = whole
  BY <1>2 DEF WriteBlock, vars, Emit
<1>4. PICK z : z = Base + Off(slot)
  OBVIOUS
<1>5. SetupRight
  BY DEF ContainerInv
<1>6. PICK e \in Nat, k \in Nat : e = Len(emitted) /\ k = SizeOf(slot)
  BY <1>1, <1>4, <1>5, AtSlotHolds
<1>7. PICK b, x, t : b = BlockOfWalk(w) /\ x = dd' /\ t = blocks'
  OBVIOUS
<1>8. ASSUME NEW c, EndsAt(w, e, c)
      PROVE  /\ c \in Nat /\ c <= Len(setup.file.bytes) /\ DDRight(setup, x) /\ x.written = x.streams
             /\ WrittenRight(setup, x, t, c, x.streams) /\ w.last \in Nat
  <2>1. x = [w.dd EXCEPT !.written = @ + Len(w.taken)] /\ t = Append(blocks, b)
    BY <1>2, <1>7
  <2>2. EndsAt(w, Len(emitted), c)
    BY <1>6, <1>8
  <2> QED
    BY <1>1, <1>2, <1>7, <2>1, <2>2, BlockAdded
<1>9. CASE w.rest = <<>>
  <2>1. PICK c : c = e + (IF w.last < k THEN k ELSE w.last)
    OBVIOUS
  <2>2. EndsAt(w, e, c)
    BY <1>6, <1>9, <2>1 DEF EndsAt
  <2>3. PICK l \in Nat : l = w.last
    BY <1>8, <2>2
  <2>4. PICK f : f = emitted' /\ f = emitted \o SlotBytes(slot, k)
    BY <1>2, <1>6, <1>9 DEF Emit
  <2>5. Len(f) = e + k
    BY <1>6, <2>4, EmittedMore DEF StoreInv, LoopTypes
  <2>6. PICK m \in Nat : m = lastStream' /\ m = (IF l < k THEN 0 ELSE l - k)
    <3>1. Max({l - k, 0}) = IF l < k THEN 0 ELSE l - k
      BY OverIs
    <3>2. lastStream' = Max({l - k, 0})
      BY <1>2, <1>6, <1>9, <2>3
    <3>3. (IF l < k THEN 0 ELSE l - k) \in Nat
      BY <2>3
    <3> QED
      BY <3>1, <3>2, <3>3
  <2>7. c = (e + k) + m
    BY <2>1, <2>3, <2>6
  <2>8. PICK n \in Nat : n = e + k
    OBVIOUS
  <2>9. EncodedRight(setup, x, t, m, n)
    BY <1>8, <2>2, <2>7, <2>8 DEF EncodedRight
  <2> QED
    BY <1>3, <1>7, <1>8, <2>2, <2>4, <2>5, <2>6, <2>8, <2>9 DEF EncodedInv
<1>10. CASE w.rest # <<>>
  <2>1. PICK c : c = e + w.last
    OBVIOUS
  <2>2. EndsAt(w, e, c)
    BY <1>10, <2>1 DEF EndsAt
  <2>3. PICK m \in Nat : m = lastStream' /\ m = w.last
    BY <1>2, <1>8, <1>10, <2>2
  <2>4. c = e + m
    BY <2>1, <2>3
  <2>5. EncodedRight(setup, x, t, m, e)
    BY <1>8, <2>2, <2>4 DEF EncodedRight
  <2>6. emitted' = emitted
    BY <1>2, <1>10 DEF vars
  <2> QED
    BY <1>3, <1>6, <1>7, <1>8, <2>2, <2>3, <2>5, <2>6 DEF EncodedInv
<1> QED
  BY <1>9, <1>10

\* What is left of the entries of the slot, and those of the other slots.
LEMMA WriteBlockKeepsEntries ==
  ASSUME StoreInv, ContainerInv, WriteBlock
  PROVE  EntriesInv' /\ ~Decoding /\ ~Decoding' /\ UNCHANGED <<setup, head, dec, whole, inputSize>>
<1>1. phase = "emit" /\ ~whole /\ SizeOf(slot) > 0 /\ UNCHANGED <<setup, head, dec>>
  BY DEF WriteBlock
<1>2. PICK w : /\ w = Walked
               /\ info' = [info EXCEPT ![slot] = w.rest]
               /\ IF w.rest = <<>> THEN Emit ELSE UNCHANGED vars
  BY DEF WriteBlock
<1>3. UNCHANGED <<whole, inputVars, storeVars>>
  BY <1>2 DEF vars, Emit
<1>4. Window /\ slot \in Slots /\ EntriesInv
  BY DEF StoreInv, LoopTypes, ContainerInv
<1>5. Window' /\ Base' = Base /\ inputSize' = inputSize
  BY <1>3, <1>4, WindowStays
<1>6. DOMAIN info' = Slots /\ info'[slot] = w.rest
      /\ \A i \in Slots : i # slot => info'[i] = info[i]
  BY <1>2, <1>4 DEF EntriesInv
<1>7. ASSUME NEW i \in Slots, i > slot PROVE EntriesOf(i)'
  <2>1. i \in Nat /\ slot \in Nat
    BY <1>4, SlotFits
  <2>2. i >= slot /\ i # slot
    BY <1>7, <2>1
  <2>3. EntriesOf(i)
    BY <1>1, <1>4, <2>2 DEF EntriesInv
  <2>4. info'[i] = info[i]
    BY <1>6, <2>2
  <2> QED
    BY <1>1, <1>5, <2>3, <2>4 DEF EntriesOf
<1>8. CASE w.rest = <<>>
  <2>1. Emit
    BY <1>2, <1>8
  <2>2. slot \in Nat /\ \A i \in Slots : i \in Nat
    BY <1>4, SlotFits
  <2>3. \/ phase' = "load" /\ slot' = slot
        \/ phase' = "emit" /\ slot' = slot + 1
        \/ phase' = "last"
    BY <1>1, <2>1 DEF Emit, AfterEmit
  <2>4. \A i \in Slots : i >= slot + 1 => EntriesOf(i)'
    <3>1. \A i \in Slots : i >= slot + 1 => i > slot
      BY <2>2
    <3> QED
      BY <1>7, <3>1
  <2>5. ASSUME phase' = "emit" PROVE \A i \in Slots : i >= slot' => EntriesOf(i)'
    BY <2>3, <2>4, <2>5
  <2>6. ASSUME phase' = "load" PROVE \A i \in Slots : i > slot' => EntriesOf(i)'
    BY <1>7, <2>3, <2>6
  <2>7. ~Decoding /\ ~Decoding'
    BY <1>1, <2>3 DEF Decoding
  <2> QED
    BY <1>1, <1>3, <1>5, <1>6, <2>5, <2>6, <2>7 DEF EntriesInv
<1>9. CASE w.rest # <<>>
  <2>1. phase' = phase /\ slot' = slot
    BY <1>2, <1>9 DEF vars
  <2>2. ASSUME NEW i \in Slots, i = slot PROVE EntriesOf(i)'
    <3>1. PICK b, x, t : /\ b = BlockOfWalk(w) /\ x = [w.dd EXCEPT !.written = @ + Len(w.taken)]
                         /\ t = Append(blocks, b)
      OBVIOUS
    <3>2. PICK c : c = Len(emitted) + w.last
      OBVIOUS
    <3>3. EndsAt(w, Len(emitted), c)
      BY <1>9, <3>2 DEF EndsAt
    <3>4. RestRight(setup, Base + Off(slot), w.rest)
      BY <1>1, <1>2, <3>1, <3>3, BlockAdded
    <3>5. RestRight(setup, Base + Off(i), info'[i])
      BY <1>6, <2>2, <3>4
    <3> QED
      BY <1>1, <1>5, <3>5 DEF EntriesOf
  <2>3. ASSUME NEW i \in Slots, i >= slot PROVE EntriesOf(i)'
    <3>1. i \in Nat /\ slot \in Nat
      BY <1>4, SlotFits
    <3>2. i = slot \/ i > slot
      BY <2>3, <3>1
    <3> QED
      BY <1>7, <2>2, <3>2
  <2>4. ~Decoding /\ ~Decoding'
    BY <1>1, <2>1 DEF Decoding
  <2> QED
    BY <1>1, <1>3, <1>5, <1>6, <2>1, <2>3, <2>4 DEF EntriesInv
<1> QED
  BY <1>8, <1>9

\* A block is written.
LEMMA WriteBlockKeeps ==
  ASSUME StoreInv, ContainerInv, WriteBlock
  PROVE  ContainerInv'
<1>1. DDRight(setup, dd)' /\ EncodedInv'
  BY WriteBlockKeepsEncoded
<1>2. EntriesInv' /\ ~Decoding /\ ~Decoding' /\ UNCHANGED <<setup, head, dec, whole, inputSize>>
  BY WriteBlockKeepsEntries
<1>3. SetupRight /\ IdleInv
  BY DEF ContainerInv
<1>4. SetupRight'
  BY <1>2, <1>3, SetupStays
<1>5. IdleInv' /\ DecodedInv'
  BY <1>2, <1>3, StillIdle
<1> QED
  BY <1>1, <1>2, <1>4, <1>5 DEF ContainerInv

-----------------------------------------------------------------------------
(* The encoder's other steps *)

\* The scans enter the streams of every slot, from a whole window.
LEMMA ScanKeeps ==
  ASSUME StoreInv, ContainerInv, Scan
  PROVE  ContainerInv'
<1>1. /\ phase = "scan" /\ slot' = 0 /\ phase' = (IF Done THEN "done" ELSE "emit")
      /\ UNCHANGED <<whole, inputVars, storeVars, emitted>>
      /\ UNCHANGED <<setup, lastStream, dd, blocks, head, dec>>
      /\ info' = [i \in Slots |-> IF whole THEN <<>> ELSE Entries(i)]
  BY DEF Scan, Scanned
<1>2. Window /\ findex = 0
  BY <1>1 DEF StoreInv, BehindInv
<1>3. Window' /\ Base' = Base /\ inputSize' = inputSize
  BY <1>1, <1>2, WindowStays
<1>4. SetupRight /\ IdleInv /\ DDRight(setup, dd) /\ EncodedInv
  BY DEF ContainerInv
<1>5. SetupRight'
  BY <1>1, <1>3, <1>4, SetupStays
<1>6. ~Decoding /\ ~Decoding'
  BY <1>1 DEF Decoding
<1>7. IdleInv' /\ DecodedInv'
  BY <1>1, <1>4, <1>6, StillIdle
<1>8. EncodedInv'
  BY <1>1, <1>4, <1>6 DEF EncodedInv
<1>9. DDRight(setup, dd)'
  BY <1>1, <1>4
<1>10. ASSUME ~whole, NEW i \in Slots PROVE EntriesOf(i)'
  <2>1. PICK z : z = Base + Off(i)
    OBVIOUS
  <2>2. FileRight(setup.file) /\ inputSize = Len(setup.file.bytes)
    BY <1>4, <1>10 DEF SetupRight
  <2>3. RestRight(setup, z, Entries(i))
    BY <1>2, <2>1, <2>2, EntriesRight
  <2>4. info'[i] = Entries(i)
    BY <1>1, <1>10
  <2> QED
    BY <1>1, <1>3, <2>1, <2>3, <2>4 DEF EntriesOf
<1>11. EntriesInv'
  <2>1. DOMAIN info' = Slots
    BY <1>1
  <2>2. whole' = whole /\ phase' # "load"
    BY <1>1
  <2> QED
    BY <1>10, <2>1, <2>2 DEF EntriesInv
<1> QED
  BY <1>5, <1>7, <1>8, <1>9, <1>11 DEF ContainerInv

\* A slot that is passed over has no bytes.
LEMMA PassSlotKeeps ==
  ASSUME StoreInv, ContainerInv, PassSlot
  PROVE  ContainerInv'
<1>1. /\ phase = "emit" /\ emitted' = emitted \o SlotBytes(slot, SizeOf(slot)) /\ AfterEmit
      /\ UNCHANGED <<whole, inputVars, storeVars>>
      /\ UNCHANGED <<setup, info, lastStream, dd, blocks, head, dec>>
      /\ whole \/ SizeOf(slot) = 0
  BY DEF PassSlot, Emit, encVars
<1>2. Window /\ slot \in Slots /\ emitted \in Seq(Int)
  BY DEF StoreInv, LoopTypes
<1>3. Window' /\ Base' = Base /\ inputSize' = inputSize
  BY <1>1, <1>2, WindowStays
<1>4. SetupRight /\ IdleInv /\ DDRight(setup, dd) /\ EncodedInv /\ EntriesInv
  BY DEF ContainerInv
<1>5. SetupRight'
  BY <1>1, <1>3, <1>4, SetupStays
<1>6. \/ phase' = "load" /\ slot' = slot
      \/ phase' = "emit" /\ slot' = slot + 1
      \/ phase' = "last"
  BY <1>1 DEF AfterEmit
<1>7. ~Decoding /\ ~Decoding'
  BY <1>1, <1>6 DEF Decoding
<1>8. IdleInv' /\ DecodedInv'
  BY <1>1, <1>4, <1>7, StillIdle
<1>9. EncodedInv'
  <2>1. CASE whole
    BY <1>1, <2>1 DEF EncodedInv
  <2>2. CASE ~whole
    <3>1. SizeOf(slot) = 0
      BY <1>1, <2>2
    <3>2. emitted' = emitted \o SlotBytes(slot, 0)
      BY <1>1, <3>1
    <3>3. Len(emitted) \in Nat /\ Len(emitted') = Len(emitted) + 0
      <4>1. PICK f : f = emitted' /\ f = emitted \o SlotBytes(slot, 0)
        BY <3>2
      <4>2. 0 \in Nat
        OBVIOUS
      <4>3. Len(emitted) \in Nat /\ Len(f) = Len(emitted) + 0
        BY <1>2, <4>1, <4>2, EmittedMore
      <4> QED
        BY <4>1, <4>3
    <3>4. Len(emitted') = Len(emitted)
      BY <3>3
    <3> QED
      BY <1>1, <1>4, <1>7, <2>2, <3>4 DEF EncodedInv
  <2> QED
    BY <2>1, <2>2
<1>10. DDRight(setup, dd)'
  BY <1>1, <1>4
<1>11. ASSUME ~whole, NEW i \in Slots, i >= slot PROVE EntriesOf(i)'
  <2>1. EntriesOf(i)
    BY <1>1, <1>4, <1>11 DEF EntriesInv
  <2> QED
    BY <1>1, <1>3, <2>1, EntriesStay
<1>12. slot \in Nat /\ \A i \in Slots : i \in Nat
  BY <1>2, SlotFits
<1>13. EntriesInv'
  <2>1. DOMAIN info' = Slots /\ whole' = whole
    BY <1>1, <1>4 DEF EntriesInv
  <2>2. ASSUME ~whole, phase' = "emit", NEW i \in Slots, i >= slot' PROVE EntriesOf(i)'
    <3>1. i >= slot + 1
      BY <1>6, <2>2
    <3>2. i >= slot
      BY <1>12, <3>1
    <3> QED
      BY <1>11, <2>2, <3>2
  <2>3. ASSUME ~whole, phase' = "load", NEW i \in Slots, i > slot' PROVE EntriesOf(i)'
    <3>1. i > slot
      BY <1>6, <2>3
    <3>2. i >= slot
      BY <1>12, <3>1
    <3> QED
      BY <1>11, <2>3, <3>2
  <2> QED
    BY <2>1, <2>2, <2>3 DEF EntriesInv
<1> QED
  BY <1>5, <1>8, <1>9, <1>10, <1>13 DEF ContainerInv

\* The refills leave what has been encoded alone, and the window where it is
\* while a slot has entries that have not been written.
LEMMA EmitLoadKeepsContainer ==
  ASSUME StoreInv, ContainerInv, EmitLoad, UNCHANGED <<setup, info, lastStream, dd, blocks, head, dec>>
  PROVE  ContainerInv'
<1>1. /\ phase = "load" /\ LoadEx /\ UNCHANGED <<whole, emitted>>
      /\ \/ slot' = slot + 1 /\ phase' = "emit"
         \/ slot' = slot /\ phase' = "last"
  BY DEF EmitLoad
<1>2. Window /\ slot \in Slots /\ findex = slot - 1
  BY <1>1 DEF StoreInv, LoopTypes, BehindInv
<1>3. inputSize' = inputSize
  BY <1>1 DEF LoadEx, Fill
<1>4. Base' = Base
  <2>1. Base' = IF findex + 1 = FSlots THEN NextOrigin ELSE Base
    BY <1>1, <1>2, LoadExKeeps
  <2>2. slot \in Nat /\ slot < FSlots /\ FSlots \in Nat
    BY <1>2, SlotFits, OffFacts
  <2>3. findex + 1 # FSlots
    BY <1>2, <2>2
  <2> QED
    BY <2>1, <2>3
<1>5. SetupRight /\ IdleInv /\ DDRight(setup, dd) /\ EncodedInv /\ EntriesInv
  BY DEF ContainerInv
<1>6. SetupRight'
  BY <1>1, <1>3, <1>5, SetupStays
<1>7. ~Decoding /\ ~Decoding'
  BY <1>1 DEF Decoding
<1>8. IdleInv' /\ DecodedInv'
  BY <1>1, <1>5, <1>7, StillIdle
<1>9. EncodedInv' /\ DDRight(setup, dd)'
  BY <1>1, <1>5, <1>7 DEF EncodedInv
<1>10. EntriesInv'
  <2>1. DOMAIN info' = Slots /\ whole' = whole
    BY <1>1, <1>5 DEF EntriesInv
  <2>2. ASSUME ~whole, phase' = "emit", NEW i \in Slots, i >= slot' PROVE EntriesOf(i)'
    <3>1. slot \in Nat /\ i \in Nat
      BY <1>2, SlotFits
    <3>2. i > slot
      BY <1>1, <2>2, <3>1
    <3>3. EntriesOf(i)
      BY <1>1, <1>5, <2>2, <3>2 DEF EntriesInv
    <3> QED
      BY <1>4, <3>3, EntriesStay
  <2>3. phase' # "load"
    BY <1>1
  <2> QED
    BY <2>1, <2>2, <2>3 DEF EntriesInv
<1> QED
  BY <1>6, <1>8, <1>9, <1>10 DEF ContainerInv

\* A step of the store that ends in the scans, or stays there.
LEMMA ScanningKeeps ==
  ASSUME ContainerInv, UNCHANGED <<setup, info, lastStream, dd, blocks, head, dec, whole>>,
         ~Decoding, phase' = "scan",
         whole \/ (inputSize' = inputSize /\ emitted' = emitted)
  PROVE  ContainerInv'
<1>1. SetupRight /\ IdleInv /\ DDRight(setup, dd) /\ EncodedInv /\ EntriesInv
  BY DEF ContainerInv
<1>2. SetupRight'
  BY <1>1, SetupStays
<1>3. ~Decoding'
  BY DEF Decoding
<1>4. IdleInv' /\ DecodedInv'
  BY <1>1, <1>3, StillIdle
<1>5. EncodedInv' /\ DDRight(setup, dd)'
  BY <1>1, <1>3 DEF EncodedInv
<1>6. EntriesInv'
  BY <1>1 DEF EntriesInv
<1> QED
  BY <1>2, <1>4, <1>5, <1>6 DEF ContainerInv

\* The window moves on.
LEMMA RefillKeeps ==
  ASSUME StoreInv, ContainerInv, Refill
  PROVE  ContainerInv'
<1>1. UNCHANGED <<setup, info, lastStream, dd, blocks, head, dec>>
  BY DEF Refill, encVars
<1>2. CASE ReadFuture
  <2>1. phase = "scan" /\ phase' = phase /\ UNCHANGED <<whole, inputSize, emitted>>
    BY <1>2 DEF ReadFuture
  <2>2. ~Decoding
    BY <2>1 DEF Decoding
  <2> QED
    BY <1>1, <2>1, <2>2, ScanningKeeps
<1>3. CASE EmitLoad
  BY <1>1, <1>3, EmitLoadKeepsContainer
<1>4. CASE EndRound
  <2>1. phase = "last" /\ phase' = "scan" /\ UNCHANGED <<whole, emitted>> /\ (Load \/ LoadEx)
    BY <1>4 DEF EndRound
  <2>2. inputSize' = inputSize
    BY <2>1 DEF Load, LoadEx, Fill
  <2>3. ~Decoding
    BY <2>1 DEF Decoding
  <2> QED
    BY <1>1, <2>1, <2>2, <2>3, ScanningKeeps
<1>5. CASE ChangeInput
  <2>1. phase = "done" /\ phase' = "scan" /\ whole /\ whole' = whole
    BY <1>5 DEF ChangeInput
  <2>2. ~Decoding
    BY <2>1 DEF Decoding
  <2> QED
    BY <1>1, <2>1, <2>2, ScanningKeeps
<1> QED
  BY <1>2, <1>3, <1>4, <1>5 DEF Refill

-----------------------------------------------------------------------------
(* The decoder *)

\* A data manager that holds nothing has all it needs for the first stream.
LEMMA NewManagerFits ==
  ASSUME SetupRight, DDRight(setup, dd), NEW m, m = NewManager(<<setup.memory, FilePart>>)
  PROVE  ManagerFits(setup, dd, m, 0, 0) /\ m.ok = TRUE
<1>1. PICK p \in Nat, q \in Nat : p = setup.memory /\ q = FilePart
  BY ContainerAssumption DEF SetupRight
<1>2. PICK a : a = NewArray(<<p, q>>)
  OBVIOUS
<1>3. m = [blocks |-> <<>>, total |-> 0, array |-> a, ok |-> TRUE]
  BY <1>1, <1>2 DEF NewManager
<1>4. m.blocks = <<>> /\ m.total = 0 /\ m.array = a /\ m.ok = TRUE
  BY <1>3
<1>5. PICK x : x = [data |-> <<>>, pos |-> 0, max |-> p]
  OBVIOUS
<1>6. PICK y : y = [data |-> <<>>, pos |-> 0, max |-> q]
  OBVIOUS
<1>7. a = [index |-> 1, parts |-> [i \in 1 .. 2 |-> IF i = 1 THEN x ELSE y]]
  <2>1. PICK s : s = <<p, q>>
    OBVIOUS
  <2>2. DOMAIN s = 1 .. 2 /\ s[1] = p /\ s[2] = q
    BY <2>1
  <2>3. ASSUME NEW i \in 1 .. 2
        PROVE  [data |-> <<>>, pos |-> 0, max |-> s[i]] = IF i = 1 THEN x ELSE y
    <3>1. i = 1 \/ i = 2
      OBVIOUS
    <3> QED
      BY <1>5, <1>6, <2>2, <3>1
  <2>4. a = [index |-> 1, parts |-> [i \in DOMAIN s |-> [data |-> <<>>, pos |-> 0, max |-> s[i]]]]
    BY <1>2, <2>1 DEF NewArray
  <2>5. [i \in DOMAIN s |-> [data |-> <<>>, pos |-> 0, max |-> s[i]]] =
          [i \in 1 .. 2 |-> IF i = 1 THEN x ELSE y]
    BY <2>2, <2>3
  <2> QED
    BY <2>4, <2>5
<1>8. a.index = 1 /\ a.parts[1] = x /\ a.parts[2] = y /\ a.parts \in [1 .. 2 -> PartType]
  <2>1. x \in PartType /\ y \in PartType
    BY <1>5, <1>6 DEF PartType
  <2> QED
    BY <1>7, <2>1
<1>9. /\ x.data = <<>> /\ y.data = <<>> /\ x.max = p /\ y.max = q /\ Len(<<>>) = 0
  BY <1>5, <1>6
<1>10. ArrayRight(a)
  <2>1. a = [index |-> a.index, parts |-> a.parts]
    BY <1>7
  <2>2. ASSUME NEW i \in 1 .. 2 PROVE Len(a.parts[i].data) <= a.parts[i].max
    <3>1. i = 1 \/ i = 2
      OBVIOUS
    <3> QED
      BY <1>8, <1>9, <3>1
  <2>3. ~(Len(a.parts[2].data) > 0)
    BY <1>8, <1>9
  <2>4. a.index \in 1 .. 2
    BY <1>8
  <2> QED
    BY <1>8, <2>1, <2>2, <2>3, <2>4 DEF ArrayRight
<1>11. Held(a) = 0 /\ Limit(a) = p + q
  BY <1>8, <1>9 DEF Held, Limit
<1>12. ManagerRight(m)
  <2>1. m.blocks \in Seq(BlockType) /\ Len(m.blocks) = 0 /\ 1 .. 0 = {}
    <3>1. PICK S : S = BlockType
      OBVIOUS
    <3>2. <<>> \in Seq(S) /\ Len(<<>>) = 0 /\ 1 .. 0 = {}
      OBVIOUS
    <3> QED
      BY <1>4, <3>1, <3>2
  <2>2. m = [blocks |-> m.blocks, total |-> m.total, array |-> m.array, ok |-> TRUE]
    BY <1>3, <1>4
  <2> QED
    BY <1>4, <1>10, <2>1, <2>2 DEF ManagerRight
<1>13. ManagerHas(dd, m, 0)
  <2>1. Len(m.blocks) = 0 /\ 1 .. 0 = {}
    BY <1>4
  <2>2. \A z \in 1 .. Len(dd.firsts) : ~(dd.firsts[z].index < 0)
    <3>1. FirstsRight(dd)
      BY DEF DDRight
    <3>2. \A z \in 1 .. Len(dd.firsts) : dd.firsts[z].index \in Nat
      BY <3>1, FirstIsOf
    <3> QED
      BY <3>2
  <2> QED
    BY <1>4, <1>11, <1>12, <2>1, <2>2 DEF ManagerHas
<1>14. Len(setup.file.bytes) <= Limit(m.array)
  <2>1. Len(setup.file.bytes) \in Nat /\ Len(setup.file.bytes) <= q
    BY <1>1 DEF SetupRight, FileRight
  <2> QED
    BY <1>1, <1>4, <1>11, <2>1
<1>15. m.total <= 0
  BY <1>4
<1>16. AsForetold(dd, m, 0)
  BY <1>4, NothingForetold
<1> QED
  BY <1>4, <1>13, <1>14, <1>15, <1>16 DEF ManagerFits

\* The decoder in front of the first block.
LEMMA NewDecoderFits ==
  ASSUME SetupRight, DDRight(setup, dd), NEW list, TableRight(dd, list), NEW x, x = NewDecoder
  PROVE  DecRight(setup, dd, list, x, 0, 0) /\ x.next = 1
<1>1. PICK m : m = NewManager(<<setup.memory, FilePart>>)
  OBVIOUS
<1>2. ManagerFits(setup, dd, m, 0, 0)
  BY <1>1, NewManagerFits
<1>3. x = DecState(1, <<>>, -1, 1, m)
  BY <1>1 DEF NewDecoder
<1>4. Part(setup, 0, 0) = <<>>
  BY DEF Part
<1>5. 0 - 1 = -1
  OBVIOUS
<1>6. x.next = 1
  BY <1>3 DEF DecState, DecRecord
<1>7. x = DecState(x.next, Part(setup, 0, 0), 0 - 1, 1, m)
  BY <1>3, <1>4, <1>5, <1>6
<1>8. Pointer(list, 1, 0)
  <2>1. ASSUME NEW l \in 1 .. Len(list) PROVE ~(l < 1) /\ ~(list[l].index < 0)
    <3>1. list[l].index \in Nat
      BY EntryIs
    <3> QED
      BY <3>1
  <2> QED
    BY <2>1 DEF Pointer
<1> QED
  BY <1>2, <1>6, <1>7, <1>8 DEF DecRight

\* Without deduplication the table is empty, and right.
LEMMA NoTableIs ==
  ASSUME DDRight(setup, dd), ~setup.dedup
  PROVE  TableRight(dd, <<>>)
<1>1. <<>> \in Seq(TableEntry) /\ Len(<<>>) = 0 /\ 1 .. 0 = {}
  OBVIOUS
<1>2. \A z \in 1 .. Len(dd.firsts) : ~(dd.firsts[z].count > 0)
  BY NoneAgain
<1> QED
  BY <1>1, <1>2 DEF TableRight

\* The table is written; the decoder stands in front of the first block.
LEMMA FinishKeeps ==
  ASSUME StoreInv, ContainerInv, Finish
  PROVE  ContainerInv'
<1>1. /\ phase = "done" /\ ~whole /\ phase' = "decode"
      /\ head' = IF ~setup.dedup THEN head ELSE [list |-> Table, memory |-> Foreseen.memory]
      /\ UNCHANGED <<whole, inputSize, setup, info, lastStream, dd, blocks, dec>>
  BY DEF Finish, inputVars, encVars
<1>2. SetupRight /\ IdleInv /\ DDRight(setup, dd) /\ EncodedInv /\ EntriesInv
  BY DEF ContainerInv
<1>3. ~Decoding /\ Decoding'
  BY <1>1 DEF Decoding
<1>4. head = NoTable /\ dec = NewDecoder
  BY <1>2, <1>3 DEF IdleInv
<1>5. PICK list : list = head'.list
  OBVIOUS
<1>6. TableRight(dd, list)
  <2>1. CASE setup.dedup
    <3>1. head' = [list |-> Table, memory |-> Foreseen.memory]
      BY <1>1, <2>1
    <3>2. list = Table
      BY <1>5, <3>1
    <3> QED
      BY <1>2, <3>2, TableIs
  <2>2. CASE ~setup.dedup
    <3>1. head' = NoTable
      BY <1>1, <1>4, <2>2
    <3>2. list = <<>>
      BY <1>5, <3>1 DEF NoTable
    <3> QED
      BY <1>2, <2>2, <3>2, NoTableIs
  <2> QED
    BY <2>1, <2>2
<1>7. PICK S \in Nat : S = Len(setup.file.bytes)
  BY <1>2 DEF SetupRight, FileRight
<1>8. Len(emitted) = S
  BY <1>1, <1>2, <1>7 DEF StoreInv, EmitInv, SetupRight
<1>9. EncodedRight(setup, dd, blocks, lastStream, S)
  BY <1>1, <1>2, <1>3, <1>8 DEF EncodedInv
<1>10. WrittenRight(setup, dd, blocks, S, dd.streams)
  <2>1. lastStream \in Nat /\ S + lastStream <= S
    BY <1>7, <1>9 DEF EncodedRight
  <2>2. S + lastStream = S
    BY <2>1
  <2> QED
    BY <1>9, <2>2 DEF EncodedRight
<1>11. PICK at, ids : /\ Chain(setup, dd, blocks, at, ids) /\ at[Len(blocks)] = S
                      /\ ids[Len(blocks)] = dd.streams
  BY <1>10 DEF WrittenRight
<1>12. IsList(blocks)
  BY <1>10 DEF WrittenRight
<1>13. Len(blocks) \in Nat
  BY <1>12, ListIs
<1>14. PICK x : x = dec
  OBVIOUS
<1>15. DecRight(setup, dd, list, x, 0, 0) /\ x.next = 1
  BY <1>2, <1>4, <1>6, <1>14, NewDecoderFits
<1>16. DecodedSoFar(setup, dd, list, blocks, x)
  <2>1. x.next \in 1 .. Len(blocks) + 1 /\ x.next - 1 = 0
    BY <1>13, <1>15
  <2>2. ids[x.next - 1] = 0 /\ at[x.next - 1] = 0
    BY <1>11, <2>1 DEF Chain
  <2>3. DecRight(setup, dd, list, x, ids[x.next - 1], at[x.next - 1])
    BY <1>15, <2>2
  <2> QED
    BY <1>6, <1>7, <1>11, <1>12, <2>1, <2>3 DEF DecodedSoFar
<1>17. PICK h : h = head'
  OBVIOUS
<1>18. h.memory = Promised(setup, dd)
  <2>1. CASE setup.dedup
    <3>1. h = [list |-> Table, memory |-> Foreseen.memory]
      BY <1>1, <1>17, <2>1
    <3>2. h.memory = Foreseen.memory
      BY <3>1
    <3>3. Foreseen = ForeseenOf(dd)[dd.streams]
      BY <1>2, ForeseenIs DEF DDRight
    <3> QED
      BY <2>1, <3>2, <3>3 DEF Promised
  <2>2. CASE ~setup.dedup
    <3>1. h = NoTable
      BY <1>1, <1>4, <1>17, <2>2
    <3>2. h.memory = 0
      BY <3>1 DEF NoTable
    <3> QED
      BY <2>2, <3>2 DEF Promised
  <2> QED
    BY <2>1, <2>2
<1>19. DecodedInv'
  <2>1. UNCHANGED Promised(setup, dd)
    BY <1>1
  <2> QED
    BY <1>1, <1>5, <1>14, <1>16, <1>17, <1>18, <2>1 DEF DecodedInv
<1>20. SetupRight'
  BY <1>1, <1>2, SetupStays
<1>21. IdleInv'
  BY <1>1, <1>3 DEF IdleInv
<1>22. EncodedInv' /\ EntriesInv' /\ DDRight(setup, dd)'
  BY <1>1, <1>2, <1>3 DEF EncodedInv, EntriesInv
<1> QED
  BY <1>19, <1>20, <1>21, <1>22 DEF ContainerInv

\* One more block is decoded.
LEMMA DecodedMore ==
  ASSUME setup.file.bytes \in Seq(Int), DDRight(setup, dd),
         DecodedSoFar(setup, dd, head.list, blocks, dec), dec.next <= Len(blocks),
         NEW y, y = Decoded(dec, blocks[dec.next])
  PROVE  DecodedSoFar(setup, dd, head.list, blocks, y)
<1>1. TableRight(dd, head.list) /\ IsList(blocks)
  BY DEF DecodedSoFar
<1>2. PICK at, ids :
        /\ Chain(setup, dd, blocks, at, ids) /\ at[Len(blocks)] = Len(setup.file.bytes)
        /\ ids[Len(blocks)] = dd.streams /\ dec.next \in 1 .. Len(blocks) + 1
        /\ DecRight(setup, dd, head.list, dec, ids[dec.next - 1], at[dec.next - 1])
  BY DEF DecodedSoFar
<1>3. PICK L \in Nat : L = Len(blocks)
  BY <1>1, ListIs
<1>4. PICK n \in 1 .. L : n = dec.next
  BY <1>2, <1>3
<1>5. n \in 0 .. L /\ n - 1 \in 0 .. L /\ n + 1 \in 1 .. L + 1 /\ (n + 1) - 1 = n
  BY <1>4
<1>6. PICK i \in Nat, k \in Nat, a \in Nat, c \in Nat :
        i = ids[n - 1] /\ k = ids[n] /\ a = at[n - 1] /\ c = at[n]
  BY <1>2, <1>3, <1>5 DEF Chain
<1>7. PICK b : b = blocks[n]
  OBVIOUS
<1>8. BlockRight(setup, dd, b, a, i, c) /\ k = i + Len(b.headers)
  BY <1>2, <1>3, <1>4, <1>6, <1>7 DEF Chain
<1>9. PICK x : x = dec
  OBVIOUS
<1>10. DecRight(setup, dd, head.list, x, i, a) /\ x.next = n
  BY <1>2, <1>4, <1>6, <1>9
<1>11. y = Decoded(x, b)
  BY <1>4, <1>7, <1>9
<1>12. DecRight(setup, dd, head.list, y, k, c) /\ y.next = x.next + 1
  BY <1>1, <1>8, <1>10, <1>11, DecodedIs
<1>13. y.next \in 1 .. Len(blocks) + 1 /\ y.next - 1 = n
  BY <1>3, <1>5, <1>10, <1>12
<1>14. DecRight(setup, dd, head.list, y, ids[y.next - 1], at[y.next - 1])
  BY <1>6, <1>12, <1>13
<1> QED
  BY <1>1, <1>2, <1>13, <1>14 DEF DecodedSoFar

\* A block is decoded.
LEMMA DecodeBlockKeeps ==
  ASSUME ContainerInv, DecodeBlock
  PROVE  ContainerInv'
<1>1. /\ phase = "decode" /\ dec.next <= Len(blocks) /\ dec' = Decoded(dec, blocks[dec.next])
      /\ UNCHANGED <<whole, inputSize, phase, slot, emitted, positions>>
      /\ UNCHANGED <<setup, info, lastStream, dd, blocks, head>>
  BY DEF DecodeBlock, vars, inputVars, storeVars, encVars
<1>2. SetupRight /\ IdleInv /\ DDRight(setup, dd) /\ EncodedInv /\ EntriesInv /\ DecodedInv
  BY DEF ContainerInv
<1>3. Decoding /\ Decoding'
  BY <1>1 DEF Decoding
<1>4. setup.file.bytes \in Seq(Int)
  BY <1>2 DEF SetupRight, FileRight
<1>5. DecodedSoFar(setup, dd, head.list, blocks, dec)
  BY <1>2, <1>3 DEF DecodedInv
<1>6. PICK y : y = dec'
  OBVIOUS
<1>7. DecodedSoFar(setup, dd, head.list, blocks, y)
  <2>1. y = Decoded(dec, blocks[dec.next])
    BY <1>1, <1>6
  <2> QED
    BY <1>1, <1>2, <1>4, <1>5, <2>1, DecodedMore
<1>8. head.memory = Promised(setup, dd) /\ UNCHANGED <<head, Promised(setup, dd)>>
  BY <1>1, <1>2, <1>3 DEF DecodedInv
<1>9. DecodedInv'
  BY <1>1, <1>6, <1>7, <1>8 DEF DecodedInv
<1>10. SetupRight'
  BY <1>1, <1>2, SetupStays
<1>11. IdleInv'
  BY <1>1, <1>2, <1>3 DEF IdleInv
<1>12. EncodedInv' /\ DDRight(setup, dd)'
  BY <1>1, <1>2, <1>3 DEF EncodedInv
<1>13. EntriesInv'
  BY <1>1, <1>2 DEF EntriesInv
<1> QED
  BY <1>9, <1>10, <1>11, <1>12, <1>13 DEF ContainerInv

\* The last block has been decoded.
LEMMA DecodeEndKeeps ==
  ASSUME ContainerInv, DecodeEnd
  PROVE  ContainerInv'
<1>1. /\ phase = "decode" /\ dec.next > Len(blocks) /\ phase' = "decoded"
      /\ UNCHANGED <<whole, inputSize, setup, info, lastStream, dd, blocks, head, dec>>
  BY DEF DecodeEnd, inputVars, encVars
<1>2. SetupRight /\ IdleInv /\ DDRight(setup, dd) /\ EntriesInv /\ DecodedInv
  BY DEF ContainerInv
<1>3. Decoding /\ Decoding'
  BY <1>1 DEF Decoding
<1>4. DecodedSoFar(setup, dd, head.list, blocks, dec)
  BY <1>2, <1>3 DEF DecodedInv
<1>5. dec.next = Len(blocks) + 1
  <2>1. IsList(blocks) /\ dec.next \in 1 .. Len(blocks) + 1
    BY <1>4 DEF DecodedSoFar
  <2>2. Len(blocks) \in Nat
    BY <2>1, ListIs
  <2> QED
    BY <1>1, <2>1, <2>2
<1>6. head.memory = Promised(setup, dd) /\ UNCHANGED <<head, Promised(setup, dd)>>
  BY <1>1, <1>2, <1>3 DEF DecodedInv
<1>7. DecodedInv'
  BY <1>1, <1>4, <1>5, <1>6 DEF DecodedInv
<1>8. SetupRight'
  BY <1>1, <1>2, SetupStays
<1>9. IdleInv' /\ EncodedInv' /\ EntriesInv' /\ DDRight(setup, dd)'
  BY <1>1, <1>2, <1>3 DEF IdleInv, EncodedInv, EntriesInv
<1> QED
  BY <1>7, <1>8, <1>9 DEF ContainerInv

\* A step that changes nothing.
LEMMA StutterKeeps ==
  ASSUME ContainerInv, UNCHANGED allVars
  PROVE  ContainerInv'
<1>1. /\ UNCHANGED <<whole, inputSize, phase, slot, emitted, positions>>
      /\ UNCHANGED <<setup, info, lastStream, dd, blocks, head, dec>>
  BY DEF allVars, vars, inputVars, storeVars, encVars
<1>2. SetupRight /\ IdleInv /\ DDRight(setup, dd) /\ EncodedInv /\ EntriesInv /\ DecodedInv
  BY DEF ContainerInv
<1>3. SetupRight'
  BY <1>1, <1>2, SetupStays
<1>4. Base' = Base
  BY <1>1 DEF Base
<1>5. EntriesInv'
  <2>1. ASSUME NEW i, EntriesOf(i) PROVE EntriesOf(i)'
    BY <1>1, <1>4, <2>1, EntriesStay
  <2> QED
    BY <1>1, <1>2, <2>1 DEF EntriesInv
<1>6. UNCHANGED <<NewDecoder, Decoding>>
  BY <1>1 DEF NewDecoder, Decoding
<1>7. IdleInv' /\ EncodedInv' /\ DDRight(setup, dd)' /\ DecodedInv'
  BY <1>1, <1>2, <1>6 DEF IdleInv, EncodedInv, DecodedInv
<1> QED
  BY <1>3, <1>5, <1>7 DEF ContainerInv

-----------------------------------------------------------------------------
(* The theorem *)

\* Nothing has been encoded.
LEMMA StartIs ==
  ASSUME EncInit
  PROVE  ContainerInv
<1>1. /\ info = [i \in Slots |-> <<>>] /\ lastStream = 0 /\ blocks = <<>>
      /\ dd = [firsts |-> <<>>, dups |-> <<>>, streams |-> 0, written |-> 0]
      /\ head = [list |-> <<>>, memory |-> 0]
      /\ dec = [next |-> 1, out |-> <<>>, index1 |-> -1, index2 |-> 1, ok |-> TRUE,
                manager |-> NewManager(<<setup.memory, FilePart>>)]
      /\ phase = "scan" /\ emitted = <<>> /\ whole \in BOOLEAN
  BY DEF EncInit, Init
<1>2. \/ whole = FALSE /\ setup \in Setups /\ inputSize = Len(setup.file.bytes)
      \/ whole = TRUE /\ setup \in Setups /\ setup.file.bytes = <<>>
  <2>1. CASE whole = FALSE
    BY <2>1 DEF EncInit
  <2>2. CASE whole = TRUE
    <3>1. PICK f \in Files : f.bytes = <<>>
      BY ContainerAssumption
    <3>2. PICK s : s = [file |-> f, dedup |-> FALSE, mt |-> TRUE, memory |-> 0]
      OBVIOUS
    <3>3. s \in Setups /\ s.file.bytes = <<>>
      BY <3>1, <3>2 DEF Setups
    <3>4. setup = CHOOSE t \in Setups : t.file.bytes = <<>>
      BY <2>2 DEF EncInit
    <3> QED
      BY <2>2, <3>3, <3>4
  <2> QED
    BY <1>1, <2>1, <2>2
<1>3. setup \in Setups
  BY <1>2
<1>4. setup.file \in Files /\ setup.memory \in Nat
  <2>1. setup.memory \in MemoryParts \/ setup.memory = 0
    BY <1>3 DEF Setups
  <2>2. setup.file \in Files
    BY <1>3 DEF Setups
  <2>3. MemoryParts \subseteq Nat
    BY ContainerAssumption
  <2>4. CASE setup.memory = 0
    BY <2>2, <2>4
  <2>5. CASE setup.memory \in MemoryParts
    BY <2>2, <2>3, <2>5
  <2> QED
    BY <2>1, <2>4, <2>5
<1>5. FileRight(setup.file) /\ Len(setup.file.bytes) <= FilePart
  <2>1. PICK f \in Files : f = setup.file
    BY <1>4
  <2>2. /\ f.bytes \in Seq(Nat) /\ Len(f.bytes) <= FilePart /\ f.streams \in Seq(Streams)
        /\ \A i \in DOMAIN f.streams : f.streams[i].old > 0 /\ f.streams[i].new > 0
    BY ContainerAssumption
  <2>3. f.bytes \in Seq(Int)
    BY <2>2
  <2>4. DOMAIN f.streams = 1 .. Len(f.streams)
    BY <2>2
  <2> QED
    BY <2>1, <2>2, <2>3, <2>4 DEF FileRight
<1>6. SetupRight
  BY <1>2, <1>4, <1>5 DEF SetupRight
<1>7. ~Decoding
  BY <1>1 DEF Decoding
<1>8. IdleInv /\ DecodedInv
  <2>1. dec = NewDecoder
    BY <1>1 DEF NewDecoder, DecState, DecRecord
  <2>2. phase # "decoded"
    BY <1>1
  <2> QED
    BY <1>1, <1>7, <2>1, <2>2 DEF IdleInv, DecodedInv, NoTable
<1>9. dd.firsts = <<>> /\ dd.dups = <<>> /\ dd.streams = 0 /\ dd.written = 0
  BY <1>1
<1>10. DDRight(setup, dd)
  <2>1. PICK d : d = dd
    OBVIOUS
  <2>2. d = [firsts |-> <<>>, dups |-> <<>>, streams |-> 0, written |-> 0]
    BY <1>1, <2>1
  <2>3. d.firsts = <<>> /\ d.dups = <<>> /\ d.streams = 0 /\ d.written = 0
    BY <2>2
  <2>4. \A S : <<>> \in Seq(S)
    OBVIOUS
  <2>5. Len(<<>>) = 0 /\ 1 .. 0 = {}
    OBVIOUS
  <2>6. FirstsRight(d)
    BY <2>3, <2>4, <2>5 DEF FirstsRight
  <2>7. DupsRight(d)
    BY <2>3, <2>4, <2>5 DEF DupsRight
  <2>8. d = [firsts |-> d.firsts, dups |-> d.dups, streams |-> d.streams, written |-> d.written]
    BY <2>2, <2>3
  <2> QED
    BY <2>1, <2>3, <2>5, <2>6, <2>7, <2>8 DEF DDRight
<1>11. EncodedInv
  <2>1. WrittenRight(setup, dd, blocks, 0, 0)
    BY <1>1, NothingWritten
  <2>2. Len(emitted) = 0
    BY <1>1
  <2>3. Len(setup.file.bytes) \in Nat
    BY <1>5 DEF FileRight
  <2>4. 0 + 0 = 0
    OBVIOUS
  <2>5. EncodedRight(setup, dd, blocks, 0, 0)
    BY <1>9, <2>1, <2>3, <2>4 DEF EncodedRight
  <2> QED
    BY <1>1, <2>2, <2>5 DEF EncodedInv
<1>12. EntriesInv
  BY <1>1 DEF EntriesInv
<1> QED
  BY <1>6, <1>8, <1>10, <1>11, <1>12 DEF ContainerInv

\* What the invariant says of the decoder's output.
LEMMA ContainerInvShows ==
  ASSUME ContainerInv
  PROVE  DecodedRight
<1>1. SetupRight /\ IdleInv /\ DecodedInv
  BY DEF ContainerInv
<1>2. setup.file.bytes \in Seq(Int)
  BY <1>1 DEF SetupRight, FileRight
<1>3. PICK t \in Seq(Int) : t = setup.file.bytes
  BY <1>2
<1>4. PICK L \in Nat : L = Len(t)
  OBVIOUS
<1>5. CASE ~Decoding
  <2>1. dec = NewDecoder
    BY <1>1, <1>5 DEF IdleInv
  <2>2. PICK m : m = NewManager(<<setup.memory, FilePart>>)
    OBVIOUS
  <2>3. dec = DecState(1, <<>>, -1, 1, m)
    BY <2>1, <2>2 DEF NewDecoder
  <2>4. dec.ok = TRUE /\ dec.out = <<>> /\ dec.manager = m
    BY <2>3 DEF DecState, DecRecord
  <2>5. m.ok = TRUE
    BY <2>2 DEF NewManager
  <2>6. IsPrefix(<<>>, t)
    BY <1>4 DEF IsPrefix
  <2>7. phase # "decoded"
    BY <1>5 DEF Decoding
  <2> QED
    BY <1>3, <2>4, <2>5, <2>6, <2>7 DEF DecodedRight
<1>6. CASE Decoding
  <2>1. DecodedSoFar(setup, dd, head.list, blocks, dec)
    BY <1>1, <1>6 DEF DecodedInv
  <2>2. PICK at, ids :
          /\ Chain(setup, dd, blocks, at, ids) /\ at[Len(blocks)] = Len(setup.file.bytes)
          /\ dec.next \in 1 .. Len(blocks) + 1
          /\ DecRight(setup, dd, head.list, dec, ids[dec.next - 1], at[dec.next - 1])
    BY <2>1 DEF DecodedSoFar
  <2>3. PICK N \in Nat : N = Len(blocks)
    BY <2>1, ListIs DEF DecodedSoFar
  <2>4. PICK n \in 0 .. N : n = dec.next - 1
    BY <2>2, <2>3
  <2>5. PICK a \in Nat, i \in Nat : a = at[n] /\ i = ids[n]
    BY <2>2, <2>3 DEF Chain
  <2>6. a <= L
    <3>1. CASE n = 0
      BY <2>2, <2>5, <3>1 DEF Chain
    <3>2. CASE n # 0
      <4>1. n \in 1 .. N
        BY <3>2
      <4>2. BlockRight(setup, dd, blocks[n], at[n - 1], ids[n - 1], at[n])
        BY <2>2, <2>3, <4>1 DEF Chain
      <4> QED
        BY <1>3, <1>4, <2>5, <4>2 DEF BlockRight
    <3> QED
      BY <3>1, <3>2
  <2>7. DecRight(setup, dd, head.list, dec, i, a)
    BY <2>2, <2>4, <2>5
  <2>8. PICK p, m : /\ dec = DecState(dec.next, Part(setup, 0, a), i - 1, p, m)
                    /\ ManagerFits(setup, dd, m, i, a)
    BY <2>7 DEF DecRight
  <2>9. PICK r, q, k : r = Part(setup, 0, a) /\ q = dec.next /\ k = i - 1
    OBVIOUS
  <2>10. dec = DecState(q, r, k, p, m)
    BY <2>8, <2>9
  <2>11. dec.ok = TRUE /\ dec.out = r /\ dec.manager = m
    BY <2>10 DEF DecState, DecRecord
  <2>12. m.ok = TRUE
    <3>1. m = [blocks |-> m.blocks, total |-> m.total, array |-> m.array, ok |-> TRUE]
      BY <2>8 DEF ManagerFits, ManagerHas, ManagerRight
    <3> QED
      BY <3>1
  <2>13. r \in Seq(Int) /\ Len(r) = a /\ \A j \in 1 .. a : r[j] = t[j]
    <3>0. PICK o \in Nat : o = 0
      OBVIOUS
    <3>1. o + a <= Len(setup.file.bytes) /\ r = Part(setup, o, a)
      BY <1>3, <1>4, <2>6, <2>9, <3>0
    <3>2. /\ r \in Seq(Int) /\ Len(r) = a
          /\ \A j \in 1 .. a : r[j] = setup.file.bytes[o + j]
      BY <1>2, <3>1, PartIs
    <3>3. \A j \in 1 .. a : o + j = j
      BY <3>0
    <3> QED
      BY <1>3, <3>2, <3>3
  <2>14. IsPrefix(r, t)
    <3>1. Len(r) <= Len(t)
      BY <1>4, <2>6, <2>13
    <3>2. PICK x, y : x = SubSeq(r, 1, a) /\ y = SubSeq(t, 1, a)
      OBVIOUS
    <3>3. x \in Seq(Int) /\ Len(x) = a /\ \A j \in 1 .. a : x[j] = r[j]
      <4>1. a <= Len(r)
        BY <2>13
      <4> QED
        BY <2>13, <3>2, <4>1, CutIs
    <3>4. y \in Seq(Int) /\ Len(y) = a /\ \A j \in 1 .. a : y[j] = t[j]
      <4>1. a <= Len(t)
        BY <1>4, <2>6
      <4> QED
        BY <3>2, <4>1, CutIs
    <3>5. x = y
      BY <2>13, <3>3, <3>4
    <3> QED
      BY <2>13, <3>1, <3>2, <3>5 DEF IsPrefix
  <2>15. ASSUME phase = "decoded" PROVE r = t
    <3>1. n = N
      BY <1>1, <2>3, <2>4, <2>15 DEF DecodedInv
    <3>2. a = L
      BY <1>3, <1>4, <2>2, <2>3, <2>5, <3>1
    <3> QED
      BY <1>4, <2>13, <3>2
  <2> QED
    BY <1>3, <2>11, <2>12, <2>14, <2>15 DEF DecodedRight
<1> QED
  BY <1>5, <1>6

\* The inductive step: each action keeps the invariant.
LEMMA ContainerStep ==
  ASSUME StoreInv, ContainerInv, [EncNext]_allVars
  PROVE  ContainerInv'
<1>1. CASE Scan
  BY <1>1, ScanKeeps
<1>2. CASE WriteBlock
  BY <1>2, WriteBlockKeeps
<1>3. CASE PassSlot
  BY <1>3, PassSlotKeeps
<1>4. CASE Refill
  BY <1>4, RefillKeeps
<1>5. CASE Finish
  BY <1>5, FinishKeeps
<1>6. CASE DecodeBlock
  BY <1>6, DecodeBlockKeeps
<1>7. CASE DecodeEnd
  BY <1>7, DecodeEndKeeps
<1>8. CASE Stop
  BY <1>8, StutterKeeps DEF Stop
<1>9. CASE UNCHANGED allVars
  BY <1>9, StutterKeeps
<1> QED
  BY <1>1, <1>2, <1>3, <1>4, <1>5, <1>6, <1>7, <1>8, <1>9 DEF EncNext

\* What the invariant says of the data manager when all has been decoded.
LEMMA ContainerInvForetells ==
  ASSUME ContainerInv
  PROVE  MemoryForetold
<1> SUFFICES ASSUME phase = "decoded"
             PROVE  /\ dec.manager.total = head.memory
                    /\ \A k \in DOMAIN dec.manager.blocks : dec.manager.blocks[k].count = 0
  BY DEF MemoryForetold
<1>1. DDRight(setup, dd) /\ DecodedInv /\ Decoding
  BY DEF ContainerInv, Decoding
<1>2. DecodedSoFar(setup, dd, head.list, blocks, dec) /\ dec.next = Len(blocks) + 1
  BY <1>1 DEF DecodedInv
<1>3. head.memory = Promised(setup, dd)
  BY <1>1 DEF DecodedInv
<1>4. dd.streams \in Nat /\ FirstsRight(dd) /\ DupsRight(dd)
  BY <1>1 DEF DDRight
<1>5. PICK N \in Nat : N = Len(blocks)
  BY <1>2, ListIs DEF DecodedSoFar
<1>6. PICK n \in Nat : n = dd.streams
  BY <1>4
<1>7. PICK at, ids : /\ ids[Len(blocks)] = dd.streams
                     /\ DecRight(setup, dd, head.list, dec, ids[dec.next - 1], at[dec.next - 1])
  BY <1>2 DEF DecodedSoFar
<1>8. PICK a : a = at[dec.next - 1]
  OBVIOUS
<1>9. dec.next - 1 = N
  BY <1>2, <1>5
<1>10. DecRight(setup, dd, head.list, dec, n, a)
  BY <1>5, <1>6, <1>7, <1>8, <1>9
<1>11. PICK p, m : /\ dec = DecState(dec.next, Part(setup, 0, a), n - 1, p, m)
                   /\ ManagerFits(setup, dd, m, n, a)
  BY <1>10 DEF DecRight
<1>12. PICK r, q, k : r = Part(setup, 0, a) /\ q = dec.next /\ k = n - 1
  OBVIOUS
<1>13. dec = DecState(q, r, k, p, m)
  BY <1>11, <1>12
<1>14. dec.manager = m
  BY <1>13 DEF DecState, DecRecord
<1>15. ManagerHas(dd, m, n) /\ AsForetold(dd, m, n)
  BY <1>11 DEF ManagerFits
<1>16. m.total = head.memory
  <2>1. CASE setup.dedup
    <3>1. PICK f : f = ForeseenOf(dd)[n]
      OBVIOUS
    <3>2. Matches(dd, f, m, n)
      BY <1>6, <1>15, <3>1 DEF AsForetold
    <3>3. PICK R, P, d : f = FState(R, P, m.total, d, LeftOf(dd, n))
      BY <3>2 DEF Matches
    <3>4. f.memory = m.total
      BY <3>3, FieldsIs
    <3> QED
      BY <1>3, <1>6, <2>1, <3>1, <3>4 DEF Promised
  <2>2. CASE ~setup.dedup
    <3>1. dd.dups = <<>>
      BY <1>1, <2>2 DEF DDRight
    <3>2. m.total = 0
      BY <1>15, <3>1 DEF AsForetold
    <3> QED
      BY <1>3, <2>2, <3>2 DEF Promised
  <2> QED
    BY <2>1, <2>2
<1>17. PICK M \in Nat : M = Len(m.blocks)
  BY <1>15 DEF ManagerHas, ManagerRight
<1>18. DOMAIN m.blocks = 1 .. M
  BY <1>15, <1>17 DEF ManagerHas, ManagerRight
<1>19. ASSUME NEW l \in 1 .. M
       PROVE  m.blocks[l].count = 0
  <2>1. m.blocks[l].count \in Nat
    <3>1. ManagerRight(m)
      BY <1>15 DEF ManagerHas
    <3> QED
      BY <1>17, <3>1, BlockIs
  <2>2. ~(m.blocks[l].count > 0)
    <3> SUFFICES ASSUME m.blocks[l].count > 0 PROVE FALSE
      OBVIOUS
    <3>1. HoldsFirst(dd, m, l, n)
      BY <1>15, <1>17 DEF ManagerHas
    <3>2. PICK z \in 1 .. Len(dd.firsts) : m.blocks[l].count = Cardinality(Copies(dd, z, n))
      BY <3>1 DEF HoldsFirst
    <3>3. Copies(dd, z, n) = {}
      <4>1. ASSUME NEW j \in 1 .. Len(dd.dups) PROVE ~(dd.dups[j].stream >= n)
        <5>1. dd.dups[j].stream \in Nat /\ dd.dups[j].stream < n
          BY <1>4, <1>6, DupIs DEF DupsRight
        <5> QED
          BY <5>1
      <4> QED
        BY <4>1 DEF Copies
    <3>4. m.blocks[l].count = 0
      BY <3>2, <3>3, FS_EmptySet
    <3> QED
      BY <3>4
  <2> QED
    BY <2>1, <2>2
<1> QED
  BY <1>14, <1>16, <1>18, <1>19

\* decode(precomp(x)) = x: for every input, all streams the scans may find in
\* it, every size of the slots, the blocks and the memory for duplicates, what
\* the decoder writes is the input from its first byte on, and in the end all
\* of it; no block is refused.
THEOREM ContainerDecodesTheInput == EncSpec => []DecodedRight
<1>1. EncInit => ContainerInv
  BY StartIs
<1>2. StoreInv /\ ContainerInv /\ [EncNext]_allVars => ContainerInv'
  BY ContainerStep
<1>3. ContainerInv => DecodedRight
  BY ContainerInvShows
<1> QED
  BY <1>1, <1>2, <1>3, StoreInductive, PTL DEF EncSpec

\* The encoder knows what the decoder will need: for every input, all streams
\* in it and every part of them that comes again, the memory it writes into the
\* table is what TDataManager has handed out when all blocks are decoded, a
\* room that is free again and long enough being used before a new one, and no
\* stream is kept that nothing refers to any more.
THEOREM MemoryIsForetold == EncSpec => []MemoryForetold
<1>1. EncInit => ContainerInv
  BY StartIs
<1>2. StoreInv /\ ContainerInv /\ [EncNext]_allVars => ContainerInv'
  BY ContainerStep
<1>3. ContainerInv => MemoryForetold
  BY ContainerInvForetells
<1> QED
  BY <1>1, <1>2, <1>3, StoreInductive, PTL DEF EncSpec
=============================================================================
