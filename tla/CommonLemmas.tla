---------------------------- MODULE CommonLemmas ----------------------------
(***************************************************************************)
(* Lemmas that several proofs rest on.                                     *)
(*                                                                         *)
(* Numbers: what rings and windows need to know of remainders (the caches  *)
(* put the byte of position p into cell p % size, a scan defers a stream   *)
(* to the list of slot c % NumSlots), and induction over numbers, for what *)
(* a loop has come to.  Sequences: their joins and pieces.  The ring of    *)
(* the cache streams, for rings of any size: as long as no more than size  *)
(* bytes are between the two positions and no portion crosses the end, a   *)
(* portion put in leaves the bytes before it whole, and a portion taken    *)
(* out is the bytes of its positions.                                      *)
(***************************************************************************)
EXTENDS CacheRing, Sequences, SequenceTheorems, FiniteSetTheorems, TLAPS

-----------------------------------------------------------------------------
(* Numbers *)

\* Every integer is a multiple of m and a remainder below m.
LEMMA Division ==
  ASSUME NEW a \in Int, NEW m \in Nat \ {0}
  PROVE  /\ a % m \in 0 .. m - 1
         /\ a \div m \in Int
         /\ a = m * (a \div m) + (a % m)
BY SMT

\* A number has one remainder.
LEMMA OneRemainder ==
  ASSUME NEW m \in Nat \ {0}, NEW q \in Int, NEW r \in Int,
         NEW s \in 0 .. m - 1, NEW t \in 0 .. m - 1,
         m * q + s = m * r + t
  PROVE  q = r /\ s = t
<1>1. ASSUME NEW x \in Int, NEW y \in Int, x > y
      PROVE  m * x - m * y >= m
  <2>1. x - y >= 1
    BY <1>1
  <2>2. m * (x - y) >= m
    BY <2>1, SMT
  <2> QED
    BY <2>2, SMT
<1>2. ~ (q > r)
  BY <1>1, SMT
<1>3. ~ (r > q)
  BY <1>1, SMT
<1> QED
  BY <1>2, <1>3, SMT

\* Up to the end of the ring, positions that follow each other lie in cells
\* that follow each other.
LEMMA CellAfter ==
  ASSUME NEW m \in Nat \ {0}, NEW p \in Nat, NEW k \in Nat, (p % m) + k < m
  PROVE  (p + k) % m = (p % m) + k
<1> DEFINE q == p \div m
           r == (p + k) \div m
           s == (p % m) + k
           t == (p + k) % m
<1>1. q \in Int /\ r \in Int /\ s \in 0 .. m - 1 /\ t \in 0 .. m - 1
  BY Division
<1>2. m * q + s = m * r + t
  <2>1. p = m * q + (p % m)
    BY Division
  <2>2. p + k = m * r + t
    BY Division
  <2>3. m * q \in Int /\ p % m \in Int
    BY <1>1, Division
  <2> QED
    BY <2>1, <2>2, <2>3
<1> HIDE DEF q, r, s, t
<1>3. s = t
  BY <1>1, <1>2, OneRemainder
<1> QED
  BY <1>3 DEF s, t

\* Positions less than the size apart lie in different cells.
LEMMA CellsApart ==
  ASSUME NEW m \in Nat \ {0}, NEW p \in Nat, NEW q \in Nat, p < q, q - p < m
  PROVE  p % m # q % m
<1> DEFINE x == p \div m
           y == q \div m
           s == p % m
           t == q % m
<1>1. x \in Int /\ y \in Int /\ s \in 0 .. m - 1 /\ t \in 0 .. m - 1
  BY Division
<1>2. p = m * x + s /\ q = m * y + t
  BY Division
<1> HIDE DEF x, y, s, t
<1> SUFFICES ASSUME s = t PROVE FALSE
  BY DEF s, t
<1>3. m * x \in Int /\ m * y \in Int
  BY <1>1
<1>4. m * y - m * x > 0 /\ m * y - m * x < m
  BY <1>1, <1>2, <1>3
<1>5. y > x
  <2>1. ASSUME x >= y PROVE m * x >= m * y
    BY <2>1, <1>1, SMT
  <2> QED
    BY <2>1, <1>3, <1>4, <1>1
<1>6. m * (y - x) >= m
  BY <1>1, <1>5, SMT
<1>7. m * (y - x) = m * y - m * x
  BY <1>1, SMT
<1> QED
  BY <1>3, <1>4, <1>6, <1>7

\* A whole ring further on is the same cell.
LEMMA SameCell ==
  ASSUME NEW m \in Nat \ {0}, NEW p \in Nat
  PROVE  (p + m) % m = p % m
<1> DEFINE q == p \div m
           r == (p + m) \div m
           s == p % m
           t == (p + m) % m
<1>1. q \in Int /\ r \in Int /\ s \in 0 .. m - 1 /\ t \in 0 .. m - 1
  BY Division
<1>2. m * (q + 1) + s = m * r + t
  <2>1. p = m * q + s
    BY Division
  <2>2. p + m = m * r + t
    BY Division
  <2>3. m * (q + 1) = m * q + m /\ m * q \in Int
    BY <1>1, SMT
  <2> HIDE DEF q, r, s, t
  <2> QED
    BY <1>1, <2>1, <2>2, <2>3
<1> HIDE DEF q, r, s, t
<1>3. s = t
  BY <1>1, <1>2, OneRemainder
<1> QED
  BY <1>3 DEF s, t


(***************************************************************************)
(* Induction over the numbers, as a fact about sets of them.               *)
(***************************************************************************)
LEMMA LeastNumber ==
  ASSUME NEW T \in SUBSET Nat, T # {}
  PROVE  \E n \in T : \A m \in T : n <= m
<1>1. PICK b \in T : TRUE
  OBVIOUS
<1> DEFINE Up(n) == 0..n
           F == {Up(n) : n \in {m \in T : m <= b}}
<1>2. IsWellFoundedOn(StrictSubsetOrdering(0..b), SUBSET (0..b))
  <2>1. IsFiniteSet(0..b)
    BY FS_Interval
  <2> QED
    BY <2>1, FS_StrictSubsetOrderingWellFounded, FS_FiniteSubsetsOfFinite
<1>3. F \subseteq SUBSET (0..b) /\ F # {}
  <2>1. ASSUME NEW n \in T, n <= b PROVE Up(n) \in SUBSET (0..b)
    BY <1>1, <2>1
  <2>2. Up(b) \in F
    BY <1>1
  <2> QED
    BY <2>1, <2>2
<1>4. PICK x \in F : \A y \in F : ~(<<y, x>> \in StrictSubsetOrdering(0..b))
  <2> HIDE DEF F
  <2> QED
    BY <1>2, <1>3, WFMin
<1>5. PICK n \in T : n <= b /\ x = 0..n
  BY <1>4
<1>6. ASSUME NEW m \in T, m < n PROVE FALSE
  <2>1. 0..m \in F
    BY <1>5, <1>6
  <2>2. 0..m \subseteq 0..n /\ n \in 0..n /\ ~(n \in 0..m)
    BY <1>5, <1>6
  <2>3. 0..m \in SUBSET (0..b) /\ x \in SUBSET (0..b)
    BY <1>3, <1>4, <2>1
  <2>4. <<0..m, x>> \in StrictSubsetOrdering(0..b)
    BY <2>2, <2>3, <1>5, Zenon DEF StrictSubsetOrdering
  <2> QED
    BY <2>4, <2>1, <1>4
<1> HIDE DEF F
<1>7. \A m \in T : n <= m
  BY <1>5, <1>6
<1> QED
  BY <1>5, <1>7

-----------------------------------------------------------------------------
(* Sequences *)

\* The two ends of a join.
LEMMA JoinIs ==
  ASSUME NEW S, NEW s \in Seq(S), NEW t \in Seq(S), NEW r, r = s \o t
  PROVE  /\ r \in Seq(S) /\ Len(r) = Len(s) + Len(t)
         /\ Len(s) \in Nat /\ Len(t) \in Nat /\ Len(r) \in Nat
         /\ \A j \in 1 .. Len(s) : r[j] = s[j]
         /\ \A j \in 1 .. Len(t) : r[Len(s) + j] = t[j]
         /\ \A j \in 1 .. Len(r) : r[j] = IF j <= Len(s) THEN s[j] ELSE t[j - Len(s)]
<1>1. Len(s) \in Nat /\ Len(t) \in Nat
  OBVIOUS
<1>2. /\ r \in Seq(S) /\ Len(r) = Len(s) + Len(t)
      /\ \A j \in 1 .. Len(s) + Len(t) : r[j] = IF j <= Len(s) THEN s[j] ELSE t[j - Len(s)]
  BY ConcatProperties
<1>3. ASSUME NEW j \in 1 .. Len(s) PROVE r[j] = s[j]
  BY <1>1, <1>2
<1>4. ASSUME NEW j \in 1 .. Len(t) PROVE r[Len(s) + j] = t[j]
  <2>1. Len(s) + j \in 1 .. Len(s) + Len(t) /\ ~(Len(s) + j <= Len(s)) /\ Len(s) + j - Len(s) = j
    BY <1>1

  <2> QED
    BY <1>2, <2>1
<1> QED
  BY <1>1, <1>2, <1>3, <1>4

\* A piece of a sequence, which may be empty.
LEMMA PieceIs ==
  ASSUME NEW S, NEW s \in Seq(S), NEW m \in Nat, NEW n \in Int, n <= Len(s), NEW r,
         r = SubSeq(s, m + 1, n)
  PROVE  /\ r \in Seq(S) /\ Len(r) = IF m < n THEN n - m ELSE 0
         /\ \A j \in 1 .. Len(r) : r[j] = s[m + j] /\ m + j \in 1 .. n
<1>1. Len(s) \in Nat
  OBVIOUS
<1>2. \A i \in m + 1 .. n : s[i] \in S
  BY <1>1
<1>3. m + 1 \in Int
  OBVIOUS
<1>4. /\ r \in Seq(S) /\ Len(r) = IF m + 1 <= n THEN n - (m + 1) + 1 ELSE 0
      /\ \A i \in 1 .. n - (m + 1) + 1 : r[i] = s[m + 1 + i - 1]
  BY <1>2, <1>3, SubSeqProperties
<1>5. Len(r) = IF m < n THEN n - m ELSE 0
  BY <1>4
<1>6. ASSUME NEW j \in 1 .. Len(r) PROVE r[j] = s[m + j] /\ m + j \in 1 .. n
  <2>1. j \in 1 .. n - (m + 1) + 1 /\ m + 1 + j - 1 = m + j /\ m + j \in 1 .. n
    BY <1>5
  <2> QED
    BY <1>4, <2>1
<1> QED
  BY <1>4, <1>5, <1>6

\* The first n elements, and those behind them.
LEMMA CutIs ==
  ASSUME NEW S, NEW s \in Seq(S), NEW n \in Nat, n <= Len(s), NEW c, c = SubSeq(s, 1, n),
         NEW d, d = SubSeq(s, n + 1, Len(s))
  PROVE  /\ c \in Seq(S) /\ Len(c) = n /\ \A j \in 1 .. n : c[j] = s[j]
         /\ d \in Seq(S) /\ Len(d) = Len(s) - n
         /\ \A j \in 1 .. Len(s) - n : d[j] = s[n + j]
<1>1. PICK m \in Nat : m = Len(s)
  OBVIOUS
<1>2. c = SubSeq(s, 0 + 1, n) /\ 0 \in Nat /\ n \in Int
  OBVIOUS
<1>3. c \in Seq(S) /\ Len(c) = (IF 0 < n THEN n - 0 ELSE 0) /\ \A j \in 1 .. Len(c) : c[j] = s[0 + j]
  BY <1>2, PieceIs
<1>4. d = SubSeq(s, n + 1, m) /\ m \in Int /\ m <= Len(s)
  BY <1>1
<1>5. d \in Seq(S) /\ Len(d) = (IF n < m THEN m - n ELSE 0) /\ \A j \in 1 .. Len(d) : d[j] = s[n + j]
  BY <1>4, PieceIs
<1>6. Len(c) = n /\ \A j \in 1 .. n : 0 + j = j
  BY <1>3
<1>7. Len(d) = m - n
  BY <1>1, <1>5
<1> QED
  BY <1>1, <1>3, <1>5, <1>6, <1>7

-----------------------------------------------------------------------------
(* The ring of the cache streams *)

\* The cells hold the bytes of the positions first .. last - 1.
Holds(ring, size, first, last) ==
  \A p \in first .. last - 1 : ring[p % size] = p

Numbers(first, n) == [j \in 1 .. n |-> first + j - 1]

\* The least of three integers is one of them and no greater than any.
LEMMA MinOfThree ==
  ASSUME NEW a \in Int, NEW b \in Int, NEW c \in Int
  PROVE  /\ Min({a, b, c}) \in {a, b, c}
         /\ Min({a, b, c}) <= a
         /\ Min({a, b, c}) <= b
         /\ Min({a, b, c}) <= c
<1>1. \E x \in {a, b, c} : \A y \in {a, b, c} : x <= y
  <2>1. CASE a <= b /\ a <= c
    BY <2>1
  <2>2. CASE b <= a /\ b <= c
    BY <2>2
  <2>3. CASE c <= a /\ c <= b
    BY <2>3
  <2> QED
    BY <2>1, <2>2, <2>3
<1> DEFINE x == CHOOSE x \in {a, b, c} : \A y \in {a, b, c} : x <= y
<1>2. x \in {a, b, c} /\ \A y \in {a, b, c} : x <= y
  BY <1>1
<1> QED
  BY <1>2 DEF Min

LEMMA MinOfTwo ==
  ASSUME NEW a \in Nat, NEW b \in Nat
  PROVE  Min({a, b}) \in Nat /\ Min({a, b}) <= a /\ Min({a, b}) <= b
<1>1. {a, b} = {a, b, b}
  OBVIOUS
<1> QED
  BY <1>1, MinOfThree

\* What Min(a, Min(b, size - pos mod size)) leaves: a portion that does not cross
\* the end of the ring.
LEMMA PortionFits ==
  ASSUME NEW size \in Nat \ {0}, NEW pos \in Nat, NEW a \in Nat, NEW b \in Int, b >= 0,
         NEW n, n = Min({a, b, size - (pos % size)})
  PROVE  n \in Nat /\ n <= a /\ n <= b /\ (pos % size) + n <= size
<1>1. PICK c \in 0 .. size - 1 : c = pos % size
  BY Division
<1>2. PICK d \in Int : d = size - c
  BY <1>1
<1>3. a \in Int /\ n = Min({a, b, d})
  BY <1>1, <1>2
<1>4. n \in {a, b, d} /\ n <= a /\ n <= b /\ n <= d
  <2>1. /\ Min({a, b, d}) \in {a, b, d}
        /\ Min({a, b, d}) <= a /\ Min({a, b, d}) <= b /\ Min({a, b, d}) <= d
    BY <1>3, MinOfThree
  <2> QED
    BY <1>3, <2>1
<1>5. n \in Nat /\ c + n <= size
  BY <1>2, <1>4
<1> QED
  BY <1>1, <1>4, <1>5

-----------------------------------------------------------------------------
\* FCache.WriteBuffer: a portion that fits is added to what the ring holds.
LEMMA PutBytesHolds ==
  ASSUME NEW size \in Nat \ {0}, NEW ring \in [0 .. size - 1 -> Int],
         NEW first \in Nat, NEW last \in Nat, first <= last, NEW n \in Nat,
         Holds(ring, size, first, last),
         last - first + n <= size, (last % size) + n <= size
  PROVE  /\ PutBytes(ring, size, last, last, n) \in [0 .. size - 1 -> Int]
         /\ Holds(PutBytes(ring, size, last, last, n), size, first, last + n)
<1> DEFINE new == PutBytes(ring, size, last, last, n)
<1>1. last % size \in 0 .. size - 1
  BY Division
<1>2. ASSUME NEW c \in 0 .. size - 1
      PROVE  new[c] = IF c - (last % size) \in 0 .. n - 1
                      THEN last + (c - (last % size)) ELSE ring[c]
  BY <1>1 DEF PutBytes
<1>3. new \in [0 .. size - 1 -> Int]
  <2>1. \A c \in 0 .. size - 1 : new[c] \in Int
    BY <1>1, <1>2
  <2>2. new = [c \in 0 .. size - 1 |-> new[c]]
    BY DEF PutBytes
  <2> QED
    BY <2>1, <2>2
<1>4. ASSUME NEW p \in first .. last - 1
      PROVE  new[p % size] = p
  <2>4. p \in Nat /\ p \in Int
    OBVIOUS
  <2>1. p % size \in 0 .. size - 1
    BY <2>4, Division, Zenon
  <2>2. (p % size) - (last % size) \notin 0 .. n - 1
    <3> SUFFICES ASSUME (p % size) - (last % size) \in 0 .. n - 1 PROVE FALSE
      OBVIOUS
    <3>1. PICK k \in Nat : k < n /\ p % size = (last % size) + k /\ (last % size) + k < size
      BY <1>1, <2>1
    <3>2. (last + k) % size = p % size
      BY <3>1, CellAfter
    <3>3. p < last + k /\ last + k - p < size /\ last + k \in Nat
      BY <3>1
    <3> QED
      <4>1. PICK q \in Nat : q = last + k
        BY <3>3
      <4>2. q % size = p % size
        BY <3>2, <4>1, Zenon
      <4>3. p < q /\ q - p < size
        BY <3>3, <4>1
      <4> QED
        BY <2>4, <4>2, <4>3, CellsApart, Zenon
  <2>3. ring[p % size] = p
    BY DEF Holds
  <2> QED
    BY <1>2, <2>1, <2>2, <2>3, Zenon
<1>5. ASSUME NEW p \in last .. last + n - 1
      PROVE  new[p % size] = p
  <2>7. p \in Int
    OBVIOUS
  <2>3. p % size \in 0 .. size - 1
    BY <2>7, Division, Zenon
  <2> DEFINE k == p - last
  <2>1. k \in Nat /\ k < n /\ p = last + k
    OBVIOUS
  <2>5. (last % size) + k < size
    BY <1>1, <2>1
  <2> HIDE DEF k
  <2>6. (last + k) % size = (last % size) + k
    BY <2>1, <2>5, CellAfter
  <2>2. p % size = (last % size) + k
    BY <2>1, <2>6
  <2>4. (p % size) - (last % size) = k
    BY <1>1, <2>1, <2>2
  <2> QED
    <3>1. new[p % size] = IF (p % size) - (last % size) \in 0 .. n - 1
                          THEN last + ((p % size) - (last % size)) ELSE ring[p % size]
      BY <1>2, <2>3, Zenon
    <3>2. k \in 0 .. n - 1
      BY <2>1
    <3>3. new[p % size] = last + k
      BY <2>4, <3>1, <3>2, Zenon
    <3> QED
      BY <2>1, <3>3, Zenon
<1>6. Holds(new, size, first, last + n)
  <2>1. \A p \in first .. (last + n) - 1 : p \in first .. last - 1 \/ p \in last .. last + n - 1
    OBVIOUS
  <2> HIDE DEF new
  <2> QED
    BY <1>4, <1>5, <2>1 DEF Holds
<1> QED
  BY <1>3, <1>6

\* FCache.ReadBuffer: a portion taken out is the bytes of its positions.
LEMMA GetBytesHolds ==
  ASSUME NEW size \in Nat \ {0}, NEW ring,
         NEW first \in Nat, NEW last \in Nat, NEW n \in Nat,
         Holds(ring, size, first, last),
         first + n <= last, (first % size) + n <= size
  PROVE  GetBytes(ring, size, first, n) = Numbers(first, n)
<1>1. first % size \in 0 .. size - 1
  BY Division
<1>2. ASSUME NEW j \in 1 .. n
      PROVE  ring[(first % size) + j - 1] = first + j - 1
  <2> DEFINE k == j - 1
  <2>1. k \in Nat /\ k < n /\ j = k + 1
    OBVIOUS
  <2>5. (first % size) + k < size
    BY <1>1, <2>1
  <2> HIDE DEF k
  <2>2. (first + k) % size = (first % size) + k
    BY <2>1, <2>5, CellAfter
  <2>3. ring[(first + k) % size] = first + k
    BY <2>1 DEF Holds
  <2>4. (first % size) + j - 1 = (first % size) + k /\ first + j - 1 = first + k
    BY <1>1, <2>1
  <2> QED
    BY <2>2, <2>3, <2>4
<1> QED
  BY <1>2 DEF GetBytes, Numbers

\* The bytes from 0 on, and those that follow them.
LEMMA NumbersConcat ==
  ASSUME NEW a \in Nat, NEW n \in Nat
  PROVE  /\ Numbers(0, a) \in Seq(Nat)
         /\ Len(Numbers(0, a)) = a
         /\ Numbers(0, a) \o Numbers(a, n) = Numbers(0, a + n)
<1> DEFINE s == Numbers(0, a)
           t == Numbers(a, n)
           u == Numbers(0, a + n)
<1>1. s \in Seq(Nat) /\ Len(s) = a /\ \A j \in 1 .. a : s[j] = j - 1
  BY DEF Numbers
<1>2. t \in Seq(Nat) /\ Len(t) = n /\ \A j \in 1 .. n : t[j] = a + j - 1
  BY DEF Numbers
<1>3. u \in Seq(Nat) /\ Len(u) = a + n /\ \A j \in 1 .. a + n : u[j] = j - 1
  BY DEF Numbers
<1> HIDE DEF s, t, u
<1>4. /\ s \o t \in Seq(Nat)
      /\ Len(s \o t) = a + n
      /\ \A i \in 1 .. a + n : (s \o t)[i] = IF i <= a THEN s[i] ELSE t[i - a]
  BY <1>1, <1>2, ConcatProperties
<1>5. \A i \in 1 .. a + n : (s \o t)[i] = u[i]
  BY <1>1, <1>2, <1>3, <1>4
<1>6. s \o t = u
  BY <1>3, <1>4, <1>5, SeqEqual
<1> QED
  BY <1>1, <1>6 DEF s, t, u

\* A part of the bytes that follow each other.
LEMMA NumbersParts ==
  ASSUME NEW first \in Nat, NEW n \in Nat, NEW k \in 0 .. n
  PROVE  /\ Numbers(first, n) \in Seq(Nat) /\ Len(Numbers(first, n)) = n
         /\ SubSeq(Numbers(first, n), 1, k) = Numbers(first, k)
         /\ SubSeq(Numbers(first, n), k + 1, n) = Numbers(first + k, n - k)
<1> DEFINE s == Numbers(first, n)
<1>1. s \in Seq(Nat) /\ Len(s) = n /\ \A j \in 1 .. n : s[j] = first + j - 1
  BY DEF Numbers
<1> HIDE DEF s
<1>2. SubSeq(s, 1, k) = Numbers(first, k)
  <2> DEFINE u == SubSeq(s, 1, k)
             v == Numbers(first, k)
  <2>1. \A i \in 1 .. k : s[i] \in Nat
    BY <1>1
  <2>2. u \in Seq(Nat) /\ Len(u) = k /\ \A i \in 1 .. k : u[i] = s[i]
    BY <2>1, <1>1, SubSeqProperties
  <2>3. v \in Seq(Nat) /\ Len(v) = k /\ \A i \in 1 .. k : v[i] = first + i - 1
    BY DEF Numbers
  <2> HIDE DEF u, v
  <2>4. u = v
    BY <1>1, <2>2, <2>3, SeqEqual
  <2> QED
    BY <2>4 DEF u, v
<1>3. SubSeq(s, k + 1, n) = Numbers(first + k, n - k)
  <2> DEFINE u == SubSeq(s, k + 1, n)
             v == Numbers(first + k, n - k)
  <2>1. \A i \in k + 1 .. n : s[i] \in Nat
    BY <1>1
  <2>2. /\ u \in Seq(Nat) /\ Len(u) = n - k
        /\ \A i \in 1 .. n - k : u[i] = s[k + i]
    <3>1. k + 1 \in Int /\ n \in Int /\ n - (k + 1) + 1 = n - k
      OBVIOUS
    <3>2. /\ u \in Seq(Nat)
          /\ Len(u) = IF k + 1 <= n THEN n - (k + 1) + 1 ELSE 0
          /\ \A i \in 1 .. n - (k + 1) + 1 : u[i] = s[(k + 1) + i - 1]
      BY <2>1, <3>1, SubSeqProperties
    <3> HIDE DEF u
    <3> QED
      BY <3>1, <3>2
  <2>3. v \in Seq(Nat) /\ Len(v) = n - k /\ \A i \in 1 .. n - k : v[i] = first + k + i - 1
    BY DEF Numbers
  <2> HIDE DEF u, v
  <2>4. \A i \in 1 .. n - k : u[i] = v[i]
    BY <1>1, <2>2, <2>3
  <2>5. u = v
    BY <2>2, <2>3, <2>4, SeqEqual
  <2> QED
    BY <2>5 DEF u, v
<1> QED
  BY <1>1, <1>2, <1>3 DEF s
=============================================================================
