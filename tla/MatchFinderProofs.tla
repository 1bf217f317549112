-------------------------- MODULE MatchFinderProofs --------------------------
(***************************************************************************)
(* Proofs about the match finder of preflate: for arrays, windows and      *)
(* blocks of any size that satisfy SizeAssumption, for every input and     *)
(* every sequence of updates and skips, the links of the hash chains lead  *)
(* along the positions of their hash, the depths count them, the arrays    *)
(* implement the abstract chains, and the chains of runs reach as far as   *)
(* the window does and hold the runs of the input.                         *)
(*                                                                         *)
(* LinksRight alone is not inductive: it speaks of the window, and a link  *)
(* that leaves the window now was made when nothing was known of where the *)
(* window would be.  IInv speaks of the arrays instead: a link goes to the *)
(* latest entered position with its hash that the arrays still hold, and   *)
(* is below Low when they hold none; and Room says that the arrays hold    *)
(* the whole window.                                                       *)
(*                                                                         *)
(* For the chains of runs, ClosedAt says at the end of every call what the *)
(* entries of each run are, and OpenAt what they are in the loop that      *)
(* enters the bytes, where the last run is still growing.                  *)
(***************************************************************************)
EXTENDS MatchFinder, CommonLemmas, TLAPS

TypeOK ==
  /\ input \in Seq(Byte)
  /\ pos \in Nat
  /\ head \in [Hashes -> Indexes]
  /\ prev \in [Indexes -> Indexes]
  /\ chainDepth \in [Indexes -> Int]
  /\ totalShift \in Int
  /\ todo \in Nat
  /\ blk \in Nat
  /\ cur \in Nat
  /\ skipping \in BOOLEAN
  /\ inserted \subseteq Nat

\* The arrays hold the position q.
Live(q) == Low <= q - totalShift

\* The indexes of the positions that are being entered lie in the arrays.
Room ==
  /\ pos + blk + todo <= Len(input)
  /\ blk <= MaxBlk
  /\ blk = 0 => pos - totalShift < Threshold + MaxBlk
  /\ blk > 0 => pos - totalShift < Threshold /\ pos <= cur /\ cur <= pos + Entered
  /\ -Low <= totalShift
  /\ Low <= pos - totalShift

\* What a reshift has dropped is out of the window.
WindowHeld == totalShift = -Low \/ totalShift + Low + Window <= pos

Limit == IF blk = 0 THEN pos ELSE cur

InsertedInv == \A q \in inserted : q < Limit /\ Hashable(q)

(***************************************************************************)
(* With the arrays at shift, the link n is right for the positions of set. *)
(***************************************************************************)
Link(n, set, shift) ==
  \/ Low <= n /\ n + shift \in set /\ \A r \in set : r <= n + shift
  \/ n < Low /\ (shift = -Low => n = 0) /\ \A r \in set : r - shift < Low

SameHash(h) == {r \in inserted : HashAt(r) = h}

Before(q) == {r \in inserted : r < q /\ HashAt(r) = HashAt(q)}

HeadInv == \A h \in Hashes : Link(head[h], SameHash(h), totalShift)

PrevInv ==
  \A q \in inserted :
    Live(q) => Link(prev[q - totalShift], Before(q), totalShift)

DepthInv ==
  \A q \in inserted :
    Live(q) /\ Low <= prev[q - totalShift] =>
      chainDepth[q - totalShift] = chainDepth[prev[q - totalShift]] + 1

IInv ==
  /\ TypeOK
  /\ Room
  /\ WindowHeld
  /\ InsertedInv
  /\ HeadInv
  /\ PrevInv
  /\ DepthInv

LEMMA Sizes ==
  /\ Window \in Nat /\ Window > 0
  /\ Delta \in Nat /\ Delta > 0
  /\ Low \in Nat /\ Low > 0
  /\ MaxBlk \in Nat /\ MaxBlk > 0
  /\ Cap \in Nat
  /\ MaxBlk <= Delta
  /\ Threshold = Delta + Window + Low
  /\ Threshold + MaxBlk <= Cap
BY SizeAssumption DEF Threshold

\* A position with three bytes has one of the hashes.
LEMMA HashOf ==
  ASSUME input \in Seq(Byte), NEW q \in Nat, Hashable(q)
  PROVE  HashAt(q) \in Hashes
<1>1. {q + 1, q + 2, q + 3} \subseteq 1..Len(input)
  BY DEF Hashable
<1>2. /\ input[q + 1] \in Byte
      /\ input[q + 2] \in Byte
      /\ input[q + 3] \in Byte
  BY <1>1
<1> QED
  BY <1>2, HashAssumption DEF HashAt

\* The index of a position the arrays hold is one of theirs.
LEMMA IndexOf ==
  ASSUME TypeOK, Room, InsertedInv, NEW q \in inserted, Live(q)
  PROVE  /\ q \in Nat
         /\ q - totalShift \in Indexes
         /\ q - totalShift < Threshold + MaxBlk
<1>1. q < Limit
  BY DEF InsertedInv
<1>2. Limit - totalShift <= Threshold + MaxBlk
  BY Sizes DEF Limit, Room, TypeOK, Entered
<1> QED
  BY <1>1, <1>2, Sizes DEF TypeOK, Live, Indexes, Limit

-----------------------------------------------------------------------------
LEMMA InitIInv == Init => IInv
<1> SUFFICES ASSUME Init PROVE IInv
  OBVIOUS
<1> USE DEF Init, HashInit
<1>1. TypeOK
  BY Sizes, SMTT(30) DEF TypeOK, Indexes
<1>2. Room /\ WindowHeld
  BY Sizes DEF Room, WindowHeld, Entered
<1>3. InsertedInv /\ PrevInv /\ DepthInv
  BY DEF InsertedInv, PrevInv, DepthInv
<1>4. HeadInv
  BY Sizes DEF HeadInv, Link, SameHash
<1> QED
  BY <1>1, <1>2, <1>3, <1>4 DEF IInv

(***************************************************************************)
(* Calls and blocks leave the positions, links and depths alone.           *)
(***************************************************************************)
Frame == UNCHANGED <<input, head, prev, totalShift, inserted>>

LEMMA SameSets ==
  ASSUME UNCHANGED <<input, inserted>>
  PROVE  /\ \A h \in Hashes : SameHash(h)' = SameHash(h)
         /\ \A q \in inserted : Before(q)' = Before(q)
         /\ \A q \in inserted : Hashable(q)' <=> Hashable(q)
BY DEF SameHash, Before, HashAt, Hashable

LEMMA FrameLinks ==
  ASSUME Frame, HeadInv, PrevInv
  PROVE  HeadInv' /\ PrevInv'
<1>1. HeadInv'
  BY SameSets DEF Frame, HeadInv
<1>2. PrevInv'
  BY SameSets DEF Frame, PrevInv, Live
<1> QED
  BY <1>1, <1>2

LEMMA CallIInv ==
  ASSUME IInv, NEW l \in Nat \ {0}, UpdateHash(l) \/ SkipHash(l)
  PROVE  IInv'
<1> USE DEF UpdateHash, SkipHash, IInv, Idle
<1>1. TypeOK'
  BY DEF TypeOK
<1>2. Room' /\ WindowHeld'
  BY DEF Room, WindowHeld, Entered, TypeOK
<1>3. InsertedInv'
  BY DEF InsertedInv, Limit, Hashable
<1>4. HeadInv' /\ PrevInv'
  BY FrameLinks DEF Frame
<1>5. DepthInv'
  BY DEF DepthInv, Live
<1> QED
  BY <1>1, <1>2, <1>3, <1>4, <1>5

(***************************************************************************)
(* A reshift: what is below Low afterwards was below Low + Delta, which is *)
(* out of the window when the position has reached the threshold.          *)
(***************************************************************************)
LEMMA LoweredLink ==
  ASSUME NEW n \in Indexes, NEW set \in SUBSET Nat, NEW shift \in Int,
         -Low <= shift, Link(n, set, shift)
  PROVE  /\ Lowered(n) \in Indexes
         /\ Low <= Lowered(n) => n = Lowered(n) + Delta
         /\ Link(Lowered(n), set, shift + Delta)
<1> DEFINE m == Lowered(n)
<1>0. m = IF n >= Delta THEN n - Delta ELSE 0
  BY Sizes DEF Lowered, MaxOf, Indexes
<1>1. m \in Indexes /\ (Low <= m => n = m + Delta)
  BY <1>0, Sizes DEF Indexes
<1>2. shift + Delta # -Low
  BY Sizes
<1>3. ASSUME Low <= m PROVE Link(m, set, shift + Delta)
  <2>1. n = m + Delta /\ Low <= n
    BY <1>1, <1>3, Sizes DEF Indexes
  <2>2. n + shift \in set /\ \A r \in set : r <= n + shift
    BY <2>1, Sizes DEF Link, Indexes
  <2>3. m + (shift + Delta) = n + shift
    BY <2>1, <1>1, Sizes DEF Indexes
  <2> HIDE DEF m
  <2> QED
    BY <2>2, <2>3, <1>1, <1>3, Sizes DEF Link, Indexes
<1>4. ASSUME m < Low PROVE Link(m, set, shift + Delta)
  <2>1. n < Low + Delta
    BY <1>0, <1>4, Sizes DEF Indexes
  <2>2. \A r \in set : r - (shift + Delta) < Low
    BY <2>1, Sizes DEF Link, Indexes
  <2> HIDE DEF m
  <2> QED
    BY <2>2, <1>1, <1>2, <1>4, Sizes DEF Link, Indexes
<1>5. Low <= m \/ m < Low
  BY <1>1, Sizes DEF Indexes
<1> HIDE DEF m
<1> QED
  BY <1>1, <1>3, <1>4, <1>5 DEF m

\* What a reshift does to the entry of a position the arrays still hold.
LEMMA ReshiftAt ==
  ASSUME IInv, Reshift, NEW q \in inserted, Low <= q - (totalShift + Delta)
  PROVE  LET p == q - (totalShift + Delta)
         IN /\ p \in Indexes /\ p + Delta \in Indexes
            /\ p + Delta = q - totalShift
            /\ Live(q)
            /\ prev'[p] = Lowered(prev[p + Delta])
            /\ chainDepth'[p] = chainDepth[p + Delta]
<1> DEFINE p == q - (totalShift + Delta)
<1>1. p + Delta = q - totalShift /\ Low <= p + Delta /\ p \in Int /\ q \in Nat
  BY Sizes DEF IInv, TypeOK
<1>2. Live(q)
  BY <1>1 DEF Live
<1>3. p + Delta \in Indexes
  BY <1>1, <1>2, IndexOf DEF IInv
<1>4. p \in Indexes /\ p + Delta < Cap
  BY <1>1, <1>3, Sizes DEF Indexes
<1>5. prev'[p] = Lowered(prev[p + Delta]) /\ chainDepth'[p] = chainDepth[p + Delta]
  BY <1>1, <1>4 DEF Reshift
<1> QED
  BY <1>1, <1>2, <1>3, <1>4, <1>5

LEMMA ReshiftTypes ==
  ASSUME IInv, Reshift
  PROVE  /\ head' \in [Hashes -> Indexes]
         /\ prev' \in [Indexes -> Indexes]
         /\ chainDepth' \in [Indexes -> Int]
         /\ totalShift' \in Int
<1>1. \A n \in Indexes : Lowered(n) \in Indexes
  BY Sizes DEF Lowered, MaxOf, Indexes
<1>2. \A p \in Indexes : p >= Low /\ p + Delta < Cap => p + Delta \in Indexes
  BY Sizes DEF Indexes
<1>3. head' \in [Hashes -> Indexes]
  BY <1>1 DEF Reshift, IInv, TypeOK
<1>4. prev' \in [Indexes -> Indexes]
  BY <1>1, <1>2 DEF Reshift, IInv, TypeOK
<1>5. chainDepth' \in [Indexes -> Int]
  BY <1>2 DEF Reshift, IInv, TypeOK
<1> QED
  BY <1>3, <1>4, <1>5, Sizes DEF Reshift, IInv, TypeOK

LEMMA ReshiftLinks ==
  ASSUME IInv, Reshift, UNCHANGED <<input, inserted>>
  PROVE  HeadInv' /\ PrevInv' /\ DepthInv'
<1>1. totalShift' = totalShift + Delta /\ -Low <= totalShift /\ totalShift \in Int
  BY DEF Reshift, IInv, Room, TypeOK
<1>2. HeadInv'
  <2> SUFFICES ASSUME NEW h \in Hashes
               PROVE  Link(head'[h], SameHash(h)', totalShift')
    BY DEF HeadInv
  <2>1. head[h] \in Indexes /\ SameHash(h) \in SUBSET Nat
    BY DEF IInv, TypeOK, SameHash
  <2>2. Link(head[h], SameHash(h), totalShift)
    BY DEF IInv, HeadInv
  <2>3. Link(Lowered(head[h]), SameHash(h), totalShift + Delta)
    BY <2>1, <2>2, <1>1, LoweredLink
  <2>4. head'[h] = Lowered(head[h]) /\ SameHash(h)' = SameHash(h)
    BY SameSets DEF Reshift
  <2> QED
    BY <2>3, <2>4, <1>1
<1>3. ASSUME NEW q \in inserted, Live(q)'
      PROVE  LET p == q - totalShift'
             IN /\ p \in Indexes /\ p + Delta \in Indexes /\ p + Delta = q - totalShift
                /\ Live(q) /\ prev'[p] = Lowered(prev[p + Delta])
                /\ chainDepth'[p] = chainDepth[p + Delta]
                /\ prev[p + Delta] \in Indexes
                /\ Link(prev[p + Delta], Before(q), totalShift)
  <2> DEFINE p == q - totalShift'
  <2>1. /\ p \in Indexes /\ p + Delta \in Indexes /\ p + Delta = q - totalShift
        /\ Live(q) /\ prev'[p] = Lowered(prev[p + Delta])
        /\ chainDepth'[p] = chainDepth[p + Delta]
    BY <1>1, <1>3, ReshiftAt DEF Live
  <2>2. prev[p + Delta] \in Indexes
    BY <2>1 DEF IInv, TypeOK
  <2>3. Link(prev[p + Delta], Before(q), totalShift)
    BY <2>1 DEF IInv, PrevInv
  <2> QED
    BY <2>1, <2>2, <2>3
<1>4. PrevInv'
  <2> SUFFICES ASSUME NEW q \in inserted, Live(q)'
               PROVE  Link(prev'[q - totalShift'], Before(q)', totalShift')
    BY DEF PrevInv
  <2> DEFINE n == prev[q - totalShift' + Delta]
  <2>1. n \in Indexes /\ Link(n, Before(q), totalShift) /\ prev'[q - totalShift'] = Lowered(n)
    BY <1>3
  <2>2. Before(q) \in SUBSET Nat /\ Before(q)' = Before(q)
    BY SameSets DEF IInv, TypeOK, Before
  <2> HIDE DEF n
  <2>3. Link(Lowered(n), Before(q), totalShift + Delta)
    BY <2>1, <2>2, <1>1, LoweredLink
  <2> QED
    BY <2>1, <2>2, <2>3, <1>1
<1>5. DepthInv'
  <2> SUFFICES ASSUME NEW q \in inserted, Live(q)', Low <= prev'[q - totalShift']
               PROVE  chainDepth'[q - totalShift'] = chainDepth'[prev'[q - totalShift']] + 1
    BY DEF DepthInv
  <2> DEFINE p == q - totalShift'
             m == Lowered(prev[p + Delta])
  <2>1. /\ p + Delta = q - totalShift /\ Live(q) /\ prev'[p] = m
        /\ chainDepth'[p] = chainDepth[p + Delta]
        /\ prev[p + Delta] \in Indexes
    BY <1>3
  <2>2. prev[p + Delta] = m + Delta /\ m \in Indexes /\ Low <= m
    <3>1. Before(q) \in SUBSET Nat /\ Link(prev[p + Delta], Before(q), totalShift)
      BY <1>3 DEF IInv, TypeOK, Before
    <3> QED
      BY <2>1, <3>1, <1>1, LoweredLink
  <2>3. chainDepth[p + Delta] = chainDepth[prev[p + Delta]] + 1
    BY <2>1, <2>2, Sizes DEF IInv, DepthInv, Indexes
  <2>4. chainDepth'[m] = chainDepth[m + Delta]
    BY <2>1, <2>2, Sizes DEF Reshift, Indexes
  <2> QED
    BY <2>1, <2>2, <2>3, <2>4
<1> QED
  BY <1>2, <1>4, <1>5

LEMMA StartBlockIInv == IInv /\ StartBlock => IInv'
<1> SUFFICES ASSUME IInv, StartBlock PROVE IInv'
  OBVIOUS
<1> DEFINE due == pos - totalShift >= Threshold
<1>1. /\ todo \in Nat /\ todo > 0 /\ blk = 0 /\ cur' = pos
      /\ blk' \in Nat /\ blk' > 0 /\ blk' <= MaxBlk
      /\ todo' \in Nat /\ todo = blk' + todo'
  BY Sizes DEF IInv, TypeOK, StartBlock, MinOf
<1>2. UNCHANGED <<input, pos, skipping, inserted>>
  BY DEF StartBlock
<1>3. \/ due /\ Reshift
      \/ ~due /\ UNCHANGED <<head, prev, chainDepth, totalShift>>
  BY DEF StartBlock
<1>4. TypeOK'
  <2>1. /\ head' \in [Hashes -> Indexes] /\ prev' \in [Indexes -> Indexes]
        /\ chainDepth' \in [Indexes -> Int] /\ totalShift' \in Int
    BY <1>3, ReshiftTypes DEF IInv, TypeOK
  <2> QED
    BY <2>1, <1>1, <1>2 DEF IInv, TypeOK
<1>5. Room' /\ WindowHeld'
  <2>1. /\ pos - totalShift' < Threshold /\ Low <= pos - totalShift' /\ -Low <= totalShift'
        /\ totalShift' = -Low \/ totalShift' + Low + Window <= pos
    <3>1. CASE due /\ Reshift
      <4>1. totalShift' = totalShift + Delta
        BY <3>1 DEF Reshift
      <4> QED
        BY <4>1, <3>1, <1>1, Sizes DEF IInv, TypeOK, Room
    <3>2. CASE ~due /\ totalShift' = totalShift
      BY <3>2, Sizes DEF IInv, TypeOK, Room, WindowHeld
    <3> QED
      BY <3>1, <3>2, <1>3
  <2>2. pos + blk' + todo' <= Len(input)
    <3>1. pos + todo <= Len(input) /\ pos \in Nat /\ Len(input) \in Nat
      BY <1>1 DEF IInv, TypeOK, Room
    <3> QED
      BY <1>1, <3>1
  <2>3. cur' <= pos + Entered'
    <3>1. Entered' = 1 \/ Entered' = blk'
      BY DEF Entered
    <3>2. pos \in Nat
      BY DEF IInv, TypeOK
    <3> QED
      BY <3>1, <3>2, <1>1
  <2> QED
    BY <2>1, <2>2, <2>3, <1>1, <1>2, Sizes DEF IInv, TypeOK, Room, WindowHeld
<1>6. InsertedInv'
  BY <1>1, <1>2, SameSets DEF IInv, InsertedInv, Limit
<1>7. HeadInv' /\ PrevInv' /\ DepthInv'
  <2>1. CASE Reshift
    BY <2>1, <1>2, ReshiftLinks
  <2>2. CASE UNCHANGED <<head, prev, chainDepth, totalShift>>
    <3>1. HeadInv' /\ PrevInv'
      BY <2>2, <1>2, FrameLinks DEF Frame, IInv
    <3>2. DepthInv'
      BY <2>2, <1>2 DEF IInv, DepthInv, Live
    <3> QED
      BY <3>1, <3>2
  <2> QED
    BY <2>1, <2>2, <1>3
<1> QED
  BY <1>4, <1>5, <1>6, <1>7 DEF IInv

(***************************************************************************)
(* A position that is entered becomes the head of its hash, and its link   *)
(* goes to the head before it: it is later than all of inserted.           *)
(***************************************************************************)
LEMMA InsertIInv == IInv /\ Insert => IInv'
<1> SUFFICES ASSUME IInv, Insert PROVE IInv'
  OBVIOUS
<1> DEFINE h == HashAt(cur)
           p == cur - totalShift
<1>1. /\ blk \in Nat /\ blk > 0 /\ cur \in Nat /\ pos \in Nat /\ totalShift \in Int
      /\ pos <= cur /\ cur < pos + Entered /\ cur < pos + blk /\ pos - totalShift < Threshold
      /\ Hashable(cur) /\ cur' = cur + 1
      /\ inserted' = inserted \cup {cur}
      /\ UNCHANGED <<input, pos, totalShift, todo, blk, skipping>>
  BY DEF IInv, TypeOK, Room, Insert, Entered
<1>2. h \in Hashes
  BY <1>1, HashOf DEF IInv, TypeOK
<1>3. p \in Indexes /\ Low <= p
  BY <1>1, Sizes DEF IInv, Room, Indexes
<1>4. \A r \in inserted : r \in Nat /\ r < cur
  BY <1>1 DEF IInv, TypeOK, InsertedInv, Limit
<1>5. /\ head' = [head EXCEPT ![h] = p]
      /\ prev' = [prev EXCEPT ![p] = head[h]]
      /\ chainDepth' = [chainDepth EXCEPT ![p] = chainDepth[head[h]] + 1]
  BY DEF Insert
<1>6. \A q : HashAt(q)' = HashAt(q) /\ (Hashable(q)' <=> Hashable(q))
  BY <1>1 DEF HashAt, Hashable
<1>7. head[h] \in Indexes /\ chainDepth[head[h]] \in Int
  BY <1>2 DEF IInv, TypeOK
<1> HIDE DEF h, p
<1>8. TypeOK'
  BY <1>1, <1>2, <1>3, <1>5, <1>7 DEF IInv, TypeOK
<1>9. Room' /\ WindowHeld'
  <2>1. cur' <= pos + Entered /\ (Entered = 1 \/ Entered = blk)
    BY <1>1 DEF Entered
  <2>2. Entered' = Entered
    BY <1>1 DEF Entered
  <2> QED
    BY <2>1, <2>2, <1>1 DEF IInv, Room, WindowHeld
<1>10. InsertedInv'
  BY <1>1, <1>4, <1>6 DEF IInv, InsertedInv, Limit
<1>11. \A q \in inserted : Live(q) =>
         /\ q - totalShift \in Indexes /\ q - totalShift # p
         /\ prev'[q - totalShift] = prev[q - totalShift]
         /\ chainDepth'[q - totalShift] = chainDepth[q - totalShift]
  <2> SUFFICES ASSUME NEW q \in inserted, Live(q)
               PROVE  /\ q - totalShift \in Indexes /\ q - totalShift # p
                      /\ prev'[q - totalShift] = prev[q - totalShift]
                      /\ chainDepth'[q - totalShift] = chainDepth[q - totalShift]
    OBVIOUS
  <2>1. q - totalShift \in Indexes
    BY IndexOf DEF IInv
  <2>2. q - totalShift # p
    BY <1>1, <1>4 DEF p
  <2> QED
    BY <2>1, <2>2, <1>5 DEF IInv, TypeOK
<1>12. prev'[p] = head[h] /\ chainDepth'[p] = chainDepth[head[h]] + 1
  BY <1>3, <1>5 DEF IInv, TypeOK
<1>13. HeadInv'
  <2> SUFFICES ASSUME NEW g \in Hashes
               PROVE  Link(head'[g], SameHash(g)', totalShift)
    BY <1>1 DEF HeadInv
  <2>1. SameHash(g)' = {r \in inserted \cup {cur} : HashAt(r) = g}
    BY <1>1, <1>6 DEF SameHash
  <2>2. CASE g = h
    <3>1. cur \in SameHash(g)' /\ \A r \in SameHash(g)' : r <= cur
      BY <2>1, <2>2, <1>1, <1>4 DEF h
    <3>2. head'[g] = p /\ p + totalShift = cur
      BY <2>2, <1>1, <1>2, <1>5 DEF IInv, TypeOK, p
    <3> QED
      BY <3>1, <3>2, <1>3 DEF Link
  <2>3. CASE g # h
    <3>1. SameHash(g)' = SameHash(g)
      BY <2>1, <2>3 DEF SameHash, h
    <3>2. head'[g] = head[g]
      BY <2>3, <1>5 DEF IInv, TypeOK
    <3> QED
      BY <3>1, <3>2 DEF IInv, HeadInv
  <2> QED
    BY <2>2, <2>3
<1>14. PrevInv'
  <2> SUFFICES ASSUME NEW q \in inserted', Live(q)'
               PROVE  Link(prev'[q - totalShift], Before(q)', totalShift)
    BY <1>1 DEF PrevInv
  <2>1. Before(q)' = {r \in inserted \cup {cur} : r < q /\ HashAt(r) = HashAt(q)}
    BY <1>1, <1>6 DEF Before
  <2>2. CASE q = cur
    <3>1. Before(q)' = SameHash(h)
      BY <2>1, <2>2, <1>1, <1>4 DEF SameHash, h
    <3>2. prev'[q - totalShift] = head[h]
      BY <2>2, <1>12 DEF p
    <3> QED
      BY <3>1, <3>2, <1>2 DEF IInv, HeadInv
  <2>3. CASE q \in inserted
    <3>1. Before(q)' = Before(q)
      BY <2>1, <2>3, <1>1, <1>4 DEF Before
    <3>2. Live(q)
      BY <1>1 DEF Live
    <3> QED
      BY <3>1, <3>2, <2>3, <1>11 DEF IInv, PrevInv
  <2> QED
    BY <2>2, <2>3, <1>1
<1>15. DepthInv'
  <2> SUFFICES ASSUME NEW q \in inserted', Live(q)', Low <= prev'[q - totalShift]
               PROVE  chainDepth'[q - totalShift] = chainDepth'[prev'[q - totalShift]] + 1
    BY <1>1 DEF DepthInv
  <2>1. CASE q = cur
    <3>1. q - totalShift = p
      BY <2>1 DEF p
    <3>2. head[h] + totalShift \in inserted
      BY <2>1, <3>1, <1>2, <1>7, <1>12, Sizes DEF IInv, HeadInv, Link, SameHash, Indexes
    <3>3. head[h] # p
      BY <3>2, <1>1, <1>4 DEF p
    <3>4. chainDepth'[head[h]] = chainDepth[head[h]]
      BY <3>3, <1>5, <1>7 DEF IInv, TypeOK
    <3> QED
      BY <3>1, <3>4, <1>12
  <2>2. CASE q \in inserted
    <3> DEFINE n == prev[q - totalShift]
    <3>1. Live(q)
      BY <1>1 DEF Live
    <3>2. n \in Indexes /\ prev'[q - totalShift] = n /\ chainDepth'[q - totalShift] = chainDepth[q - totalShift]
      BY <3>1, <2>2, <1>11 DEF IInv, TypeOK
    <3>3. Link(n, Before(q), totalShift) /\ Low <= n
      BY <3>1, <3>2, <2>2 DEF IInv, PrevInv
    <3>4. chainDepth[q - totalShift] = chainDepth[n] + 1
      BY <3>1, <3>3, <2>2 DEF IInv, DepthInv
    <3> HIDE DEF n
    <3>5. n + totalShift \in inserted
      BY <3>2, <3>3, Sizes DEF Link, Before, Indexes
    <3>6. n # p
      BY <3>5, <1>1, <1>4 DEF p
    <3>7. chainDepth'[n] = chainDepth[n]
      BY <3>2, <3>6, <1>5 DEF IInv, TypeOK
    <3> QED
      BY <3>2, <3>4, <3>7
  <2> QED
    BY <2>1, <2>2, <1>1
<1> QED
  BY <1>8, <1>9, <1>10, <1>13, <1>14, <1>15 DEF IInv

(***************************************************************************)
(* The end of a block moves the position; what it does to depths concerns  *)
(* positions behind the only one that a skip has entered.                  *)
(***************************************************************************)
LEMMA EndBlockIInv == IInv /\ EndBlock => IInv'
<1> SUFFICES ASSUME IInv, EndBlock PROVE IInv'
  OBVIOUS
<1>1. /\ blk \in Nat /\ blk > 0 /\ cur \in Nat /\ pos \in Nat /\ totalShift \in Int
      /\ blk <= MaxBlk /\ pos - totalShift < Threshold /\ pos <= cur
      /\ pos' = pos + blk /\ blk' = 0
      /\ UNCHANGED <<input, head, prev, totalShift, todo, cur, skipping, inserted>>
  BY DEF IInv, TypeOK, Room, EndBlock
<1>2. cur <= pos + blk /\ (skipping => cur <= pos + 1)
  <2>1. cur <= pos + Entered /\ (Entered = 1 \/ Entered = blk) /\ (skipping => Entered = 1)
    BY <1>1 DEF IInv, Room, Entered
  <2> QED
    BY <2>1, <1>1
<1>3. \A r \in inserted : r \in Nat /\ r < cur
  BY <1>1 DEF IInv, TypeOK, InsertedInv, Limit
<1>4. TypeOK'
  BY <1>1, Sizes DEF IInv, TypeOK, EndBlock, SkippedDepth
<1>5. Room' /\ WindowHeld'
  BY <1>1, Sizes DEF IInv, TypeOK, Room, WindowHeld
<1>6. InsertedInv'
  BY <1>1, <1>2, <1>3, SameSets DEF IInv, InsertedInv, Limit
<1>7. HeadInv' /\ PrevInv'
  BY <1>1, FrameLinks DEF Frame, IInv
<1>8. \A r \in inserted : r - totalShift \in Indexes =>
        chainDepth'[r - totalShift] = chainDepth[r - totalShift]
  <2> SUFFICES ASSUME NEW r \in inserted, r - totalShift \in Indexes
               PROVE  chainDepth'[r - totalShift] = chainDepth[r - totalShift]
    OBVIOUS
  <2>1. skipping => ~(r - totalShift > pos - totalShift)
    BY <1>1, <1>2, <1>3
  <2> QED
    BY <2>1 DEF EndBlock
<1>9. DepthInv'
  <2> SUFFICES ASSUME NEW q \in inserted, Live(q), Low <= prev[q - totalShift]
               PROVE  chainDepth'[q - totalShift] = chainDepth'[prev[q - totalShift]] + 1
    BY <1>1 DEF DepthInv, Live
  <2> DEFINE n == prev[q - totalShift]
  <2>1. q - totalShift \in Indexes
    BY IndexOf DEF IInv
  <2>2. n \in Indexes /\ Link(n, Before(q), totalShift)
    BY <2>1 DEF IInv, TypeOK, PrevInv
  <2>3. chainDepth[q - totalShift] = chainDepth[n] + 1
    BY DEF IInv, DepthInv
  <2>4. Low <= n
    OBVIOUS
  <2> HIDE DEF n
  <2>5. n + totalShift \in inserted
    BY <2>2, <2>4, Sizes DEF Link, Before, Indexes
  <2>6. (n + totalShift) - totalShift = n
    BY <2>2, <1>1 DEF Indexes
  <2>7. chainDepth'[n] = chainDepth[n]
    BY <2>2, <2>5, <2>6, <1>8
  <2> QED
    BY <2>1, <2>3, <2>7, <1>8 DEF n
<1> QED
  BY <1>4, <1>5, <1>6, <1>7, <1>9 DEF IInv

-----------------------------------------------------------------------------
LEMMA NextIInv == IInv /\ [Next]_vars => IInv'
<1> SUFFICES ASSUME IInv, [Next]_vars PROVE IInv'
  OBVIOUS
<1>1. ASSUME NEW l \in Calls, UpdateHash(l) PROVE IInv'
  BY <1>1, CallIInv, SizeAssumption
<1>2. ASSUME NEW l \in Skips, SkipHash(l) PROVE IInv'
  <2>1. l \in Nat \ {0}
    BY SizeAssumption, Sizes
  <2> QED
    BY <2>1, <1>2, CallIInv
<1>3. CASE StartBlock
  BY <1>3, StartBlockIInv
<1>4. CASE Insert
  BY <1>4, InsertIInv
<1>5. CASE EndBlock
  BY <1>5, EndBlockIInv
<1>6. CASE UNCHANGED vars
  <2> USE <1>6 DEF vars, hashVars, IInv
  <2>1. TypeOK' /\ Room' /\ WindowHeld'
    BY DEF TypeOK, Room, WindowHeld, Entered
  <2>2. InsertedInv' /\ DepthInv'
    BY DEF InsertedInv, DepthInv, Limit, Hashable, Live
  <2>3. HeadInv' /\ PrevInv'
    BY FrameLinks DEF Frame
  <2> QED
    BY <2>1, <2>2, <2>3
<1> QED
  BY <1>1, <1>2, <1>3, <1>4, <1>5, <1>6 DEF Next, HashStep

(***************************************************************************)
(* The chains are right in every reachable state.                          *)
(***************************************************************************)
THEOREM Inductive == Spec => []IInv
BY InitIInv, NextIInv, PTL DEF Spec

\* A link that an iterator follows, or the end it sees, is what Link says.
LEMMA LinkNearest ==
  ASSUME IInv, NEW n \in Indexes, NEW set \in SUBSET Nat, Link(n, set, totalShift)
  PROVE  /\ Nearest(n, set)
         /\ ~Ends(n) => Low <= n
<1>1. pos \in Nat /\ totalShift \in Int /\ n \in Nat
  BY Sizes DEF IInv, TypeOK, Indexes
<1>2. totalShift = -Low \/ totalShift + Low + Window <= pos
  BY DEF IInv, WindowHeld
<1>3. CASE Low <= n
  BY <1>1, <1>3, Sizes DEF Link, Nearest, Ends
<1>4. CASE n < Low
  <2>1. \A r \in set : pos - r > Window
    <3> SUFFICES ASSUME NEW r \in set PROVE pos - r > Window
      OBVIOUS
    <3>1. r \in Nat /\ r - totalShift < Low
      BY <1>1, <1>4, Sizes DEF Link
    <3> QED
      BY <3>1, <1>1, <1>2, Sizes
  <2>2. Ends(n)
    BY <1>1, <1>2, <1>4, Sizes DEF Link, Ends
  <2> QED
    BY <2>1, <2>2 DEF Nearest
<1> QED
  BY <1>1, <1>3, <1>4, Sizes

\* A position of the window is held by the arrays.
LEMMA WindowLive ==
  ASSUME IInv, NEW q \in inserted, pos - q <= Window
  PROVE  Live(q)
BY Sizes DEF IInv, TypeOK, WindowHeld, Live

(***************************************************************************)
(* updateHash, skipHash and reshift keep the links: between calls, the     *)
(* links of the window and the heads lead to the latest earlier position   *)
(* with the same hash, for any input and any sizes of the arrays.          *)
(***************************************************************************)
THEOREM LinksAreRight == Spec => []LinksRight
<1>1. IInv => LinksRight
  <2> SUFFICES ASSUME IInv PROVE LinksRight
    OBVIOUS
  <2>1. ASSUME NEW h \in Hashes
        PROVE  Nearest(head[h], {r \in inserted : HashAt(r) = h})
    <3>1. head[h] \in Indexes /\ SameHash(h) \in SUBSET Nat
      BY DEF IInv, TypeOK, SameHash
    <3>2. Link(head[h], SameHash(h), totalShift)
      BY DEF IInv, HeadInv
    <3> QED
      BY <3>1, <3>2, LinkNearest DEF SameHash
  <2>2. ASSUME NEW q \in inserted, pos - q <= Window
        PROVE  Nearest(prev[q - totalShift], {r \in inserted : r < q /\ HashAt(r) = HashAt(q)})
    <3>1. Live(q)
      BY <2>2, WindowLive
    <3>2. prev[q - totalShift] \in Indexes /\ Before(q) \in SUBSET Nat
      BY <3>1, IndexOf DEF IInv, TypeOK, Before
    <3>3. Link(prev[q - totalShift], Before(q), totalShift)
      BY <3>1 DEF IInv, PrevInv
    <3> QED
      BY <3>2, <3>3, LinkNearest DEF Before
  <2> QED
    BY <2>1, <2>2 DEF LinksRight
<1> QED
  BY <1>1, Inductive, PTL

(***************************************************************************)
(* The difference of two depths counts links: along a chain within the     *)
(* window the depth goes down by one at each of them.                      *)
(***************************************************************************)
THEOREM DepthsAreRight == Spec => []DepthsRight
<1>1. IInv => DepthsRight
  <2> SUFFICES ASSUME IInv, NEW q \in inserted, pos - q <= Window, ~Ends(prev[q - totalShift])
               PROVE  chainDepth[q - totalShift] = chainDepth[prev[q - totalShift]] + 1
    BY DEF DepthsRight
  <2>1. Live(q)
    BY WindowLive
  <2>2. prev[q - totalShift] \in Indexes /\ Before(q) \in SUBSET Nat
    BY <2>1, IndexOf DEF IInv, TypeOK, Before
  <2>3. Link(prev[q - totalShift], Before(q), totalShift)
    BY <2>1 DEF IInv, PrevInv
  <2>4. Low <= prev[q - totalShift]
    BY <2>2, <2>3, LinkNearest
  <2> QED
    BY <2>1, <2>4 DEF IInv, DepthInv
<1> QED
  BY <1>1, Inductive, PTL
-----------------------------------------------------------------------------
\* The indexes an iterator comes to from a node.
Chain(node) ==
  LET at[i \in 0..Cap] ==
        IF i = 0 THEN node ELSE prev[at[i - 1]]
  IN at

\* The recursion of Chain, and so of Walk, has a solution.
LEMMA ChainOf ==
  ASSUME TypeOK, NEW node \in Indexes
  PROVE  /\ Chain(node) \in [0..Cap -> Indexes]
         /\ Chain(node)[0] = node
         /\ \A i \in 1..Cap : Chain(node)[i] = prev[Chain(node)[i - 1]]
<1>0. prev \in [Indexes -> Indexes] /\ Cap \in Nat
  BY Sizes DEF TypeOK
<1> DEFINE Upto(n) ==
             {g \in [0..n -> Indexes] :
                g[0] = node /\ \A i \in 1..n : g[i] = prev[g[i - 1]]}
           None == {n \in Nat : Upto(n) = {}}
<1>1. None = {}
  <2> SUFFICES ASSUME None # {} PROVE FALSE
    OBVIOUS
  <2>1. PICK n \in None : \A m \in None : n <= m
    BY LeastNumber
  <2>2. n # 0
    <3>1. [i \in 0..0 |-> node] \in Upto(0)
      OBVIOUS
    <3> QED
      BY <3>1, <2>1
  <2>3. n - 1 \in Nat /\ ~(n - 1 \in None)
    <3>1. n \in Nat /\ n - 1 \in Nat /\ ~(n <= n - 1)
      BY <2>1, <2>2
    <3> HIDE DEF None
    <3> QED
      BY <3>1, <2>1
  <2>4. PICK g : g \in Upto(n - 1)
    BY <2>3
  <2> DEFINE h == [i \in 0..n |-> IF i = n THEN prev[g[n - 1]] ELSE g[i]]
  <2>5. h \in Upto(n)
    <3>1. h \in [0..n -> Indexes]
      BY <1>0, <2>3, <2>4
    <3>2. h[0] = node
      BY <2>2, <2>3, <2>4
    <3>3. ASSUME NEW i \in 1..n PROVE h[i] = prev[h[i - 1]]
      BY <3>3, <2>3, <2>4
    <3> QED
      BY <3>1, <3>2, <3>3
  <2> QED
    BY <2>5, <2>1
<1>2. PICK g : g \in Upto(Cap)
  BY <1>0, <1>1
<1>3. g = [i \in 0..Cap |-> IF i = 0 THEN node ELSE prev[g[i - 1]]]
  BY <1>0, <1>2
<1> DEFINE c == Chain(node)
<1>4. c = [i \in 0..Cap |-> IF i = 0 THEN node ELSE prev[c[i - 1]]]
  BY <1>3 DEF Chain
<1>5. /\ c[0] = node
      /\ \A i \in 1..Cap : c[i] = prev[c[i - 1]]
  <2> HIDE DEF c
  <2> QED
    BY <1>0, <1>4
<1> DEFINE Stray == {n \in Nat : n <= Cap /\ c[n] \notin Indexes}
<1>6. Stray = {}
  <2> SUFFICES ASSUME Stray # {} PROVE FALSE
    OBVIOUS
  <2>0. Stray \subseteq Nat
    OBVIOUS
  <2> HIDE DEF c
  <2>1. PICK n \in Stray : \A m \in Stray : n <= m
    BY <2>0, LeastNumber
  <2>2. n # 0
    BY <1>5, <2>1
  <2>3. n \in 1..Cap /\ n - 1 \in Nat /\ c[n - 1] \in Indexes
    BY <1>0, <2>1, <2>2
  <2> QED
    BY <1>0, <1>5, <2>1, <2>3
<1>7. c \in [0..Cap -> Indexes]
  <2>1. \A i \in 0..Cap : c[i] \in Indexes
    BY <1>0, <1>6
  <2> HIDE DEF c
  <2> QED
    BY <2>1, <1>4
<1> HIDE DEF c
<1> QED
  BY <1>5, <1>7 DEF c

-----------------------------------------------------------------------------
(***************************************************************************)
(* The walk of an iterator passes exactly the positions of its hash that   *)
(* are in the window.                                                      *)
(***************************************************************************)
Distance == MinOf(pos, Window)

\* An index at which the walk goes on.
InReach(n) == pos - totalShift - n <= Distance

InWindow(set) == {q \in set : pos - q <= Window}

\* The positions a link from the i-th index of the walk may lead to.
Ahead(h, c, i) == IF i = 0 THEN SameHash(h) ELSE Before(c[i - 1] + totalShift)

\* A link in reach leads to a position; one that is not leaves none behind.
LEMMA LinkInReach ==
  ASSUME IInv, NEW n \in Indexes, NEW set \in SUBSET Nat, Link(n, set, totalShift)
  PROVE  /\ InReach(n) => /\ Low <= n
                          /\ n # 0
                          /\ n + totalShift \in set
                          /\ \A r \in set : r <= n + totalShift
         /\ ~InReach(n) => \A r \in set : pos - r > Window
<1>1. /\ pos \in Nat /\ totalShift \in Int /\ n \in Nat
      /\ -Low <= totalShift
      /\ totalShift = -Low \/ totalShift + Low + Window <= pos
  BY Sizes DEF IInv, TypeOK, Indexes, Room, WindowHeld
<1>2. Distance = IF pos < Window THEN pos ELSE Window
  BY DEF Distance, MinOf
<1>3. CASE Low <= n
  <2>1. n # 0 /\ n + totalShift \in set /\ \A r \in set : r <= n + totalShift
    BY <1>1, <1>3, Sizes DEF Link
  <2>2. ASSUME ~InReach(n), NEW r \in set PROVE pos - r > Window
    <3>1. r \in Nat /\ r <= n + totalShift /\ pos - (n + totalShift) > Distance
      BY <1>1, <1>2, <2>1, <2>2, Sizes DEF InReach
    <3> QED
      BY <3>1, <1>1, <1>2, <2>1, Sizes
  <2> QED
    BY <2>1, <2>2, <1>3
<1>4. CASE n < Low
  <2>1. \A r \in set : r \in Nat /\ r - totalShift < Low
    BY <1>1, <1>4, Sizes DEF Link
  <2>2. ~InReach(n)
    BY <1>1, <1>2, <1>4, Sizes DEF InReach
  <2>3. \A r \in set : pos - r > Window
    BY <1>1, <2>1, Sizes
  <2> QED
    BY <2>2, <2>3
<1> QED
  BY <1>1, <1>3, <1>4, Sizes

\* While the walk goes on, every index is that of a position of the hash, and
\* the indexes go down.
LEMMA WalkDown ==
  ASSUME IInv, NEW h \in Hashes, NEW c,
         c \in [0..Cap -> Indexes], c[0] = head[h],
         \A i \in 1..Cap : c[i] = prev[c[i - 1]],
         NEW i \in 0..Cap, \A j \in 0..(i - 1) : InReach(c[j])
  PROVE  /\ Link(c[i], Ahead(h, c, i), totalShift)
         /\ Ahead(h, c, i) \in SUBSET SameHash(h)
         /\ c[i] <= Cap - 1 - i \/ ~InReach(c[i])
<1>0. Cap \in Nat /\ inserted \subseteq Nat /\ totalShift \in Int
  BY Sizes DEF IInv, TypeOK
<1> DEFINE Right(n) ==
             /\ Link(c[n], Ahead(h, c, n), totalShift)
             /\ Ahead(h, c, n) \in SUBSET SameHash(h)
             /\ c[n] <= Cap - 1 - n \/ ~InReach(c[n])
           Wrong == {n \in Nat : n <= i /\ ~Right(n)}
<1>1. Right(0)
  BY <1>0 DEF IInv, HeadInv, Ahead, Indexes
<1>2. ASSUME NEW n \in 1..i, Right(n - 1) PROVE Right(n)
  <2>0. n - 1 \in 0..(i - 1) /\ n - 1 \in 0..Cap /\ n \in 1..Cap /\ n # 0
    BY <1>0
  <2> DEFINE q == c[n - 1] + totalShift
  <2>1. /\ c[n - 1] \in Indexes /\ c[n] \in Indexes /\ c[n] = prev[c[n - 1]]
        /\ InReach(c[n - 1])
    BY <2>0
  <2>2. Ahead(h, c, n - 1) \in SUBSET Nat
    BY <1>2, <1>0 DEF SameHash
  <2>3. q \in Ahead(h, c, n - 1) /\ c[n - 1] # 0
    BY <1>2, <2>1, <2>2, LinkInReach
  <2>4. q \in inserted /\ HashAt(q) = h /\ q - totalShift = c[n - 1]
    BY <1>0, <1>2, <2>1, <2>3 DEF SameHash, Indexes
  <2>5. Live(q)
    <3>1. Low <= c[n - 1]
      BY <1>2, <2>1, <2>2, LinkInReach
    <3> QED
      BY <3>1, <2>4 DEF Live
  <2>6. Ahead(h, c, n) = Before(q)
    BY <2>0 DEF Ahead
  <2>7. Link(c[n], Before(q), totalShift)
    BY <2>1, <2>4, <2>5 DEF IInv, PrevInv
  <2>8. Before(q) \in SUBSET SameHash(h) /\ Before(q) \in SUBSET Nat
    BY <1>0, <2>4 DEF Before, SameHash
  <2>9. c[n] <= Cap - 1 - n \/ ~InReach(c[n])
    <3> SUFFICES ASSUME InReach(c[n]) PROVE c[n] <= Cap - 1 - n
      OBVIOUS
    <3>1. c[n] + totalShift \in Before(q)
      BY <2>1, <2>7, <2>8, LinkInReach
    <3>2. c[n] < c[n - 1]
      <4>1. c[n] + totalShift < c[n - 1] + totalShift
        BY <3>1 DEF Before
      <4>2. c[n] \in Int /\ c[n - 1] \in Int
        BY <2>1 DEF Indexes
      <4> HIDE DEF q
      <4> QED
        BY <4>1, <4>2, <1>0
    <3>3. c[n - 1] <= Cap - 1 - (n - 1)
      BY <1>2, <2>1
    <3> QED
      BY <1>0, <2>0, <2>1, <3>2, <3>3 DEF Indexes
  <2> QED
    BY <2>6, <2>7, <2>8, <2>9
<1>3. Wrong = {}
  <2> SUFFICES ASSUME Wrong # {} PROVE FALSE
    OBVIOUS
  <2>0. Wrong \subseteq Nat
    OBVIOUS
  <2>1. PICK n \in Wrong : \A m \in Wrong : n <= m
    BY <2>0, LeastNumber
  <2>2. n \in Nat /\ n <= i /\ ~Right(n)
    BY <2>1
  <2>3. n # 0
    BY <1>1, <2>2
  <2>4. n - 1 \in Nat /\ n - 1 <= i /\ ~(n <= n - 1) /\ n \in 1..i
    BY <2>2, <2>3, <1>0
  <2>5. Right(n - 1)
    BY <2>1, <2>4
  <2> QED
    BY <1>2, <2>2, <2>4, <2>5
<1> HIDE DEF Right
<1>4. Right(i)
  BY <1>0, <1>3
<1> QED
  BY <1>4 DEF Right

LEMMA WalkRight ==
  ASSUME IInv, NEW h \in Hashes
  PROVE  LET w == Walk(head[h], pos, Distance)
         IN {w[i] : i \in DOMAIN w} = InWindow(SameHash(h))
<1>0. /\ Cap \in Nat /\ Cap > 0 /\ inserted \subseteq Nat
      /\ totalShift \in Int /\ pos \in Nat
      /\ TypeOK /\ head[h] \in Indexes
  BY Sizes DEF IInv, TypeOK
<1> DEFINE c == Chain(head[h])
           Stops(i) == \/ pos - totalShift - c[i] > Distance
                       \/ i > 0 /\ c[i] = 0
           IsEnd(i) == Stops(i) /\ \A j \in 0..(i - 1) : ~Stops(j)
           end == CHOOSE i \in DOMAIN c : IsEnd(i)
<1>1. /\ c \in [0..Cap -> Indexes]
      /\ c[0] = head[h]
      /\ \A i \in 1..Cap : c[i] = prev[c[i - 1]]
  BY <1>0, ChainOf
<1>2. Walk(head[h], pos, Distance) = [i \in 1..end |-> c[i - 1] + totalShift]
  BY DEF Walk, Chain
<1> HIDE DEF c
<1>3. \A i \in 0..Cap : c[i] \in Indexes /\ c[i] \in Nat
  BY <1>1 DEF Indexes
<1>4. ASSUME NEW i \in 0..Cap, \A j \in 0..(i - 1) : InReach(c[j])
      PROVE  /\ Link(c[i], Ahead(h, c, i), totalShift)
             /\ Ahead(h, c, i) \in SUBSET SameHash(h)
             /\ c[i] <= Cap - 1 - i \/ ~InReach(c[i])
             /\ Ahead(h, c, i) \in SUBSET Nat
  BY <1>0, <1>1, <1>4, WalkDown DEF SameHash
<1>5. \E i \in 0..Cap : ~InReach(c[i])
  <2> SUFFICES ASSUME \A i \in 0..Cap : InReach(c[i]) PROVE FALSE
    OBVIOUS
  <2>1. Cap \in 0..Cap /\ \A j \in 0..(Cap - 1) : InReach(c[j])
    BY <1>0
  <2>2. c[Cap] <= Cap - 1 - Cap
    BY <2>1, <1>4
  <2> QED
    BY <1>0, <1>3, <2>1, <2>2
<1>6. PICK e \in 0..Cap : ~InReach(c[e]) /\ \A j \in 0..(e - 1) : InReach(c[j])
  <2> DEFINE Out == {i \in Nat : i <= Cap /\ ~InReach(c[i])}
  <2>1. Out \in SUBSET Nat /\ Out # {}
    BY <1>0, <1>5
  <2>2. PICK e \in Out : \A m \in Out : e <= m
    <3> HIDE DEF Out
    <3> QED
      BY <2>1, LeastNumber
  <2>3. e \in 0..Cap /\ ~InReach(c[e])
    BY <1>0, <2>2
  <2>4. ASSUME NEW j \in 0..(e - 1) PROVE InReach(c[j])
    BY <1>0, <2>2, <2>3, <2>4
  <2> QED
    BY <2>3, <2>4
<1>7. ASSUME NEW i \in 0..e
      PROVE  \A j \in 0..(i - 1) : j \in 0..Cap /\ InReach(c[j])
  BY <1>0, <1>6, <1>7
<1>8. \A i \in 0..(e - 1) : ~Stops(i)
  <2> SUFFICES ASSUME NEW i \in 0..(e - 1) PROVE ~Stops(i)
    OBVIOUS
  <2>1. i \in 0..Cap /\ i \in 0..e /\ InReach(c[i])
    BY <1>0, <1>6
  <2>2. c[i] # 0
    BY <2>1, <1>3, <1>4, <1>7, LinkInReach
  <2>3. ~(pos - totalShift - c[i] > Distance)
    BY <2>1, <1>0, <1>3, Sizes DEF InReach, Distance, MinOf
  <2> QED
    BY <2>2, <2>3
<1>9. IsEnd(e)
  <2>1. pos - totalShift - c[e] > Distance
    BY <1>0, <1>3, <1>6, Sizes DEF InReach, Distance, MinOf
  <2> QED
    BY <2>1, <1>8
<1>10. end = e
  <2>1. DOMAIN c = 0..Cap
    BY <1>1
  <2>2. ASSUME NEW i \in 0..Cap, IsEnd(i) PROVE i = e
    <3>1. ~(i < e)
      BY <2>2, <1>8, <1>0
    <3>2. ~(e < i)
      BY <2>2, <1>9, <1>0
    <3> QED
      BY <3>1, <3>2, <1>0
  <2> HIDE DEF IsEnd
  <2> QED
    BY <2>1, <2>2, <1>9
<1> HIDE DEF end, Stops, IsEnd
<1>11. ASSUME NEW i \in 1..e
       PROVE  c[i - 1] + totalShift \in InWindow(SameHash(h))
  <2>1. i - 1 \in 0..Cap /\ i - 1 \in 0..e /\ i - 1 \in 0..(e - 1) /\ InReach(c[i - 1])
    BY <1>0, <1>6
  <2>2. c[i - 1] + totalShift \in SameHash(h)
    BY <2>1, <1>3, <1>4, <1>7, LinkInReach
  <2>3. pos - (c[i - 1] + totalShift) <= Window
    BY <2>1, <1>0, <1>3, Sizes DEF InReach, Distance, MinOf
  <2> QED
    BY <2>2, <2>3 DEF InWindow
<1>12. ASSUME NEW q \in InWindow(SameHash(h))
       PROVE  \E i \in 1..e : q = c[i - 1] + totalShift
  <2> DEFINE Passed(n) == \E i \in 1..n : q = c[i - 1] + totalShift
             Open == {n \in Nat : n <= e /\ ~Passed(n) /\ q \notin Ahead(h, c, n)}
  <2>0. q \in SameHash(h) /\ q \in Nat /\ pos - q <= Window /\ HashAt(q) = h /\ q \in inserted
    BY <1>0, <1>12 DEF InWindow, SameHash
  <2>1. Open = {}
    <3> SUFFICES ASSUME Open # {} PROVE FALSE
      OBVIOUS
    <3>0. Open \subseteq Nat
      OBVIOUS
    <3>1. PICK n \in Open : \A m \in Open : n <= m
      <4> HIDE DEF Open
      <4> QED
        BY <3>0, LeastNumber
    <3>2. n \in Nat /\ n <= e /\ ~Passed(n) /\ q \notin Ahead(h, c, n)
      BY <3>1
    <3>3. n # 0
      BY <2>0, <3>2 DEF Ahead
    <3>4. n - 1 \in Nat /\ n - 1 <= e /\ ~(n <= n - 1) /\ n - 1 \in 0..(e - 1)
          /\ n - 1 \in 0..e /\ n - 1 \in 0..Cap
      BY <3>2, <3>3, <1>0, <1>6
    <3>5. ~Passed(n - 1)
      BY <3>2, <3>4
    <3>6. q \in Ahead(h, c, n - 1)
      BY <3>1, <3>4, <3>5
    <3>7. InReach(c[n - 1])
      BY <3>4, <1>6
    <3>8. q <= c[n - 1] + totalShift /\ c[n - 1] + totalShift \in SameHash(h)
      BY <3>4, <3>6, <3>7, <1>3, <1>4, <1>7, LinkInReach
    <3>9. q # c[n - 1] + totalShift
      BY <3>2, <3>3, <3>4
    <3>10. q < c[n - 1] + totalShift
      BY <3>4, <3>8, <3>9, <2>0, <1>0, <1>3
    <3>11. q \in Before(c[n - 1] + totalShift)
      BY <2>0, <3>8, <3>10 DEF Before, SameHash
    <3> QED
      BY <3>2, <3>3, <3>11 DEF Ahead
  <2>2. e \in Nat /\ e <= Cap /\ e \in 0..e
    BY <1>0
  <2>3. Passed(e) \/ q \in Ahead(h, c, e)
    BY <2>1, <2>2
  <2>4. \A r \in Ahead(h, c, e) : pos - r > Window
    <3>1. /\ Link(c[e], Ahead(h, c, e), totalShift)
          /\ Ahead(h, c, e) \in SUBSET Nat
          /\ ~InReach(c[e]) /\ c[e] \in Indexes
      BY <2>2, <1>3, <1>4, <1>6, <1>7
    <3> QED
      BY <3>1, LinkInReach
  <2>5. ~(pos - q > Window)
    BY <2>0, <1>0, Sizes
  <2> QED
    BY <2>3, <2>4, <2>5
<1>13. /\ DOMAIN Walk(head[h], pos, Distance) = 1..e
       /\ \A i \in 1..e : Walk(head[h], pos, Distance)[i] = c[i - 1] + totalShift
  BY <1>2, <1>10
<1> DEFINE w == Walk(head[h], pos, Distance)
<1>14. DOMAIN w = 1..e /\ \A i \in 1..e : w[i] = c[i - 1] + totalShift
  BY <1>13
<1> HIDE DEF w
<1>15. {w[i] : i \in DOMAIN w} = InWindow(SameHash(h))
  <2>1. {w[i] : i \in DOMAIN w} \subseteq InWindow(SameHash(h))
    BY <1>11, <1>14
  <2>2. InWindow(SameHash(h)) \subseteq {w[i] : i \in DOMAIN w}
    <3> SUFFICES ASSUME NEW q \in InWindow(SameHash(h))
                 PROVE  q \in {w[i] : i \in DOMAIN w}
      OBVIOUS
    <3>1. PICK i \in 1..e : q = c[i - 1] + totalShift
      BY <1>12
    <3> QED
      BY <3>1, <1>14
  <2> QED
    BY <2>1, <2>2
<1> QED
  BY <1>15 DEF w

\* What the window of the chains holds are the positions entered in it.
LEMMA HeldRight ==
  ASSUME IInv
  PROVE  Held = InWindow(inserted)
<1>1. Held = UNION {InWindow(SameHash(h)) : h \in Hashes}
  <2> DEFINE Met(h) == LET w == Walk(head[h], pos, MinOf(pos, Window))
                       IN {w[i] : i \in DOMAIN w}
  <2>1. \A h \in Hashes : Met(h) = InWindow(SameHash(h))
    BY WalkRight DEF Distance
  <2>2. Held = UNION {Met(h) : h \in Hashes}
    BY Zenon DEF Held
  <2> HIDE DEF Met
  <2> QED
    BY <2>1, <2>2
<1>2. \A q \in inserted : HashAt(q) \in Hashes
  BY HashOf DEF IInv, TypeOK, InsertedInv
<1> QED
  BY <1>1, <1>2 DEF InWindow, SameHash

-----------------------------------------------------------------------------
(***************************************************************************)
(* The refinement: the end of a block is the step of the abstract chains,  *)
(* everything else leaves the entered positions before pos as they are.    *)
(***************************************************************************)
Nodes == {q \in Held : q < pos}

\* What is entered of a block is all from its first position to cur.
EnteredInv == blk > 0 => \A q \in Nat : pos <= q /\ q < cur => q \in inserted

RInv == IInv /\ EnteredInv

\* The nodes are the positions entered before pos that are in its window.
NodesAre == Nodes = {q \in inserted : q < pos /\ pos - q <= Window}

LEMMA NodesRight == IInv => NodesAre
BY HeldRight DEF NodesAre, Nodes, InWindow

LEMMA NodesRightNext == IInv' => NodesAre'
BY NodesRight, PTL

LEMMA NextRInv == RInv /\ [Next]_vars => RInv'
<1> SUFFICES ASSUME RInv, [Next]_vars PROVE EnteredInv'
  BY NextIInv DEF RInv
<1> USE DEF EnteredInv
<1>0. pos \in Nat /\ cur \in Nat
  BY DEF RInv, IInv, TypeOK
<1>1. CASE \/ \E l \in Calls : UpdateHash(l)
           \/ \E l \in Skips : SkipHash(l)
           \/ UNCHANGED vars
  BY <1>1 DEF RInv, UpdateHash, SkipHash, vars, hashVars
<1>2. CASE StartBlock
  BY <1>0, <1>2 DEF StartBlock
<1>3. CASE Insert
  BY <1>0, <1>3 DEF Insert, RInv
<1>4. CASE EndBlock
  BY <1>4 DEF EndBlock
<1> QED
  BY <1>1, <1>2, <1>3, <1>4 DEF Next, HashStep

\* Between the ends of blocks the abstract chains do not move.
LEMMA StutterStep ==
  ASSUME IInv, IInv', UNCHANGED <<input, pos>>,
         \A q \in Nat : q < pos => (q \in inserted' <=> q \in inserted)
  PROVE  UNCHANGED <<input, pos, Nodes>>
<1>1. NodesAre /\ NodesAre'
  BY NodesRight, NodesRightNext
<1>2. inserted \subseteq Nat /\ inserted' \subseteq Nat
  BY DEF IInv, TypeOK
<1> QED
  BY <1>1, <1>2 DEF NodesAre

LEMMA BlockStep ==
  ASSUME RInv, IInv', EndBlock
  PROVE  Abstract!Next
<1>0. /\ pos \in Nat /\ cur \in Nat /\ blk \in Nat /\ todo \in Nat /\ inserted \subseteq Nat
      /\ blk > 0 /\ pos' = pos + blk /\ Len(input) \in Nat
      /\ input \in Seq(Byte) /\ skipping \in BOOLEAN
      /\ pos + blk <= Len(input) /\ pos <= cur /\ cur <= pos + Entered
      /\ UNCHANGED <<input, inserted>>
      /\ \A q \in inserted : q < cur /\ Hashable(q)
      /\ cur = pos + Entered \/ ~Hashable(cur)
  BY Sizes DEF RInv, IInv, TypeOK, Room, InsertedInv, Limit, EndBlock
<1> DEFINE new == IF skipping THEN {pos} ELSE pos..(pos + blk - 1)
           fresh == {q \in new : q + 2 < Len(input)}
<1>1. fresh = {q \in inserted : pos <= q}
  <2>1. ASSUME NEW q \in fresh PROVE q \in inserted /\ pos <= q
    <3>1. q \in Nat /\ pos <= q /\ Hashable(q) /\ q < pos + Entered
      BY <1>0, <2>1 DEF Hashable, Entered
    <3>2. q < cur
      BY <3>1, <1>0 DEF Hashable
    <3> QED
      BY <3>1, <3>2, <1>0 DEF RInv, EnteredInv
  <2>2. ASSUME NEW q \in inserted, pos <= q PROVE q \in fresh
    <3>1. q \in Nat /\ q < cur /\ Hashable(q)
      BY <1>0, <2>2
    <3>2. q \in new
      BY <3>1, <2>2, <1>0 DEF Entered
    <3> QED
      BY <3>1, <3>2 DEF Hashable
  <2> QED
    BY <2>1, <2>2
<1>2. NodesAre /\ NodesAre'
  BY NodesRight, NodesRightNext DEF RInv
<1>3. Nodes' = {q \in Nodes \cup fresh : (pos + blk) - q <= Window}
  <2>1. \A q \in inserted : q \in Nat /\ q < pos + blk
    BY <1>0 DEF Entered
  <2>2. \A q \in Nat : (pos + blk) - q <= Window /\ q < pos => pos - q <= Window
    BY <1>0, Sizes
  <2>3. /\ Nodes = {q \in inserted : q < pos /\ pos - q <= Window}
        /\ Nodes' = {q \in inserted : (pos + blk) - q <= Window}
    BY <1>0, <1>2, <2>1 DEF NodesAre
  <2> HIDE DEF fresh
  <2>4. ASSUME NEW q \in inserted, (pos + blk) - q <= Window
        PROVE  q \in Nodes \cup fresh
    BY <2>4, <1>0, <1>1, <2>1, <2>2, <2>3
  <2>5. Nodes \cup fresh \subseteq inserted
    BY <1>1, <2>3
  <2> QED
    BY <2>3, <2>4, <2>5
<1>4. CASE skipping
  <2>1. Abstract!Advance(blk, {pos})
    BY <1>0, <1>3, <1>4 DEF Abstract!Advance, Abstract!InWindow, Abstract!Hashable, Nodes
  <2> QED
    BY <1>0, <2>1 DEF Abstract!Next
<1>5. CASE ~skipping
  <2>1. blk \in 1..(Len(input) - pos)
    BY <1>0
  <2>2. \E n \in 1..(Len(input) - pos) :
          /\ pos + n <= Len(input)
          /\ pos' = pos + n
          /\ Nodes' = {q \in Nodes \cup {r \in pos..(pos + n - 1) : r + 2 < Len(input)} :
                         (pos + n) - q <= Window}
          /\ UNCHANGED input
    <3> WITNESS blk \in 1..(Len(input) - pos)
    <3> QED
      BY <1>0, <1>3, <1>5
  <2> QED
    BY <2>2 DEF Abstract!Next, Abstract!Advance, Abstract!InWindow, Abstract!Hashable, Nodes
<1> QED
  BY <1>4, <1>5

(***************************************************************************)
(* The arrays implement the chains: every behaviour of the arrays, with    *)
(* their reshifts, blocks and skips, is one of the abstract chains.        *)
(***************************************************************************)
THEOREM ArraysImplementChains == Spec => ImplementsChains
<1>1. Init => RInv
  BY InitIInv DEF RInv, EnteredInv, Init, HashInit
<1>2. Init => Abstract!Init
  <2> SUFFICES ASSUME Init PROVE Abstract!Init
    OBVIOUS
  <2>1. Nodes = {}
    BY InitIInv, NodesRight DEF NodesAre, Init, HashInit
  <2> QED
    BY <2>1 DEF Abstract!Init, Nodes, Init, HashInit
<1>3. RInv /\ RInv' /\ [Next]_vars => [Abstract!Next]_(Abstract!vars)
  <2> SUFFICES ASSUME RInv, RInv', [Next]_vars
               PROVE  Abstract!Next \/ UNCHANGED <<input, pos, Nodes>>
    BY DEF Abstract!vars, Nodes
  <2>0. pos \in Nat /\ cur \in Nat /\ IInv /\ IInv'
    BY DEF RInv, IInv, TypeOK
  <2>1. CASE \/ \E l \in Calls : UpdateHash(l)
             \/ \E l \in Skips : SkipHash(l)
             \/ UNCHANGED vars
    <3>1. UNCHANGED <<input, pos, inserted>>
      BY <2>1 DEF UpdateHash, SkipHash, vars, hashVars
    <3> QED
      BY <3>1, <2>0, StutterStep
  <2>2. CASE StartBlock
    <3>1. UNCHANGED <<input, pos, inserted>>
      BY <2>2 DEF StartBlock
    <3> QED
      BY <3>1, <2>0, StutterStep
  <2>3. CASE Insert
    <3>1. UNCHANGED <<input, pos>> /\ inserted' = inserted \cup {cur}
      BY <2>3 DEF Insert
    <3>2. pos <= cur
      BY <2>3 DEF Insert, RInv, IInv, Room
    <3>3. \A q \in Nat : q < pos => (q \in inserted' <=> q \in inserted)
      BY <3>1, <3>2, <2>0
    <3> QED
      BY <3>1, <3>3, <2>0, StutterStep
  <2>4. CASE EndBlock
    BY <2>0, <2>4, BlockStep
  <2> QED
    BY <2>1, <2>2, <2>3, <2>4 DEF Next, HashStep
<1> QED
  BY <1>1, <1>2, <1>3, NextRInv, PTL DEF Spec, ImplementsChains, Abstract!Spec

-----------------------------------------------------------------------------
(***************************************************************************)
(* The chains of runs: how far the array reaches.                          *)
(***************************************************************************)
Bound(s) == {"built", "shift"} \subseteq DOMAIN s

\* t has the entries of s moved by no reshift, and none more.
SameReach(s, t) ==
  /\ DOMAIN t = DOMAIN s
  /\ t.built = s.built
  /\ t.shift = s.shift

LEMMA BytesReach ==
  ASSUME NEW s, Bound(s), NEW p, NEW i
  PROVE  /\ SameReach(s, Runs!FirstByte(s, p))
         /\ SameReach(s, Runs!NextByte(s, p, i))
         /\ SameReach(s, Runs!CloseRun(s, p))
         /\ SameReach(s, Runs!CutRun(s))
<1> USE DEF Bound, SameReach
<1>1. \A e : SameReach(s, Runs!CloseRun(s, e))
  BY DEF Runs!CloseRun
<1>2. \A t, q : Bound(t) => SameReach(t, Runs!OpenRun(t, q))
  BY DEF Runs!OpenRun
<1>3. SameReach(s, Runs!FirstByte(s, p))
  BY <1>2 DEF Runs!FirstByte
<1>4. \A c : SameReach(s, Runs!GrowRun(s, p + i, c))
  BY DEF Runs!GrowRun
<1>5. SameReach(s, Runs!NextByte(s, p, i))
  BY <1>1, <1>2, <1>4 DEF Runs!NextByte
<1>6. SameReach(s, Runs!CutRun(s))
  BY DEF Runs!CutRun
<1> QED
  BY <1>1, <1>3, <1>5, <1>6

\* What the loop of _build has come to after each byte.
BytesIn(s, p, n) ==
  LET entered[i \in 0..n] ==
        IF i = 0 THEN Runs!FirstByte(s, p) ELSE Runs!NextByte(entered[i - 1], p, i)
  IN entered

LEMMA BytesInOf ==
  ASSUME NEW s, NEW p, NEW n \in Nat
  PROVE  /\ BytesIn(s, p, n)[0] = Runs!FirstByte(s, p)
         /\ \A i \in 1..n :
              BytesIn(s, p, n)[i] = Runs!NextByte(BytesIn(s, p, n)[i - 1], p, i)
<1> DEFINE Solves(g, k) ==
             g = [i \in 0..k |-> IF i = 0 THEN Runs!FirstByte(s, p)
                                 ELSE Runs!NextByte(g[i - 1], p, i)]
           None == {k \in Nat : ~\E g : Solves(g, k)}
<1>1. None = {}
  <2> SUFFICES ASSUME None # {} PROVE FALSE
    OBVIOUS
  <2>1. PICK k \in None : \A m \in None : k <= m
    BY LeastNumber
  <2>2. k # 0
    <3>1. Solves([i \in 0..0 |-> Runs!FirstByte(s, p)], 0)
      OBVIOUS
    <3> HIDE DEF Solves
    <3> QED
      BY <3>1, <2>1
  <2>3. k - 1 \in Nat /\ ~(k <= k - 1)
    BY <2>1, <2>2
  <2>4. PICK g : Solves(g, k - 1)
    BY <2>1, <2>3
  <2> DEFINE h == [i \in 0..k |-> IF i = k THEN Runs!NextByte(g[k - 1], p, k) ELSE g[i]]
  <2>5. Solves(h, k)
    <3>1. \A i \in 0..(k - 1) : h[i] = g[i] /\ i \in 0..k
      BY <2>3
    <3>2. ASSUME NEW i \in 0..k
          PROVE  h[i] = IF i = 0 THEN Runs!FirstByte(s, p)
                        ELSE Runs!NextByte(h[i - 1], p, i)
      <4>1. CASE i = k
        BY <4>1, <3>1, <2>2, <2>3
      <4>2. CASE i # k
        <5>1. i \in 0..(k - 1) /\ (i # 0 => i - 1 \in 0..(k - 1))
          BY <4>2, <2>3
        <5>2. g[i] = IF i = 0 THEN Runs!FirstByte(s, p)
                     ELSE Runs!NextByte(g[i - 1], p, i)
          BY <5>1, <2>4
        <5> HIDE DEF h
        <5> QED
          BY <5>1, <5>2, <3>1
      <4> QED
        BY <4>1, <4>2
    <3>3. h = [i \in 0..k |-> h[i]]
      OBVIOUS
    <3> HIDE DEF h
    <3> QED
      BY <3>2, <3>3
  <2> HIDE DEF h, Solves
  <2> QED
    BY <2>5, <2>1
<1>2. PICK g : Solves(g, n)
  BY <1>1
<1> DEFINE e == BytesIn(s, p, n)
<1>3. Solves(e, n)
  BY <1>2 DEF BytesIn
<1> HIDE DEF e
<1>4. /\ e[0] = Runs!FirstByte(s, p)
      /\ \A i \in 1..n : e[i] = Runs!NextByte(e[i - 1], p, i)
  BY <1>3
<1> QED
  BY <1>4 DEF e

LEMMA BytesInReach ==
  ASSUME NEW s, Bound(s), NEW p, NEW n \in Nat, NEW i \in 0..n
  PROVE  SameReach(s, BytesIn(s, p, n)[i])
<1> DEFINE e == BytesIn(s, p, n)
           Bad == {k \in Nat : k <= n /\ ~SameReach(s, e[k])}
<1>0. /\ e[0] = Runs!FirstByte(s, p)
      /\ \A k \in 1..n : e[k] = Runs!NextByte(e[k - 1], p, k)
  BY BytesInOf
<1> HIDE DEF e
<1>1. Bad = {}
  <2> SUFFICES ASSUME Bad # {} PROVE FALSE
    OBVIOUS
  <2>1. PICK k \in Bad : \A m \in Bad : k <= m
    BY LeastNumber
  <2>2. k # 0
    BY <1>0, <2>1, BytesReach
  <2>3. k \in 1..n /\ k - 1 \in Nat /\ ~(k <= k - 1) /\ k - 1 <= n
    BY <2>1, <2>2
  <2>4. SameReach(s, e[k - 1])
    BY <2>1, <2>3
  <2>5. Bound(e[k - 1])
    BY <2>4 DEF Bound, SameReach
  <2>6. SameReach(e[k - 1], e[k])
    BY <1>0, <2>3, <2>5, BytesReach
  <2>7. SameReach(s, e[k])
    BY <2>4, <2>6 DEF SameReach
  <2> QED
    BY <2>1, <2>7
<1> QED
  BY <1>1 DEF e

\* _build enters as many bytes as it is told.
LEMMA BuildReach ==
  ASSUME NEW s, Bound(s), s.built \in Int, NEW p, NEW size \in Nat
  PROVE  /\ DOMAIN Runs!Build(s, p, size) = DOMAIN s
         /\ Runs!Build(s, p, size).built = s.built + size
         /\ Runs!Build(s, p, size).shift = s.shift
<1>1. CASE size = 0
  BY <1>1 DEF Runs!Build
<1>2. CASE size # 0
  <2> DEFINE n == size - 1
             last == BytesIn(s, p, n)[n]
             closed == Runs!CloseRun(last, p + size)
  <2>1. n \in Nat /\ n \in 0..n
    BY <1>2
  <2>2. Runs!Build(s, p, size) = [closed EXCEPT !.built = @ + size]
    BY <1>2 DEF Runs!Build, BytesIn
  <2>3. SameReach(s, last)
    <3> HIDE DEF n
    <3> QED
      BY <2>1, BytesInReach
  <2>4. SameReach(last, closed)
    <3>1. Bound(last)
      BY <2>3 DEF SameReach, Bound
    <3> HIDE DEF last
    <3> QED
      BY <3>1, BytesReach
  <2> HIDE DEF closed, last
  <2> QED
    BY <2>2, <2>3, <2>4 DEF SameReach, Bound
<1> QED
  BY <1>1, <1>2

\* The array is filled as far as it goes, or to the end of the input.
Full(s) ==
  /\ Bound(s)
  /\ s.shift \in Int
  /\ -Low <= s.shift
  /\ s.built = Runs!LowerOf(s.shift + Cap, Len(input))

LEMMA ReshiftReach ==
  ASSUME NEW s, Full(s), Len(input) \in Nat
  PROVE  /\ Full(Runs!Reshift(s))
         /\ Runs!Reshift(s).shift = s.shift + Delta
<1> DEFINE cut == Runs!CutRun(s)
           moved == Runs!MoveDown(cut)
           size == Runs!LowerOf(Delta, Len(input) - s.built)
<1>1. SameReach(s, cut)
  BY BytesReach DEF Full
<1>2. DOMAIN moved = DOMAIN s /\ moved.built = s.built /\ moved.shift = s.shift + Delta
  <2> HIDE DEF cut
  <2> QED
    BY <1>1 DEF SameReach, Full, Bound, Runs!MoveDown
<1>3. size \in Nat /\ s.built \in Int
  BY Sizes DEF Full, Runs!LowerOf
<1>4. Runs!Reshift(s) = Runs!Build(moved, Low + Runs!Kept, size)
  BY DEF Runs!Reshift
<1> HIDE DEF moved, size
<1>5. /\ DOMAIN Runs!Reshift(s) = DOMAIN s
      /\ Runs!Reshift(s).built = s.built + size
      /\ Runs!Reshift(s).shift = s.shift + Delta
  BY <1>2, <1>3, <1>4, BuildReach DEF Bound, Full
<1> QED
  BY <1>5, Sizes DEF Full, Bound, Runs!LowerOf, size

\* What the loop of updateSeq has come to after each turn.
TurnsIn(s, at, n) ==
  LET turn[i \in 0..n] ==
        IF i = 0 THEN s
        ELSE IF at - turn[i - 1].shift >= Runs!Threshold THEN Runs!Reshift(turn[i - 1])
        ELSE turn[i - 1]
  IN turn

LEMMA TurnsInOf ==
  ASSUME NEW s, NEW at, NEW n \in Nat
  PROVE  /\ TurnsIn(s, at, n)[0] = s
         /\ \A i \in 1..n :
              LET t == TurnsIn(s, at, n)[i - 1]
              IN TurnsIn(s, at, n)[i] =
                   IF at - t.shift >= Runs!Threshold THEN Runs!Reshift(t) ELSE t
<1> DEFINE Turn(t) == IF at - t.shift >= Runs!Threshold THEN Runs!Reshift(t) ELSE t
           Solves(g, k) == g = [i \in 0..k |-> IF i = 0 THEN s ELSE Turn(g[i - 1])]
           None == {k \in Nat : ~\E g : Solves(g, k)}
<1> HIDE DEF Turn
<1>1. None = {}
  <2> SUFFICES ASSUME None # {} PROVE FALSE
    OBVIOUS
  <2>1. PICK k \in None : \A m \in None : k <= m
    BY LeastNumber
  <2>2. k # 0
    <3>1. Solves([i \in 0..0 |-> s], 0)
      OBVIOUS
    <3> HIDE DEF Solves
    <3> QED
      BY <3>1, <2>1
  <2>3. k - 1 \in Nat /\ ~(k <= k - 1)
    BY <2>1, <2>2
  <2>4. PICK g : Solves(g, k - 1)
    BY <2>1, <2>3
  <2> DEFINE h == [i \in 0..k |-> IF i = k THEN Turn(g[k - 1]) ELSE g[i]]
  <2>5. Solves(h, k)
    <3>1. \A i \in 0..(k - 1) : h[i] = g[i] /\ i \in 0..k
      BY <2>3
    <3>2. ASSUME NEW i \in 0..k
          PROVE  h[i] = IF i = 0 THEN s ELSE Turn(h[i - 1])
      <4>1. CASE i = k
        BY <4>1, <3>1, <2>2, <2>3
      <4>2. CASE i # k
        <5>1. i \in 0..(k - 1) /\ (i # 0 => i - 1 \in 0..(k - 1))
          BY <4>2, <2>3
        <5>2. g[i] = IF i = 0 THEN s ELSE Turn(g[i - 1])
          BY <5>1, <2>4
        <5> HIDE DEF h
        <5> QED
          BY <5>1, <5>2, <3>1
      <4> QED
        BY <4>1, <4>2
    <3>3. h = [i \in 0..k |-> h[i]]
      OBVIOUS
    <3> HIDE DEF h
    <3> QED
      BY <3>2, <3>3
  <2> HIDE DEF h, Solves
  <2> QED
    BY <2>5, <2>1
<1>2. PICK g : Solves(g, n)
  BY <1>1
<1> DEFINE e == TurnsIn(s, at, n)
<1>3. Solves(e, n)
  BY <1>2 DEF TurnsIn, Turn
<1> HIDE DEF e
<1>4. e[0] = s /\ \A i \in 1..n : e[i] = Turn(e[i - 1])
  BY <1>3
<1> QED
  BY <1>4 DEF e, Turn

\* The loop of updateSeq ends with the position in reach, and no move takes
\* the array further than the window allows.
LEMMA CaughtReach ==
  ASSUME NEW s, Full(s), Len(input) \in Nat, NEW at \in Nat
  PROVE  LET t == Runs!Caught(s, at)
         IN /\ Full(t)
            /\ t.shift = s.shift \/ at - t.shift - Low >= Window
            /\ at - t.shift < Threshold
<1> DEFINE n == at \div Delta + 1
           e == TurnsIn(s, at, n)
           Right(k) == /\ Full(e[k])
                       /\ e[k].shift = s.shift \/ at - e[k].shift - Low >= Window
                       /\ at - e[k].shift < Threshold \/ e[k].shift = s.shift + k * Delta
           Wrong == {k \in Nat : k <= n /\ ~Right(k)}
<1>0. at \div Delta \in Nat /\ at % Delta \in 0 .. Delta - 1
      /\ at = Delta * (at \div Delta) + (at % Delta)
  <2>1. Delta \in Nat \ {0}
    BY Sizes
  <2>2. at \div Delta >= 0
    BY <2>1, SMT
  <2> QED
    BY <2>1, <2>2, Division
<1>1. n \in Nat /\ Runs!Caught(s, at) = e[n]
  BY <1>0 DEF Runs!Caught, TurnsIn
<1>2. /\ e[0] = s
      /\ \A i \in 1..n :
           e[i] = IF at - e[i - 1].shift >= Threshold THEN Runs!Reshift(e[i - 1]) ELSE e[i - 1]
  BY <1>1, TurnsInOf DEF Threshold, Runs!Threshold
<1> HIDE DEF e, n
<1>3. Right(0)
  <2>1. 0 * Delta = 0
    BY Sizes
  <2> QED
    BY <1>2, <2>1 DEF Full
<1>4. ASSUME NEW k \in 1..n, Right(k - 1) PROVE Right(k)
  <2> DEFINE t == e[k - 1]
  <2>0. k - 1 \in Nat /\ t.shift \in Int /\ s.shift \in Int
        /\ Threshold \in Nat /\ Delta \in Nat /\ Window \in Nat /\ Low \in Nat
    BY <1>4, <1>1, Sizes DEF Full
  <2>1. CASE at - t.shift >= Threshold
    <3>1. e[k] = Runs!Reshift(t)
      BY <1>2, <2>1
    <3>2. Full(e[k]) /\ e[k].shift = t.shift + Delta
      BY <1>4, <3>1, ReshiftReach
    <3>3. at - e[k].shift - Low >= Window
      BY <2>0, <2>1, <3>2, Sizes
    <3>4. t.shift = s.shift + (k - 1) * Delta
      BY <1>4, <2>0, <2>1
    <3>5. k * Delta = (k - 1) * Delta + Delta
      BY <2>0, SMT
    <3>6. e[k].shift = s.shift + k * Delta
      <4>1. (k - 1) * Delta \in Int
        BY <2>0
      <4> QED
        BY <2>0, <3>2, <3>4, <3>5, <4>1
    <3> QED
      BY <3>2, <3>3, <3>6
  <2>2. CASE ~(at - t.shift >= Threshold)
    <3>1. e[k] = t
      BY <1>2, <2>2
    <3>2. at - e[k].shift < Threshold
      BY <2>0, <2>2, <3>1
    <3> QED
      BY <1>4, <3>1, <3>2
  <2> QED
    BY <2>1, <2>2
<1>5. Wrong = {}
  <2> SUFFICES ASSUME Wrong # {} PROVE FALSE
    OBVIOUS
  <2>1. PICK k \in Wrong : \A m \in Wrong : k <= m
    <3>1. Wrong \in SUBSET Nat
      OBVIOUS
    <3> HIDE DEF Wrong
    <3> QED
      BY <3>1, LeastNumber
  <2>2. k \in Nat /\ k <= n /\ ~Right(k)
    BY <2>1
  <2>3. k # 0
    BY <1>3, <2>2
  <2>4. k \in 1..n /\ k - 1 \in Nat /\ k - 1 <= n /\ ~(k <= k - 1)
    BY <1>1, <2>2, <2>3
  <2>5. Right(k - 1)
    BY <2>1, <2>4
  <2> QED
    BY <1>4, <2>2, <2>4, <2>5
<1>6. Right(n)
  <2> HIDE DEF Right
  <2> QED
    BY <1>1, <1>5
<1>7. at - e[n].shift < Threshold
  <2> SUFFICES ASSUME e[n].shift = s.shift + n * Delta PROVE at - e[n].shift < Threshold
    BY <1>6
  <2>1. n * Delta = Delta * (at \div Delta) + Delta
    BY <1>0, Sizes, SMT DEF n
  <2>2. n * Delta > at
    <3>1. Delta * (at \div Delta) \in Int
      BY <1>0, Sizes
    <3> QED
      BY <1>0, <2>1, <3>1, Sizes
  <2>3. n * Delta \in Int
    BY <1>1, Sizes
  <2> QED
    BY <2>2, <2>3, Sizes DEF Full
<1> QED
  BY <1>1, <1>6, <1>7

(***************************************************************************)
(* The invariant of the chains of runs: a move leaves the window before    *)
(* the position, and the array goes on behind it as far as it can.         *)
(***************************************************************************)
RunsReach ==
  /\ input \in Seq(Byte)
  /\ seqPos \in Nat
  /\ seqShift \in Int
  /\ -Low <= seqShift
  /\ built = Runs!LowerOf(seqShift + Cap, Len(input))
  /\ seqShift = -Low \/ seqPos - seqShift - Low >= Window
  /\ seqPos - seqShift <= Threshold

LEMMA InitRunsReach == input \in Seq(Byte) /\ FinderInit => RunsReach
<1> SUFFICES ASSUME input \in Seq(Byte), Runs!SeqInit PROVE RunsReach
  BY DEF FinderInit
<1> DEFINE none == [runs |-> [p \in 0..(Cap - 1) |-> Runs!NoRun],
                    heads |-> [c \in Byte |-> 0],
                    shift |-> -Low, built |-> 0, start |-> 0]
           size == Runs!LowerOf(Cap - Low, Len(input))
           s == Runs!Build(none, Low, size)
<1>1. size \in Nat
  BY Sizes DEF Runs!LowerOf
<1>2. Bound(none) /\ none.built = 0 /\ none.shift = -Low
  BY DEF Bound
<1> HIDE DEF none, size
<1>3. s.built = size /\ s.shift = -Low
  BY <1>1, <1>2, BuildReach
<1>4. built = s.built /\ seqShift = s.shift /\ seqPos \in {0, 2}
  BY DEF Runs!SeqInit, none, size
<1> HIDE DEF s
<1> QED
  BY <1>1, <1>3, <1>4, Sizes DEF RunsReach, Runs!LowerOf, size

LEMMA UpdateSeqReach ==
  ASSUME RunsReach, NEW l \in Nat, Runs!UpdateSeq(l), UNCHANGED input
  PROVE  RunsReach'
<1> DEFINE s == [runs |-> runs, heads |-> heads, shift |-> seqShift,
                 built |-> built, start |-> 0]
           t == Runs!Caught(s, seqPos + l)
<1>1. Full(s) /\ s.shift = seqShift
  BY DEF Full, Bound, RunsReach
<1>2. seqPos + l \in Nat /\ Len(input) \in Nat
  BY DEF RunsReach
<1>3. seqPos' = seqPos + l /\ seqShift' = t.shift /\ built' = t.built
  BY DEF Runs!UpdateSeq, Runs!Set
<1> HIDE DEF s
<1>4. /\ Full(t)
      /\ t.shift = seqShift \/ seqPos' - t.shift - Low >= Window
      /\ seqPos' - t.shift < Threshold
  BY <1>1, <1>2, <1>3, CaughtReach
<1> HIDE DEF t
<1> QED
  BY <1>2, <1>3, <1>4, Sizes DEF RunsReach, Full

LEMMA NextRunsReach == RunsReach /\ [FinderNext]_finderVars => RunsReach'
<1> SUFFICES ASSUME RunsReach, [FinderNext]_finderVars PROVE RunsReach'
  OBVIOUS
<1>1. ASSUME NEW l \in Calls, CommitToken(l) PROVE RunsReach'
  BY <1>1, UpdateSeqReach, SizeAssumption DEF CommitToken, UpdateHash
<1>2. ASSUME NEW l \in Skips, CommitSkipped(l) PROVE RunsReach'
  BY <1>2, UpdateSeqReach, SizeAssumption DEF CommitSkipped, SkipHash
<1>3. CASE \/ HashStep /\ UNCHANGED <<runs, heads, seqShift, seqPos, built>>
           \/ UNCHANGED finderVars
  BY <1>3 DEF RunsReach, HashStep, StartBlock, Insert, EndBlock, finderVars, vars
<1> QED
  BY <1>1, <1>2, <1>3 DEF FinderNext

(***************************************************************************)
(* updateSeq, _reshift and _build: the array reaches as far back as a      *)
(* reference can and ahead of the position, for every sequence of tokens.  *)
(***************************************************************************)
THEOREM RunsReachTheWindow == FinderSpec => []ReachRight
<1>1. RunsReach => ReachRight
  BY Sizes DEF RunsReach, ReachRight, Runs!ReachRight, Runs!First, Runs!LowerOf
<1> QED
  BY <1>1, InitRunsReach, NextRunsReach, PTL DEF FinderSpec

(***************************************************************************)
(* A token moves both indexes, and what it does to the hash chains is what *)
(* HashChain says: its theorems hold of the match finder.                  *)
(***************************************************************************)
THEOREM FinderMovesChains == FinderSpec => Spec
<1>1. input \in Seq(Byte) /\ FinderInit => Init
  BY DEF FinderInit, Init
<1>2. [FinderNext]_finderVars => [Next]_vars
  BY DEF FinderNext, CommitToken, CommitSkipped, Next, finderVars
<1> QED
  BY <1>1, <1>2, PTL DEF FinderSpec, Spec

-----------------------------------------------------------------------------
(***************************************************************************)
(* The chains of runs: what the entries say.                               *)
(***************************************************************************)
Entry == [dist : Int, len : Int]

\* What _build and _reshift work on.
RunChain == [runs : [Indexes -> Entry], heads : [Byte -> Nat],
             shift : Int, built : Nat, start : Int]

ByteOf(q) == Runs!ByteAt(q)

FirstOf(s) == s.shift + Low

DistAt(s, q) == s.runs[q - s.shift].dist

LenAt(s, q) == s.runs[q - s.shift].len

Begins(f, q) == q = f \/ ByteOf(q - 1) # ByteOf(q)

\* From x up to y, the bytes from f up to b have a run.
RunIn(f, b, x, y) ==
  /\ f <= x /\ x < y /\ y <= b
  /\ \A q \in x..(y - 1) : ByteOf(q) = ByteOf(x)
  /\ Begins(f, x)
  /\ y = b \/ ByteOf(y) # ByteOf(x)

\* The runs of three and more of the byte c between f and b.
LongRuns(f, b, c) ==
  {r \in Nat : /\ f <= r /\ r + 3 <= b /\ Begins(f, r)
               /\ ByteOf(r) = c /\ ByteOf(r + 1) = c /\ ByteOf(r + 2) = c}

\* The index n is that of the last of them, or of none.
Latest(n, set, shift) ==
  IF Low <= n THEN n + shift \in set /\ \A r \in set : r <= n + shift
  ELSE set = {}

\* The start of a run leads to the run of its byte before it.
LeadsBack(s, x) ==
  Latest((x - s.shift) - DistAt(s, x), LongRuns(FirstOf(s), x, ByteOf(x)), s.shift)

\* The entries of a run that has been closed.
Finished(s, x, y) ==
  /\ \A q \in x..(y - 1) : q >= y - 2 => DistAt(s, q) = Runs!NoDist
  /\ \A q \in (x + 1)..(y - 1) : LenAt(s, q) = 1 /\ (q < y - 2 => DistAt(s, q) = q - x)
  /\ x + 3 <= y => LenAt(s, x) = y - x /\ LeadsBack(s, x)

\* Those of the run that the next byte may continue.
Growing(s, x, b) ==
  /\ RunIn(FirstOf(s), b, x, b)
  /\ LenAt(s, x) = b - x
  /\ \A q \in (x + 1)..(b - 1) : LenAt(s, q) = 1 /\ DistAt(s, q) = q - x
  /\ IF x + 3 <= b THEN LeadsBack(s, x) ELSE DistAt(s, x) = Runs!NoDist

HeadsLatest(s, b) ==
  \A c \in Byte : Latest(s.heads[c], LongRuns(FirstOf(s), b, c), s.shift)

(***************************************************************************)
(* Between calls.  When the whole input has been entered, a head that is   *)
(* not adapted when its run is cut is never used again.                    *)
(***************************************************************************)
ClosedAt(s, b) ==
  /\ s \in RunChain
  /\ \A x, y \in Nat : RunIn(FirstOf(s), b, x, y) => Finished(s, x, y)
  /\ \A c \in Byte :
       Low <= s.heads[c] => Latest(s.heads[c], LongRuns(FirstOf(s), b, c), s.shift)
  /\ b < Len(input) =>
       /\ HeadsLatest(s, b)
       /\ \A x \in Nat : RunIn(FirstOf(s), b, x, b) => LenAt(s, x) = b - x

\* In the loop of _build.
OpenAt(s, b) ==
  /\ s \in RunChain
  /\ \A x, y \in Nat : RunIn(FirstOf(s), b, x, y) /\ y < b => Finished(s, x, y)
  /\ HeadsLatest(s, b)
  /\ s.start + s.shift \in Nat
  /\ Growing(s, s.start + s.shift, b)

(***************************************************************************)
(* Runs of the input.                                                      *)
(***************************************************************************)
LEMMA RunThrough ==
  ASSUME NEW f \in Nat, NEW b \in Nat, NEW q \in Nat, f <= q, q < b
  PROVE  \E x, y \in Nat : RunIn(f, b, x, y) /\ x <= q /\ q < y
<1> DEFINE Back == {k \in Nat : f <= k /\ k <= q /\ \A j \in k..q : ByteOf(j) = ByteOf(q)}
           Behind == {k \in Nat : q < k /\ k <= b /\ (k = b \/ ByteOf(k) # ByteOf(q))}
<1>1. PICK x \in Back : \A k \in Back : x <= k
  <2>1. q \in Back /\ Back \in SUBSET Nat
    OBVIOUS
  <2> HIDE DEF Back
  <2> QED
    BY <2>1, LeastNumber
<1>2. PICK y \in Behind : \A k \in Behind : y <= k
  <2>1. b \in Behind /\ Behind \in SUBSET Nat
    OBVIOUS
  <2> HIDE DEF Behind
  <2> QED
    BY <2>1, LeastNumber
<1>3. /\ x \in Nat /\ f <= x /\ x <= q /\ \A j \in x..q : ByteOf(j) = ByteOf(q)
      /\ y \in Nat /\ q < y /\ y <= b /\ (y = b \/ ByteOf(y) # ByteOf(q))
  BY <1>1, <1>2
<1>4. \A j \in x..(y - 1) : ByteOf(j) = ByteOf(q)
  <2> SUFFICES ASSUME NEW j \in x..(y - 1), j > q PROVE ByteOf(j) = ByteOf(q)
    BY <1>3
  <2>1. j \in Nat /\ q < j /\ j < b /\ ~(y <= j)
    BY <1>3
  <2>2. j \notin Behind
    BY <1>2, <2>1
  <2> QED
    BY <2>1, <2>2
<1>5. Begins(f, x)
  <2> SUFFICES ASSUME x # f PROVE ByteOf(x - 1) # ByteOf(x)
    BY DEF Begins
  <2>1. x - 1 \in Nat /\ f <= x - 1 /\ x - 1 <= q /\ ~(x <= x - 1)
    BY <1>3
  <2>2. x - 1 \notin Back
    BY <1>1, <2>1
  <2>3. \E j \in (x - 1)..q : ByteOf(j) # ByteOf(q)
    BY <2>1, <2>2
  <2>4. ByteOf(x - 1) # ByteOf(q)
    BY <2>3, <1>3
  <2> QED
    BY <2>4, <1>3
<1>6. RunIn(f, b, x, y)
  BY <1>3, <1>4, <1>5 DEF RunIn
<1> QED
  BY <1>3, <1>6

LEMMA OneRun ==
  ASSUME NEW f \in Nat, NEW b \in Nat, NEW q \in Nat,
         NEW x \in Nat, NEW y \in Nat, NEW v \in Nat, NEW w \in Nat,
         RunIn(f, b, x, y), RunIn(f, b, v, w),
         x <= q, q < y, v <= q, q < w
  PROVE  x = v /\ y = w
<1>1. ~(x < v)
  BY DEF RunIn, Begins
<1>2. ~(v < x)
  BY DEF RunIn, Begins
<1>3. ~(y < w)
  BY DEF RunIn
<1>4. ~(w < y)
  BY DEF RunIn
<1> QED
  BY <1>1, <1>2, <1>3, <1>4

\* A run begins before a position of it, and another not within it.
LEMMA LongInRun ==
  ASSUME NEW f \in Nat, NEW b \in Nat, NEW x \in Nat, NEW y \in Nat,
         RunIn(f, b, x, y), NEW e \in Nat, NEW c, NEW r \in LongRuns(f, e, c),
         x <= r, r < y
  PROVE  r = x /\ c = ByteOf(x)
<1>1. r \in Nat /\ Begins(f, r) /\ ByteOf(r) = c
  BY DEF LongRuns
<1>2. ~(x < r)
  BY <1>1 DEF RunIn, Begins
<1> QED
  BY <1>1, <1>2

LEMMA RunIsLong ==
  ASSUME NEW f \in Nat, NEW b \in Nat, NEW x \in Nat, NEW y \in Nat,
         RunIn(f, b, x, y), x + 3 <= y, NEW e \in Nat, x + 3 <= e
  PROVE  x \in LongRuns(f, e, ByteOf(x))
BY DEF RunIn, LongRuns

\* A run that another follows has ended before it.
LEMMA LongBeforeRun ==
  ASSUME NEW f \in Nat, NEW x \in Nat, Begins(f, x), f <= x,
         NEW e \in Nat, x <= e, NEW c,
         \/ e < x + 3
         \/ c # ByteOf(x) /\ \A j \in x..(e - 1) : ByteOf(j) = ByteOf(x)
  PROVE  LongRuns(f, e, c) = LongRuns(f, x, c)
<1>1. LongRuns(f, x, c) \subseteq LongRuns(f, e, c)
  BY DEF LongRuns
<1>2. ASSUME NEW r \in LongRuns(f, e, c) PROVE r + 3 <= x
  <2>1. r \in Nat /\ f <= r /\ r + 3 <= e
        /\ ByteOf(r) = c /\ ByteOf(r + 1) = c /\ ByteOf(r + 2) = c
    BY DEF LongRuns
  <2>2. CASE r < x
    <3> SUFFICES ASSUME x < r + 3 PROVE FALSE
      BY <2>1
    <3>1. x = r + 1 \/ x = r + 2
      BY <2>1, <2>2
    <3>2. ByteOf(x - 1) = ByteOf(x)
      BY <3>1, <2>1
    <3> QED
      BY <3>2, <2>1, <2>2 DEF Begins
  <2>3. CASE x <= r
    BY <2>1, <2>3
  <2> QED
    BY <2>1, <2>2, <2>3
<1> QED
  BY <1>1, <1>2 DEF LongRuns

\* One more byte makes a run of three, or no new one.
LEMMA LongGrows ==
  ASSUME NEW f \in Nat, NEW e \in Nat, NEW x \in Nat, NEW c,
         RunIn(f, e + 1, x, e + 1)
  PROVE  LongRuns(f, e + 1, c) =
           IF c = ByteOf(x) /\ x + 3 = e + 1 THEN LongRuns(f, e, c) \cup {x}
           ELSE LongRuns(f, e, c)
<1>1. LongRuns(f, e, c) \subseteq LongRuns(f, e + 1, c)
  BY DEF LongRuns
<1>2. ASSUME NEW r \in LongRuns(f, e + 1, c), r \notin LongRuns(f, e, c)
      PROVE  r = x /\ c = ByteOf(x) /\ x + 3 = e + 1
  <2>1. r \in Nat /\ f <= r /\ r + 3 = e + 1 /\ Begins(f, r)
        /\ ByteOf(r) = c /\ ByteOf(r + 1) = c /\ ByteOf(r + 2) = c
    BY <1>2 DEF LongRuns
  <2>2. ~(r < x)
    <3> SUFFICES ASSUME r < x PROVE FALSE
      OBVIOUS
    <3>1. x = r + 1 \/ x = r + 2
      BY <2>1 DEF RunIn
    <3> QED
      BY <3>1, <2>1 DEF RunIn, Begins
  <2>3. r = x /\ c = ByteOf(x)
    BY <2>1, <2>2, <1>2, LongInRun
  <2> QED
    BY <2>1, <2>3
<1>3. ASSUME c = ByteOf(x), x + 3 = e + 1 PROVE x \in LongRuns(f, e + 1, c)
  BY <1>3, RunIsLong
<1> QED
  BY <1>1, <1>2, <1>3

\* A run of a shorter input goes on, or is closed by the next byte.
LEMMA RunsOfMore ==
  ASSUME NEW f \in Nat, NEW e \in Nat, NEW x \in Nat, NEW y \in Nat,
         RunIn(f, e + 1, x, y)
  PROVE  \/ y <= e /\ RunIn(f, e, x, y)
         \/ y = e + 1 /\ x = e
         \/ y = e + 1 /\ RunIn(f, e, x, e) /\ ByteOf(e) = ByteOf(x) /\ ByteOf(e) = ByteOf(e - 1)
BY DEF RunIn

(***************************************************************************)
(* What the steps of _build do to the entries.                             *)
(***************************************************************************)
LEMMA ChainParts ==
  ASSUME NEW s \in RunChain
  PROVE  /\ s.runs \in [Indexes -> Entry] /\ s.heads \in [Byte -> Nat]
         /\ s.shift \in Int /\ s.built \in Nat /\ s.start \in Int
         /\ \A p \in Indexes : s.runs[p].dist \in Int /\ s.runs[p].len \in Int
BY DEF RunChain, Entry

\* Two states that have moved alike.
SamePlace(s, t) == t \in RunChain /\ t.shift = s.shift /\ t.built = s.built

LEMMA CloseRunDoes ==
  ASSUME NEW s \in RunChain, s.start \in Indexes, NEW e \in Int
  PROVE  LET t == Runs!CloseRun(s, e)
             n == s.runs[s.start].len
         IN /\ SamePlace(s, t) /\ t.heads = s.heads /\ t.start = s.start
            /\ \A p \in Indexes :
                 /\ t.runs[p].len = s.runs[p].len
                 /\ t.runs[p].dist = IF (n >= 2 /\ p = e - 1) \/ (n >= 3 /\ p = e - 2)
                                     THEN Runs!NoDist ELSE s.runs[p].dist
<1> DEFINE n == s.runs[s.start].len
           cond(p) == (n >= 2 /\ p = e - 1) \/ (n >= 3 /\ p = e - 2)
           new == [p \in Indexes |->
                     IF cond(p) THEN [s.runs[p] EXCEPT !.dist = Runs!NoDist] ELSE s.runs[p]]
<1>1. Runs!CloseRun(s, e) = [s EXCEPT !.runs = new]
  BY ChainParts DEF Runs!CloseRun
<1>2. /\ new \in [Indexes -> Entry]
      /\ \A p \in Indexes : /\ new[p].len = s.runs[p].len
                            /\ new[p].dist = IF cond(p) THEN Runs!NoDist ELSE s.runs[p].dist
  <2>1. Runs!NoDist \in Int
    BY Sizes DEF Runs!NoDist
  <2> HIDE DEF n
  <2> QED
    BY <2>1, ChainParts DEF Entry
<1> HIDE DEF new, cond
<1>3. /\ [s EXCEPT !.runs = new] \in RunChain
      /\ [s EXCEPT !.runs = new].runs = new
      /\ [s EXCEPT !.runs = new].heads = s.heads
      /\ [s EXCEPT !.runs = new].shift = s.shift
      /\ [s EXCEPT !.runs = new].built = s.built
      /\ [s EXCEPT !.runs = new].start = s.start
  BY <1>2 DEF RunChain
<1> QED
  BY <1>1, <1>2, <1>3 DEF SamePlace, cond

LEMMA OpenRunDoes ==
  ASSUME NEW s \in RunChain, NEW p \in Indexes
  PROVE  LET t == Runs!OpenRun(s, p)
         IN /\ SamePlace(s, t) /\ t.heads = s.heads /\ t.start = p
            /\ t.runs[p].dist = Runs!NoDist /\ t.runs[p].len = 1
            /\ \A k \in Indexes : k # p => t.runs[k] = s.runs[k]
<1> DEFINE e == [dist |-> Runs!NoDist, len |-> 1]
           new == [s.runs EXCEPT ![p] = e]
<1>0. [Runs!NoRun EXCEPT !.len = 1] = e
  BY DEF Runs!NoRun
<1>1. Runs!OpenRun(s, p) = [s EXCEPT !.runs = new, !.start = p]
  BY <1>0 DEF Runs!OpenRun
<1>2. e \in Entry /\ new \in [Indexes -> Entry] /\ new[p] = e
      /\ \A k \in Indexes : k # p => new[k] = s.runs[k]
  BY ChainParts, Sizes DEF Entry, Runs!NoDist
<1>3. p \in Int
  BY DEF Indexes
<1> HIDE DEF new
<1>4. /\ Runs!OpenRun(s, p) \in RunChain
      /\ Runs!OpenRun(s, p).runs = new
      /\ Runs!OpenRun(s, p).heads = s.heads
      /\ Runs!OpenRun(s, p).shift = s.shift
      /\ Runs!OpenRun(s, p).built = s.built
      /\ Runs!OpenRun(s, p).start = p
  BY <1>1, <1>2, <1>3 DEF RunChain
<1> QED
  BY <1>2, <1>4 DEF SamePlace

LEMMA GrowRunDoes ==
  ASSUME NEW s \in RunChain, NEW p \in Indexes, NEW c \in Byte,
         s.start \in Indexes, s.start < p
  PROVE  LET t == Runs!GrowRun(s, p, c)
             n == s.runs[s.start].len + 1
         IN /\ SamePlace(s, t) /\ t.start = s.start
            /\ \A d \in Byte :
                 t.heads[d] = IF n = 3 /\ d = c THEN s.start ELSE s.heads[d]
            /\ t.runs[p].dist = p - s.start /\ t.runs[p].len = 1
            /\ t.runs[s.start].len = n
            /\ t.runs[s.start].dist =
                 IF n = 3 THEN s.start - s.heads[c] ELSE s.runs[s.start].dist
            /\ \A k \in Indexes : k # p /\ k # s.start => t.runs[k] = s.runs[k]
<1> DEFINE n == s.runs[s.start].len + 1
           grown == [s EXCEPT !.runs[s.start].len = n,
                              !.runs[p] = [dist |-> p - s.start, len |-> 1]]
           t == Runs!GrowRun(s, p, c)
<1>0. p \in Int /\ p # s.start /\ s.start \in Nat
  BY DEF Indexes
<1>1. n \in Int
  BY ChainParts
<1>2. t = IF n = 3
          THEN [grown EXCEPT !.runs[s.start].dist = s.start - s.heads[c],
                             !.heads[c] = s.start]
          ELSE grown
  BY DEF Runs!GrowRun, Runs!MinMatch
<1> HIDE DEF n
<1> DEFINE new1 == [s.runs EXCEPT ![s.start].len = n]
           new == [new1 EXCEPT ![p] = [dist |-> p - s.start, len |-> 1]]
<1>6. grown = [s EXCEPT !.runs = new]
  OBVIOUS
<1>7. /\ new1 \in [Indexes -> Entry] /\ new1[s.start].len = n
      /\ new1[s.start].dist = s.runs[s.start].dist
      /\ \A k \in Indexes : k # s.start => new1[k] = s.runs[k]
  BY <1>0, <1>1, ChainParts DEF Entry
<1> HIDE DEF new1
<1>8. /\ new \in [Indexes -> Entry] /\ new[p].dist = p - s.start /\ new[p].len = 1
      /\ new[s.start].len = n /\ new[s.start].dist = s.runs[s.start].dist
      /\ \A k \in Indexes : k # p /\ k # s.start => new[k] = s.runs[k]
  BY <1>0, <1>1, <1>7 DEF Entry
<1> HIDE DEF new
<1>3. /\ grown \in RunChain /\ grown.heads = s.heads /\ grown.shift = s.shift
      /\ grown.built = s.built /\ grown.start = s.start
      /\ grown.runs[p].dist = p - s.start /\ grown.runs[p].len = 1
      /\ grown.runs[s.start].len = n
      /\ grown.runs[s.start].dist = s.runs[s.start].dist
      /\ \A k \in Indexes : k # p /\ k # s.start => grown.runs[k] = s.runs[k]
  BY <1>6, <1>8 DEF RunChain
<1> HIDE DEF grown, t
<1>4. CASE n = 3
  <2>1. t = [grown EXCEPT !.runs[s.start].dist = s.start - s.heads[c],
                          !.heads[c] = s.start]
    BY <1>2, <1>4
  <2>2. s.start - s.heads[c] \in Int
    BY <1>0, ChainParts
  <2>3. /\ t \in RunChain /\ t.shift = grown.shift
        /\ t.built = grown.built /\ t.start = grown.start
        /\ t.heads = [grown.heads EXCEPT ![c] = s.start]
        /\ t.runs[s.start].dist = s.start - s.heads[c]
        /\ t.runs[s.start].len = grown.runs[s.start].len
        /\ \A k \in Indexes : k # s.start => t.runs[k] = grown.runs[k]
    BY <1>0, <1>3, <2>1, <2>2, ZenonT(40) DEF RunChain, Entry
  <2>4. \A d \in Byte : t.heads[d] = IF d = c THEN s.start ELSE s.heads[d]
    BY <2>3, <1>3 DEF RunChain
  <2>5. t.runs[p] = grown.runs[p] /\ \A k \in Indexes : k # p /\ k # s.start => t.runs[k] = s.runs[k]
    BY <2>3, <1>3, <1>0
  <2>6. /\ SamePlace(s, t) /\ t.start = s.start
        /\ \A d \in Byte : t.heads[d] = IF n = 3 /\ d = c THEN s.start ELSE s.heads[d]
        /\ t.runs[p].dist = p - s.start /\ t.runs[p].len = 1
        /\ t.runs[s.start].len = n
        /\ t.runs[s.start].dist = IF n = 3 THEN s.start - s.heads[c] ELSE s.runs[s.start].dist
        /\ \A k \in Indexes : k # p /\ k # s.start => t.runs[k] = s.runs[k]
    BY <2>3, <2>4, <2>5, <1>3, <1>4 DEF SamePlace
  <2> QED
    BY <2>6 DEF n, t
<1>5. CASE n # 3
  <2>1. t = grown
    BY <1>2, <1>5
  <2>6. /\ SamePlace(s, t) /\ t.start = s.start
        /\ \A d \in Byte : t.heads[d] = IF n = 3 /\ d = c THEN s.start ELSE s.heads[d]
        /\ t.runs[p].dist = p - s.start /\ t.runs[p].len = 1
        /\ t.runs[s.start].len = n
        /\ t.runs[s.start].dist = IF n = 3 THEN s.start - s.heads[c] ELSE s.runs[s.start].dist
        /\ \A k \in Indexes : k # p /\ k # s.start => t.runs[k] = s.runs[k]
    BY <2>1, <1>3, <1>5 DEF SamePlace
  <2> QED
    BY <2>6 DEF n, t
<1> QED
  BY <1>4, <1>5

(***************************************************************************)
(* The loop of _build: each byte leaves what has been entered open.        *)
(***************************************************************************)
LEMMA FinishedSame ==
  ASSUME NEW s \in RunChain, NEW t \in RunChain, t.shift = s.shift,
         NEW x \in Nat, NEW y \in Nat, x < y, Finished(s, x, y),
         \A q \in x..(y - 1) : DistAt(t, q) = DistAt(s, q) /\ LenAt(t, q) = LenAt(s, q)
  PROVE  Finished(t, x, y)
<1>1. DistAt(t, x) = DistAt(s, x) /\ LenAt(t, x) = LenAt(s, x)
  OBVIOUS
<1>2. LeadsBack(s, x) => LeadsBack(t, x)
  BY <1>1 DEF LeadsBack, FirstOf
<1>3. /\ \A q \in x..(y - 1) : q >= y - 2 => DistAt(t, q) = Runs!NoDist
      /\ \A q \in (x + 1)..(y - 1) : LenAt(t, q) = 1 /\ (q < y - 2 => DistAt(t, q) = q - x)
  <2>1. (x + 1)..(y - 1) \subseteq x..(y - 1)
    OBVIOUS
  <2> QED
    BY <2>1 DEF Finished
<1>4. x + 3 <= y => LenAt(s, x) = y - x /\ LeadsBack(s, x)
  BY DEF Finished
<1> QED
  BY <1>1, <1>2, <1>3, <1>4 DEF Finished

AllFinished(s, b) ==
  \A x, y \in Nat : RunIn(FirstOf(s), b, x, y) /\ y < b => Finished(s, x, y)

\* t is s with the byte at b added to the run that begins at x.
Continues(s, t, b, x) ==
  /\ SamePlace(s, t)
  /\ t.start = x - s.shift
  /\ \A d \in Byte :
       t.heads[d] = IF b + 1 = x + 3 /\ d = ByteOf(b) THEN x - s.shift ELSE s.heads[d]
  /\ LenAt(t, x) = b + 1 - x
  /\ DistAt(t, x) = IF b + 1 = x + 3 THEN x - s.shift - s.heads[ByteOf(b)] ELSE DistAt(s, x)
  /\ \A q \in (x + 1)..b : LenAt(t, q) = 1 /\ DistAt(t, q) = q - x
  /\ \A q \in FirstOf(s)..(x - 1) : LenAt(t, q) = LenAt(s, q) /\ DistAt(t, q) = DistAt(s, q)

LEMMA LatestOf ==
  ASSUME NEW n, NEW set, NEW shift, Latest(n, set, shift), NEW more, more = set
  PROVE  Latest(n, more, shift)
OBVIOUS

LEMMA ContinuesOpen ==
  ASSUME NEW s \in RunChain, NEW t \in RunChain, FirstOf(s) \in Nat,
         NEW b \in Nat, NEW x \in Nat, ByteOf(b) \in Byte,
         AllFinished(s, b), HeadsLatest(s, b),
         RunIn(FirstOf(s), b, x, b), ByteOf(b) = ByteOf(x),
         IF x + 3 <= b THEN LeadsBack(s, x) ELSE DistAt(s, x) = Runs!NoDist,
         Continues(s, t, b, x)
  PROVE  OpenAt(t, b + 1)
<1> DEFINE f == FirstOf(s)
           c == ByteOf(b)
<1>0. /\ f \in Nat /\ s.shift \in Int /\ f = s.shift + Low /\ FirstOf(t) = f /\ t.shift = s.shift
      /\ x < b /\ f <= x
      /\ \A d \in Byte : s.heads[d] \in Nat
  BY ChainParts, Sizes DEF Continues, SamePlace, FirstOf, RunIn
<1>1. RunIn(f, b + 1, x, b + 1)
  BY DEF RunIn
<1>2. ASSUME NEW v \in Nat, NEW w \in Nat, RunIn(f, b + 1, v, w), w < b + 1
      PROVE  Finished(t, v, w)
  <2>1. w <= b /\ RunIn(f, b, v, w)
    BY <1>0, <1>2, RunsOfMore
  <2>2. w # b
    <3> SUFFICES ASSUME w = b PROVE FALSE
      OBVIOUS
    <3>1. v = x
      <4>1. b - 1 \in Nat /\ v <= b - 1 /\ x <= b - 1 /\ b - 1 < b
        BY <1>0, <2>1 DEF RunIn
      <4> QED
        BY <4>1, <2>1, <1>0, OneRun
    <3> QED
      BY <3>1, <1>2 DEF RunIn
  <2>3. w <= x
    <3> SUFFICES ASSUME x < w PROVE FALSE
      BY <2>1
    <3>1. w - 1 \in Nat /\ v <= w - 1 /\ w - 1 < w /\ x <= w - 1 /\ w - 1 < b
      BY <2>1 DEF RunIn
    <3> QED
      BY <3>1, <2>1, <2>2, <1>0, OneRun
  <2>4. Finished(s, v, w)
    BY <2>1, <2>2 DEF AllFinished
  <2>5. v < w /\ v..(w - 1) \subseteq f..(x - 1)
    BY <2>1, <2>3, <1>0 DEF RunIn
  <2>6. \A q \in v..(w - 1) : DistAt(t, q) = DistAt(s, q) /\ LenAt(t, q) = LenAt(s, q)
    BY <2>5 DEF Continues
  <2> QED
    BY <2>4, <2>5, <2>6, <1>0, FinishedSame
<1>3. ASSUME NEW d \in Byte PROVE Latest(t.heads[d], LongRuns(f, b + 1, d), s.shift)
  <2>1. /\ d = ByteOf(x) /\ x + 3 = b + 1 => LongRuns(f, b + 1, d) = LongRuns(f, b, d) \cup {x}
        /\ ~(d = ByteOf(x) /\ x + 3 = b + 1) => LongRuns(f, b + 1, d) = LongRuns(f, b, d)
    <3>1. f \in Nat
      BY <1>0
    <3> HIDE DEF f
    <3>2. LongRuns(f, b + 1, d) =
            IF d = ByteOf(x) /\ x + 3 = b + 1 THEN LongRuns(f, b, d) \cup {x}
            ELSE LongRuns(f, b, d)
      BY <3>1, <1>1, LongGrows, ZenonT(40)
    <3> QED
      BY <3>2
  <2>2. Latest(s.heads[d], LongRuns(f, b, d), s.shift)
    BY <1>3 DEF HeadsLatest
  <2>3. CASE d = c /\ b + 1 = x + 3
    <3>1. t.heads[d] = x - s.shift /\ LongRuns(f, b + 1, d) = LongRuns(f, b, d) \cup {x}
      BY <2>1, <2>3, <1>3 DEF Continues
    <3>2. \A r \in LongRuns(f, b, d) : r \in Nat /\ r + 3 <= b
      BY DEF LongRuns
    <3>3. Low <= t.heads[d] /\ t.heads[d] + s.shift = x
      BY <3>1, <1>0, Sizes
    <3> QED
      BY <3>1, <3>2, <3>3, <2>3 DEF Latest
  <2>4. CASE ~(d = c /\ b + 1 = x + 3)
    <3>1. t.heads[d] = s.heads[d] /\ LongRuns(f, b + 1, d) = LongRuns(f, b, d)
      BY <2>1, <2>4, <1>3 DEF Continues
    <3> QED
      BY <3>1, <2>2
  <2> QED
    BY <2>3, <2>4
<1>4. Growing(t, x, b + 1)
  <2>1. \A q \in (x + 1)..(b + 1 - 1) : LenAt(t, q) = 1 /\ DistAt(t, q) = q - x
    BY DEF Continues
  <2>2. LenAt(t, x) = b + 1 - x
    BY DEF Continues
  <2>3. CASE b + 1 < x + 3
    BY <2>1, <2>2, <2>3, <1>0, <1>1 DEF Growing, Continues
  <2>4. CASE b + 1 = x + 3
    <3>1. DistAt(t, x) = x - s.shift - s.heads[c]
      BY <2>4 DEF Continues
    <3>2. x - s.shift - DistAt(t, x) = s.heads[c]
      BY <3>1, <1>0
    <3>3. Latest(s.heads[c], LongRuns(f, b, c), s.shift)
      BY DEF HeadsLatest
    <3>4. LongRuns(f, b, c) = LongRuns(f, x, c)
      BY <2>4, <1>0, LongBeforeRun DEF RunIn
    <3>5. LeadsBack(t, x)
      BY <3>2, <3>3, <3>4, <1>0 DEF LeadsBack
    <3> QED
      BY <2>1, <2>2, <2>4, <3>5, <1>0, <1>1 DEF Growing
  <2>5. CASE b + 1 > x + 3
    <3>1. DistAt(t, x) = DistAt(s, x) /\ LeadsBack(s, x)
      BY <2>5, <1>0 DEF Continues
    <3>2. LeadsBack(t, x)
      BY <3>1, <1>0 DEF LeadsBack
    <3> QED
      BY <2>1, <2>2, <2>5, <3>2, <1>0, <1>1 DEF Growing
  <2> QED
    BY <2>3, <2>4, <2>5
<1>5. t.start + t.shift = x
  BY <1>0 DEF Continues
<1> HIDE DEF f
<1> QED
  BY <1>0, <1>2, <1>3, <1>4, <1>5 DEF OpenAt, HeadsLatest

OpenFrame(s) == s \in RunChain /\ FirstOf(s) \in Nat

LEMMA ShiftOf ==
  ASSUME NEW s, OpenFrame(s)
  PROVE  /\ s.shift \in Int /\ FirstOf(s) = s.shift + Low /\ FirstOf(s) \in Nat
         /\ s \in RunChain
         /\ \A q \in Nat : FirstOf(s) <= q /\ q - s.shift < Cap => q - s.shift \in Indexes
BY ChainParts, Sizes DEF OpenFrame, FirstOf, Indexes

LEMMA OpenRunOpens ==
  ASSUME NEW s, OpenFrame(s), NEW b \in Nat, ByteOf(b) \in Byte,
         FirstOf(s) <= b, b - s.shift < Cap, Begins(FirstOf(s), b),
         \A x, y \in Nat : RunIn(FirstOf(s), b, x, y) => Finished(s, x, y),
         HeadsLatest(s, b)
  PROVE  LET t == Runs!OpenRun(s, b - s.shift)
         IN SamePlace(s, t) /\ OpenAt(t, b + 1)
<1> DEFINE f == FirstOf(s)
           p == b - s.shift
           t == Runs!OpenRun(s, p)
<1>0. /\ s.shift \in Int /\ f = s.shift + Low /\ f \in Nat /\ s \in RunChain
      /\ p \in Indexes /\ f <= b
      /\ \A q \in Nat : f <= q /\ q - s.shift < Cap => q - s.shift \in Indexes
  BY ShiftOf
<1>1. /\ SamePlace(s, t) /\ t.heads = s.heads /\ t.start = p
      /\ t.runs[p].dist = Runs!NoDist /\ t.runs[p].len = 1
      /\ \A k \in Indexes : k # p => t.runs[k] = s.runs[k]
  BY <1>0, OpenRunDoes
<1> HIDE DEF t
<1>2. t \in RunChain /\ t.shift = s.shift /\ FirstOf(t) = f
  BY <1>1 DEF SamePlace, FirstOf
<1>3. RunIn(f, b + 1, b, b + 1)
  BY <1>0 DEF RunIn
<1>4. ASSUME NEW x \in Nat, NEW y \in Nat, RunIn(f, b + 1, x, y), y < b + 1
      PROVE  Finished(t, x, y)
  <2>1. y <= b /\ RunIn(f, b, x, y)
    BY <1>0, <1>4, RunsOfMore
  <2>2. Finished(s, x, y) /\ x < y /\ f <= x
    BY <2>1 DEF RunIn
  <2>3. ASSUME NEW q \in x..(y - 1) PROVE DistAt(t, q) = DistAt(s, q) /\ LenAt(t, q) = LenAt(s, q)
    <3>1. q \in Nat /\ f <= q /\ q < b
      BY <1>0, <2>1, <2>2, <2>3
    <3>2. q - s.shift \in Indexes /\ q - s.shift # p
      BY <3>1, <1>0, Sizes
    <3> QED
      BY <3>2, <1>1, <1>2 DEF DistAt, LenAt
  <2> QED
    BY <2>2, <2>3, <1>0, <1>2, FinishedSame
<1>5. ASSUME NEW d \in Byte PROVE Latest(t.heads[d], LongRuns(f, b + 1, d), s.shift)
  <2>1. LongRuns(f, b + 1, d) = LongRuns(f, b, d)
    <3>1. f \in Nat /\ b + 3 # b + 1
      BY <1>0
    <3> HIDE DEF f
    <3> QED
      BY <3>1, <1>3, LongGrows
  <2> QED
    BY <2>1, <1>1, <1>5 DEF HeadsLatest
<1>6. Growing(t, b, b + 1)
  BY <1>0, <1>1, <1>2, <1>3 DEF Growing, DistAt, LenAt
<1>7. t.start + t.shift = b
  BY <1>0, <1>1, <1>2
<1>8. OpenAt(t, b + 1)
  <2> HIDE DEF f
  <2> QED
    BY <1>2, <1>4, <1>5, <1>6, <1>7 DEF OpenAt, HeadsLatest
<1> QED
  BY <1>1, <1>8 DEF t

\* What follows the loop, and a byte that ends a run, finishes that run.
LEMMA CloseRunCloses ==
  ASSUME NEW s, OpenFrame(s), NEW b \in Nat, b - s.shift <= Cap, OpenAt(s, b)
  PROVE  LET t == Runs!CloseRun(s, b - s.shift)
         IN /\ SamePlace(s, t) /\ HeadsLatest(t, b) /\ FirstOf(t) = FirstOf(s)
            /\ \A x, y \in Nat : RunIn(FirstOf(s), b, x, y) => Finished(t, x, y)
            /\ \A x \in Nat : RunIn(FirstOf(s), b, x, b) => LenAt(t, x) = b - x
<1> DEFINE f == FirstOf(s)
           e == b - s.shift
           t == Runs!CloseRun(s, e)
           v == s.start + s.shift
           n == b - v
<1>0. /\ s.shift \in Int /\ f = s.shift + Low /\ f \in Nat /\ s \in RunChain
      /\ \A q \in Nat : f <= q /\ q - s.shift < Cap => q - s.shift \in Indexes
  BY ShiftOf
<1>1. /\ v \in Nat /\ RunIn(f, b, v, b) /\ LenAt(s, v) = n /\ Growing(s, v, b)
  BY DEF OpenAt, Growing
<1>2. f <= v /\ v < b /\ s.start = v - s.shift /\ s.start \in Indexes /\ s.start \in Int
  <2>1. f <= v /\ v < b
    BY <1>1 DEF RunIn
  <2>2. s.start = v - s.shift /\ s.start \in Int
    BY ChainParts, <1>0
  <2>3. v - s.shift < Cap
    BY <2>1, <1>0, <1>1, Sizes
  <2> QED
    BY <2>1, <2>2, <2>3, <1>0, <1>1
<1> DEFINE last(q) == (n >= 2 /\ q = b - 1) \/ (n >= 3 /\ q = b - 2)
<1>3. /\ SamePlace(s, t) /\ t.heads = s.heads
      /\ \A p \in Indexes :
           /\ t.runs[p].len = s.runs[p].len
           /\ t.runs[p].dist = IF (n >= 2 /\ p = e - 1) \/ (n >= 3 /\ p = e - 2)
                               THEN Runs!NoDist ELSE s.runs[p].dist
  <2>1. s.runs[s.start].len = n /\ e \in Int
    BY <1>0, <1>1, <1>2 DEF LenAt
  <2> HIDE DEF n, e
  <2> QED
    BY <2>1, <1>0, <1>2, CloseRunDoes
<1> HIDE DEF t
<1>4. t \in RunChain /\ t.shift = s.shift /\ FirstOf(t) = f
  BY <1>3 DEF SamePlace, FirstOf
<1>5. ASSUME NEW q \in Nat, f <= q, q < b
      PROVE  LenAt(t, q) = LenAt(s, q)
             /\ DistAt(t, q) = IF last(q) THEN Runs!NoDist ELSE DistAt(s, q)
  <2>1. q - s.shift \in Indexes
    BY <1>0, <1>5, Sizes
  <2>2. (q - s.shift = e - 1 <=> q = b - 1) /\ (q - s.shift = e - 2 <=> q = b - 2)
    BY <1>0, <1>5
  <2> HIDE DEF e
  <2> QED
    BY <2>1, <2>2, <1>3, <1>4 DEF DistAt, LenAt
<1>6. ASSUME NEW x \in Nat, NEW y \in Nat, RunIn(f, b, x, y) PROVE Finished(t, x, y)
  <2>0. f <= x /\ x < y /\ y <= b
    BY <1>6 DEF RunIn
  <2>1. CASE y # b
    <3>1. y <= v
      <4> SUFFICES ASSUME v < y PROVE FALSE
        BY <2>0, <1>1
      <4>1. y - 1 \in Nat /\ x <= y - 1 /\ y - 1 < y /\ v <= y - 1 /\ y - 1 < b
        BY <2>0, <1>1
      <4> QED
        BY <4>1, <2>1, <1>0, <1>1, <1>6, OneRun, ZenonT(40)
    <3>2. Finished(s, x, y)
      BY <2>0, <2>1, <1>6 DEF OpenAt
    <3>3. ASSUME NEW q \in x..(y - 1) PROVE DistAt(t, q) = DistAt(s, q) /\ LenAt(t, q) = LenAt(s, q)
      <4>1. q \in Nat /\ f <= q /\ q < v /\ q < b
        BY <3>1, <3>3, <2>0, <1>0, <1>1, <1>2
      <4>2. ~last(q)
        BY <4>1, <1>1
      <4> QED
        BY <4>1, <4>2, <1>5
    <3> QED
      BY <3>2, <3>3, <2>0, <1>0, <1>4, FinishedSame
  <2>2. CASE y = b
    <3>1. x = v
      <4>1. b - 1 \in Nat /\ x <= b - 1 /\ v <= b - 1 /\ b - 1 < b
        BY <2>0, <2>2, <1>1, <1>2
      <4> QED
        BY <4>1, <2>2, <1>0, <1>1, <1>6, OneRun
    <3>2. /\ \A q \in (v + 1)..(b - 1) : LenAt(s, q) = 1 /\ DistAt(s, q) = q - v
          /\ IF v + 3 <= b THEN LeadsBack(s, v) ELSE DistAt(s, v) = Runs!NoDist
      BY <1>1 DEF Growing
    <3>3. ASSUME NEW q \in v..(b - 1), q >= b - 2 PROVE DistAt(t, q) = Runs!NoDist
      <4>1. q \in Nat /\ f <= q /\ q < b
        BY <3>3, <1>1, <1>2, <1>0
      <4>2. CASE last(q)
        BY <4>1, <4>2, <1>5
      <4>3. CASE ~last(q)
        <5>1. q = v /\ ~(v + 3 <= b)
          BY <4>1, <4>3, <3>3, <1>1, <1>2
        <5> QED
          BY <5>1, <4>1, <4>3, <3>2, <1>5
      <4> QED
        BY <4>2, <4>3
    <3>4. ASSUME NEW q \in (v + 1)..(b - 1)
          PROVE  LenAt(t, q) = 1 /\ (q < b - 2 => DistAt(t, q) = q - v)
      <4>1. q \in Nat /\ f <= q /\ q < b
        BY <3>4, <1>1, <1>2, <1>0
      <4>2. q < b - 2 => ~last(q)
        BY <4>1
      <4> HIDE DEF last
      <4> QED
        BY <4>1, <4>2, <3>2, <1>5
    <3>5. ASSUME v + 3 <= b PROVE LenAt(t, v) = b - v /\ LeadsBack(t, v)
      <4>1. ~last(v)
        BY <3>5, <1>1
      <4>2. LenAt(t, v) = LenAt(s, v) /\ DistAt(t, v) = DistAt(s, v)
        BY <4>1, <1>1, <1>2, <1>5
      <4> QED
        BY <4>2, <3>2, <3>5, <1>1, <1>4 DEF LeadsBack
    <3> HIDE DEF v
    <3> QED
      BY <3>1, <3>3, <3>4, <3>5, <2>2 DEF Finished
  <2> QED
    BY <2>1, <2>2
<1>7. HeadsLatest(t, b)
  BY <1>3, <1>4 DEF OpenAt, HeadsLatest
<1>8. ASSUME NEW x \in Nat, RunIn(f, b, x, b) PROVE LenAt(t, x) = b - x
  <2>1. x = v
    <3>1. b - 1 \in Nat /\ x <= b - 1 /\ v <= b - 1 /\ b - 1 < b
      BY <1>1, <1>2, <1>8 DEF RunIn
    <3> QED
      BY <3>1, <1>0, <1>1, <1>8, OneRun
  <2> QED
    BY <2>1, <1>1, <1>2, <1>5
<1>9. /\ \A x, y \in Nat : RunIn(f, b, x, y) => Finished(t, x, y)
      /\ \A x \in Nat : RunIn(f, b, x, b) => LenAt(t, x) = b - x
  BY <1>6, <1>8
<1>10. SamePlace(s, t) /\ HeadsLatest(t, b) /\ FirstOf(t) = f
  BY <1>3, <1>4, <1>7
<1> QED
  BY <1>9, <1>10 DEF t

LEMMA GrowRunOpens ==
  ASSUME NEW s, OpenFrame(s), NEW b \in Nat, ByteOf(b) \in Byte,
         b - s.shift < Cap, OpenAt(s, b), ByteOf(b) = ByteOf(b - 1)
  PROVE  LET t == Runs!GrowRun(s, b - s.shift, ByteOf(b))
         IN SamePlace(s, t) /\ OpenAt(t, b + 1)
<1> DEFINE f == FirstOf(s)
           p == b - s.shift
           c == ByteOf(b)
           t == Runs!GrowRun(s, p, c)
           x == s.start + s.shift
<1>0. /\ s.shift \in Int /\ f = s.shift + Low /\ f \in Nat /\ s \in RunChain
      /\ \A q \in Nat : f <= q /\ q - s.shift < Cap => q - s.shift \in Indexes
      /\ s.start \in Int /\ s.start = x - s.shift
  BY ShiftOf, ChainParts
<1>1. /\ x \in Nat /\ RunIn(f, b, x, b) /\ LenAt(s, x) = b - x
      /\ \A q \in (x + 1)..(b - 1) : LenAt(s, q) = 1 /\ DistAt(s, q) = q - x
      /\ IF x + 3 <= b THEN LeadsBack(s, x) ELSE DistAt(s, x) = Runs!NoDist
      /\ AllFinished(s, b) /\ HeadsLatest(s, b)
  BY DEF OpenAt, Growing, AllFinished
<1> HIDE DEF x
<1>2. f <= x /\ x < b /\ ByteOf(b) = ByteOf(x)
  <2>1. f <= x /\ x < b /\ ByteOf(b - 1) = ByteOf(x)
    BY <1>1 DEF RunIn
  <2> QED
    BY <2>1
<1>3. s.start \in Indexes /\ p \in Indexes /\ s.start < p
  BY <1>0, <1>1, <1>2, Sizes
<1>4. s.runs[s.start].len + 1 = b + 1 - x
  BY <1>0, <1>1 DEF LenAt
<1>5. /\ SamePlace(s, t) /\ t.start = s.start
      /\ \A d \in Byte :
           t.heads[d] = IF b + 1 - x = 3 /\ d = c THEN s.start ELSE s.heads[d]
      /\ t.runs[p].dist = p - s.start /\ t.runs[p].len = 1
      /\ t.runs[s.start].len = b + 1 - x
      /\ t.runs[s.start].dist =
           IF b + 1 - x = 3 THEN s.start - s.heads[c] ELSE s.runs[s.start].dist
      /\ \A k \in Indexes : k # p /\ k # s.start => t.runs[k] = s.runs[k]
  <2> HIDE DEF p, c
  <2> QED
    BY <1>0, <1>3, <1>4, GrowRunDoes DEF c
<1> HIDE DEF t
<1>6. t \in RunChain /\ t.shift = s.shift
  BY <1>5 DEF SamePlace
<1>7. b + 1 - x = 3 <=> b + 1 = x + 3
  BY <1>1
<1>8. LenAt(t, x) = b + 1 - x
  BY <1>0, <1>5, <1>6 DEF LenAt
<1>9. DistAt(t, x) = IF b + 1 = x + 3 THEN x - s.shift - s.heads[c] ELSE DistAt(s, x)
  BY <1>0, <1>5, <1>6, <1>7 DEF DistAt
<1>10. ASSUME NEW q \in (x + 1)..b PROVE LenAt(t, q) = 1 /\ DistAt(t, q) = q - x
  <2>1. CASE q = b
    <3>1. p - s.start = b - x
      BY <1>0, <1>1
    <3> QED
      BY <2>1, <3>1, <1>5, <1>6 DEF DistAt, LenAt
  <2>2. CASE q # b
    <3>1. q \in (x + 1)..(b - 1) /\ q \in Nat /\ f <= q /\ q < b
      BY <2>2, <1>0, <1>1, <1>2, <1>10
    <3>2. q - s.shift \in Indexes /\ q - s.shift # p /\ q - s.shift # s.start
      BY <3>1, <1>0, <1>1, Sizes
    <3> QED
      BY <3>1, <3>2, <1>1, <1>5, <1>6 DEF DistAt, LenAt
  <2> QED
    BY <2>1, <2>2
<1>11. ASSUME NEW q \in f..(x - 1) PROVE LenAt(t, q) = LenAt(s, q) /\ DistAt(t, q) = DistAt(s, q)
  <2>1. q \in Nat /\ f <= q /\ q < x
    BY <1>0, <1>1, <1>11
  <2>2. q - s.shift \in Indexes /\ q - s.shift # p /\ q - s.shift # s.start
    BY <2>1, <1>0, <1>1, <1>2, Sizes
  <2> QED
    BY <2>2, <1>5, <1>6 DEF DistAt, LenAt
<1>12. \A d \in Byte :
         t.heads[d] = IF b + 1 = x + 3 /\ d = ByteOf(b) THEN x - s.shift ELSE s.heads[d]
  BY <1>0, <1>5, <1>7
<1>13. Continues(s, t, b, x)
  <2>1. t.start = x - s.shift
    BY <1>0, <1>5
  <2> QED
    BY <2>1, <1>5, <1>8, <1>9, <1>10, <1>11, <1>12 DEF Continues
<1>14. OpenAt(t, b + 1)
  BY <1>0, <1>1, <1>2, <1>6, <1>13, ContinuesOpen
<1> QED
  BY <1>5, <1>14 DEF t

LEMMA NextByteOpens ==
  ASSUME NEW s, OpenFrame(s), NEW b \in Nat, ByteOf(b) \in Byte,
         b - s.shift < Cap, OpenAt(s, b),
         NEW p \in Int, NEW i \in Int, s.built + i = b, p + i = b - s.shift
  PROVE  SamePlace(s, Runs!NextByte(s, p, i)) /\ OpenAt(Runs!NextByte(s, p, i), b + 1)
<1>0. /\ s.shift \in Int /\ FirstOf(s) \in Nat /\ s \in RunChain /\ s.built \in Nat
      /\ s.built + i - 1 = b - 1
  BY ShiftOf, ChainParts
<1>1. CASE ByteOf(b) = ByteOf(b - 1)
  <2>1. Runs!NextByte(s, p, i) = Runs!GrowRun(s, b - s.shift, ByteOf(b))
    BY <1>0, <1>1 DEF Runs!NextByte, ByteOf
  <2> QED
    BY <2>1, <1>1, GrowRunOpens
<1>2. CASE ByteOf(b) # ByteOf(b - 1)
  <2> DEFINE u == Runs!CloseRun(s, b - s.shift)
  <2>1. Runs!NextByte(s, p, i) = Runs!OpenRun(u, b - s.shift)
    BY <1>0, <1>2 DEF Runs!NextByte, ByteOf
  <2>2. /\ SamePlace(s, u) /\ HeadsLatest(u, b) /\ FirstOf(u) = FirstOf(s)
        /\ \A x, y \in Nat : RunIn(FirstOf(s), b, x, y) => Finished(u, x, y)
    <3>1. b - s.shift <= Cap
      BY <1>0, Sizes
    <3> QED
      BY <3>1, CloseRunCloses
  <2> HIDE DEF u
  <2>3. u \in RunChain /\ u.shift = s.shift /\ u.built = s.built /\ OpenFrame(u)
    BY <1>0, <2>2 DEF SamePlace, OpenFrame
  <2>4. FirstOf(u) <= b /\ Begins(FirstOf(u), b)
    <3>1. RunIn(FirstOf(s), b, s.start + s.shift, b) /\ s.start + s.shift \in Nat
      BY DEF OpenAt, Growing
    <3> QED
      BY <3>1, <1>0, <1>2, <2>2 DEF RunIn, Begins
  <2>5. SamePlace(u, Runs!OpenRun(u, b - u.shift)) /\ OpenAt(Runs!OpenRun(u, b - u.shift), b + 1)
    BY <2>2, <2>3, <2>4, OpenRunOpens
  <2> QED
    BY <2>1, <2>3, <2>5 DEF SamePlace
<1> QED
  BY <1>1, <1>2

LEMMA ContinuesIs ==
  ASSUME NEW s, OpenFrame(s), NEW b \in Nat, b - s.shift < Cap,
         NEW x \in Nat, FirstOf(s) <= x, x < b,
         NEW t, SamePlace(s, t), NEW v \in Int, v = x - s.shift, t.start = v,
         \A d \in Byte :
           t.heads[d] = IF b + 1 = x + 3 /\ d = ByteOf(b) THEN v ELSE s.heads[d],
         t.runs[v].len = b + 1 - x,
         t.runs[v].dist = IF b + 1 = x + 3 THEN v - s.heads[ByteOf(b)] ELSE s.runs[v].dist,
         \A k \in Indexes : v < k /\ k <= b - s.shift =>
                              t.runs[k].len = 1 /\ t.runs[k].dist = k - v,
         \A k \in Indexes : k < v => t.runs[k] = s.runs[k]
  PROVE  Continues(s, t, b, x)
<1>0. /\ s.shift \in Int /\ FirstOf(s) \in Nat /\ FirstOf(s) = s.shift + Low
      /\ \A q \in Nat : FirstOf(s) <= q /\ q - s.shift < Cap => q - s.shift \in Indexes
      /\ t.shift = s.shift
  BY ShiftOf DEF SamePlace
<1>1. ASSUME NEW q \in (x + 1)..b PROVE LenAt(t, q) = 1 /\ DistAt(t, q) = q - x
  <2>1. q \in Nat /\ q - s.shift \in Indexes /\ v < q - s.shift /\ q - s.shift <= b - s.shift
        /\ (q - s.shift) - v = q - x
    BY <1>0, <1>1, Sizes
  <2> QED
    BY <2>1, <1>0 DEF LenAt, DistAt
<1>2. ASSUME NEW q \in FirstOf(s)..(x - 1)
      PROVE  LenAt(t, q) = LenAt(s, q) /\ DistAt(t, q) = DistAt(s, q)
  <2>1. q \in Nat /\ q - s.shift \in Indexes /\ q - s.shift < v
    BY <1>0, <1>2, Sizes
  <2> QED
    BY <2>1, <1>0 DEF LenAt, DistAt
<1>3. LenAt(t, x) = b + 1 - x /\ LenAt(s, x) = s.runs[v].len /\ DistAt(s, x) = s.runs[v].dist
      /\ DistAt(t, x) = t.runs[v].dist
  BY <1>0 DEF LenAt, DistAt
<1> QED
  BY <1>1, <1>2, <1>3 DEF Continues

\* The cases of the first byte: what the branch for a run of one byte does.
SecondOfRun(s, p) ==
  [s EXCEPT !.start = p - 1,
            !.runs[p] = [dist |-> 1, len |-> 1],
            !.runs[p - 1].len = @ + 1]

LEMMA FirstByteTwo ==
  ASSUME NEW s \in RunChain, NEW p \in Indexes, p - 1 \in Indexes
  PROVE  LET t == SecondOfRun(s, p)
         IN /\ SamePlace(s, t) /\ t.start = p - 1 /\ t.heads = s.heads
            /\ t.runs[p].dist = 1 /\ t.runs[p].len = 1
            /\ t.runs[p - 1].len = s.runs[p - 1].len + 1
            /\ t.runs[p - 1].dist = s.runs[p - 1].dist
            /\ \A k \in Indexes : k # p /\ k # p - 1 => t.runs[k] = s.runs[k]
<1> DEFINE t == SecondOfRun(s, p)
           e == [dist |-> 1, len |-> 1]
           new1 == [s.runs EXCEPT ![p] = e]
           new2 == [new1 EXCEPT ![p - 1].len = s.runs[p - 1].len + 1]
<1>0. p \in Nat /\ p # p - 1 /\ e \in Entry
  BY DEF Indexes, Entry
<1>1. t.runs = new2
  BY <1>0 DEF SecondOfRun
<1>11. t = [s EXCEPT !.start = p - 1,
                    !.runs[p] = [dist |-> 1, len |-> 1],
                    !.runs[p - 1].len = @ + 1]
  BY DEF SecondOfRun
<1> HIDE DEF t
<1>10. t = [runs |-> t.runs, heads |-> s.heads, shift |-> s.shift,
            built |-> s.built, start |-> p - 1]
  BY <1>11 DEF RunChain
<1>2. /\ new1 \in [Indexes -> Entry] /\ new1[p] = e
      /\ \A k \in Indexes : k # p => new1[k] = s.runs[k]
  BY <1>0, ChainParts
<1> HIDE DEF new1
<1>3. /\ new2 \in [Indexes -> Entry]
      /\ new2[p - 1].len = s.runs[p - 1].len + 1 /\ new2[p - 1].dist = new1[p - 1].dist
      /\ \A k \in Indexes : k # p - 1 => new2[k] = new1[k]
  <2>1. new1[p - 1] \in Entry
    BY <1>2
  <2>2. [new1[p - 1] EXCEPT !.len = s.runs[p - 1].len + 1] \in Entry
    BY <2>1, ChainParts DEF Entry
  <2> QED
    BY <1>2, <2>1, <2>2 DEF Entry
<1> HIDE DEF new2
<1>4. /\ t \in RunChain /\ t.runs = new2 /\ t.heads = s.heads /\ t.shift = s.shift
      /\ t.built = s.built /\ t.start = p - 1
  BY <1>0, <1>10, <1>1, <1>3, ChainParts DEF RunChain
<1> QED
  BY <1>0, <1>2, <1>3, <1>4 DEF SamePlace, t

\* Of two.
ThirdOfRun(s, p, c) ==
  [s EXCEPT !.start = p - 2,
            !.runs[p - 2] = [dist |-> p - 2 - s.heads[c], len |-> @.len + 1],
            !.runs[p - 1].dist = 1,
            !.runs[p] = [dist |-> 2, len |-> 1],
            !.heads[c] = p - 2]

LEMMA FirstByteThree ==
  ASSUME NEW s \in RunChain, NEW p \in Indexes, p - 1 \in Indexes, p - 2 \in Indexes,
         NEW c \in Byte
  PROVE  LET t == ThirdOfRun(s, p, c)
         IN /\ SamePlace(s, t) /\ t.start = p - 2
            /\ \A d \in Byte : t.heads[d] = IF d = c THEN p - 2 ELSE s.heads[d]
            /\ t.runs[p].dist = 2 /\ t.runs[p].len = 1
            /\ t.runs[p - 1].dist = 1 /\ t.runs[p - 1].len = s.runs[p - 1].len
            /\ t.runs[p - 2].len = s.runs[p - 2].len + 1
            /\ t.runs[p - 2].dist = p - 2 - s.heads[c]
            /\ \A k \in Indexes : k < p - 2 => t.runs[k] = s.runs[k]
<1> DEFINE t == ThirdOfRun(s, p, c)
           e == [dist |-> p - 2 - s.heads[c], len |-> s.runs[p - 2].len + 1]
           new1 == [s.runs EXCEPT ![p - 2] = e]
           new2 == [new1 EXCEPT ![p - 1].dist = 1]
           new3 == [new2 EXCEPT ![p] = [dist |-> 2, len |-> 1]]
           more == [s.heads EXCEPT ![c] = p - 2]
<1>0. p \in Nat /\ p - 2 \in Nat /\ e \in Entry /\ [dist |-> 2, len |-> 1] \in Entry
  BY ChainParts DEF Indexes, Entry
<1>1. t.runs = new3 /\ t.heads = more
  <2>1. t.runs = new3
    BY <1>0 DEF ThirdOfRun
  <2>2. t.heads = more
    BY <1>0 DEF ThirdOfRun
  <2> QED
    BY <2>1, <2>2
<1>11. t = [s EXCEPT !.start = p - 2,
                    !.runs[p - 2] = [dist |-> p - 2 - s.heads[c], len |-> @.len + 1],
                    !.runs[p - 1].dist = 1,
                    !.runs[p] = [dist |-> 2, len |-> 1],
                    !.heads[c] = p - 2]
  BY DEF ThirdOfRun
<1> HIDE DEF t
<1>10. t = [runs |-> t.runs, heads |-> t.heads, shift |-> s.shift,
            built |-> s.built, start |-> p - 2]
  BY <1>11 DEF RunChain
<1>2. /\ new1 \in [Indexes -> Entry] /\ new1[p - 2] = e
      /\ \A k \in Indexes : k # p - 2 => new1[k] = s.runs[k]
  BY <1>0, ChainParts
<1> HIDE DEF new1
<1>3. /\ new2 \in [Indexes -> Entry]
      /\ new2[p - 1].len = new1[p - 1].len /\ new2[p - 1].dist = 1
      /\ \A k \in Indexes : k # p - 1 => new2[k] = new1[k]
  <2>1. new1[p - 1] \in Entry
    BY <1>2
  <2>2. [new1[p - 1] EXCEPT !.dist = 1] \in Entry
    BY <2>1 DEF Entry
  <2> QED
    BY <1>2, <2>1, <2>2 DEF Entry
<1> HIDE DEF new2
<1>4. /\ new3 \in [Indexes -> Entry]
      /\ new3[p].len = 1 /\ new3[p].dist = 2
      /\ \A k \in Indexes : k # p => new3[k] = new2[k]
  BY <1>0, <1>3
<1> HIDE DEF new3
<1>5. more \in [Byte -> Nat] /\ \A d \in Byte : more[d] = IF d = c THEN p - 2 ELSE s.heads[d]
  BY <1>0, ChainParts
<1> HIDE DEF more
<1>6. /\ t \in RunChain /\ t.runs = new3 /\ t.heads = more /\ t.shift = s.shift
      /\ t.built = s.built /\ t.start = p - 2
  BY <1>0, <1>10, <1>1, <1>4, <1>5, ChainParts DEF RunChain
<1> QED
  BY <1>0, <1>2, <1>3, <1>4, <1>5, <1>6 DEF SamePlace, t

\* Of three and more, the first of which is at the index v.
NextOfRun(s, p, v) ==
  [s EXCEPT !.start = v,
            !.runs[p - 2].dist = p - v - 2,
            !.runs[p - 1].dist = p - v - 1,
            !.runs[p] = [dist |-> p - v, len |-> 1],
            !.runs[v].len = @ + 1]

LEMMA FirstByteLong ==
  ASSUME NEW s \in RunChain, NEW p \in Indexes, p - 1 \in Indexes, p - 2 \in Indexes,
         NEW v \in Indexes, v < p - 2
  PROVE  LET t == NextOfRun(s, p, v)
         IN /\ SamePlace(s, t) /\ t.start = v /\ t.heads = s.heads
            /\ t.runs[p].dist = p - v /\ t.runs[p].len = 1
            /\ t.runs[p - 1].dist = p - v - 1 /\ t.runs[p - 1].len = s.runs[p - 1].len
            /\ t.runs[p - 2].dist = p - v - 2 /\ t.runs[p - 2].len = s.runs[p - 2].len
            /\ t.runs[v].len = s.runs[v].len + 1 /\ t.runs[v].dist = s.runs[v].dist
            /\ \A k \in Indexes : k < p - 2 /\ k # v => t.runs[k] = s.runs[k]
<1> DEFINE t == NextOfRun(s, p, v)
           e == [dist |-> p - v, len |-> 1]
           new1 == [s.runs EXCEPT ![p - 2].dist = p - v - 2]
           new2 == [new1 EXCEPT ![p - 1].dist = p - v - 1]
           new3 == [new2 EXCEPT ![p] = e]
           new4 == [new3 EXCEPT ![v].len = s.runs[v].len + 1]
<1>0. p \in Nat /\ p - 2 \in Nat /\ v \in Nat /\ e \in Entry
  BY DEF Indexes, Entry
<1>1. t.runs = new4
  BY <1>0 DEF NextOfRun
<1>11. t = [s EXCEPT !.start = v,
                    !.runs[p - 2].dist = p - v - 2,
                    !.runs[p - 1].dist = p - v - 1,
                    !.runs[p] = [dist |-> p - v, len |-> 1],
                    !.runs[v].len = @ + 1]
  BY DEF NextOfRun
<1> HIDE DEF t
<1>10. t = [runs |-> t.runs, heads |-> s.heads, shift |-> s.shift,
            built |-> s.built, start |-> v]
  BY <1>11 DEF RunChain
<1>2. /\ new1 \in [Indexes -> Entry]
      /\ new1[p - 2].dist = p - v - 2 /\ new1[p - 2].len = s.runs[p - 2].len
      /\ \A k \in Indexes : k # p - 2 => new1[k] = s.runs[k]
  <2>1. s.runs \in [Indexes -> Entry] /\ s.runs[p - 2] \in Entry
    BY ChainParts
  <2>2. [s.runs[p - 2] EXCEPT !.dist = p - v - 2] \in Entry
    BY <2>1, <1>0 DEF Entry
  <2> QED
    BY <2>1, <2>2 DEF Entry
<1> HIDE DEF new1
<1>3. /\ new2 \in [Indexes -> Entry]
      /\ new2[p - 1].len = new1[p - 1].len /\ new2[p - 1].dist = p - v - 1
      /\ \A k \in Indexes : k # p - 1 => new2[k] = new1[k]
  <2>1. new1[p - 1] \in Entry
    BY <1>2
  <2>2. [new1[p - 1] EXCEPT !.dist = p - v - 1] \in Entry
    BY <2>1, <1>0 DEF Entry
  <2> QED
    BY <1>2, <2>1, <2>2 DEF Entry
<1> HIDE DEF new2
<1>4. /\ new3 \in [Indexes -> Entry]
      /\ new3[p].len = 1 /\ new3[p].dist = p - v
      /\ \A k \in Indexes : k # p => new3[k] = new2[k]
  BY <1>0, <1>3
<1> HIDE DEF new3
<1>5. /\ new4 \in [Indexes -> Entry]
      /\ new4[v].len = s.runs[v].len + 1 /\ new4[v].dist = new3[v].dist
      /\ \A k \in Indexes : k # v => new4[k] = new3[k]
  <2>1. new3[v] \in Entry
    BY <1>4
  <2>2. [new3[v] EXCEPT !.len = s.runs[v].len + 1] \in Entry
    BY <2>1, ChainParts DEF Entry
  <2> QED
    BY <1>4, <2>1, <2>2 DEF Entry
<1> HIDE DEF new4
<1>6. /\ t \in RunChain /\ t.runs = new4 /\ t.heads = s.heads /\ t.shift = s.shift
      /\ t.built = s.built /\ t.start = v
  <2>1. /\ s.heads \in [Byte -> Nat] /\ s.shift \in Int /\ s.built \in Nat
        /\ v \in Int /\ new4 \in [Indexes -> Entry]
    BY <1>0, <1>5, ChainParts
  <2>2. t = [runs |-> new4, heads |-> s.heads, shift |-> s.shift,
             built |-> s.built, start |-> v]
    BY <1>1, <1>10
  <2>3. t \in RunChain
    BY <2>1, <2>2 DEF RunChain
  <2> HIDE DEF RunChain
  <2> QED
    BY <2>2, <2>3, <1>1
<1>7. v # p /\ v # p - 1 /\ v # p - 2 /\ p # p - 1 /\ p # p - 2 /\ p - 1 # p - 2
  BY <1>0
<1>8. /\ new4[p] = new3[p] /\ new4[p - 1] = new2[p - 1] /\ new4[p - 2] = new1[p - 2]
      /\ new3[v] = s.runs[v] /\ new1[p - 1] = s.runs[p - 1]
  BY <1>2, <1>3, <1>4, <1>5, <1>7
<1>9. \A k \in Indexes : k < p - 2 /\ k # v => new4[k] = s.runs[k]
  BY <1>0, <1>2, <1>3, <1>4, <1>5
<1> QED
  BY <1>2, <1>3, <1>4, <1>5, <1>6, <1>8, <1>9 DEF SamePlace, t

\* The first byte of a part opens a run, or continues the last one.
LEMMA FirstByteOpens ==
  ASSUME NEW s, OpenFrame(s), NEW b \in Nat, s.built = b, b < Len(input),
         ByteOf(b) \in Byte, ClosedAt(s, b),
         FirstOf(s) <= b, b - s.shift < Cap,
         b = FirstOf(s) \/ FirstOf(s) + 3 <= b
  PROVE  LET t == Runs!FirstByte(s, b - s.shift)
         IN SamePlace(s, t) /\ OpenAt(t, b + 1)
<1> DEFINE f == FirstOf(s)
           p == b - s.shift
           c == ByteOf(b)
           t == Runs!FirstByte(s, p)
<1>0. /\ s.shift \in Int /\ f = s.shift + Low /\ f \in Nat /\ s \in RunChain
      /\ \A q \in Nat : f <= q /\ q - s.shift < Cap => q - s.shift \in Indexes
      /\ p \in Int /\ p \in Indexes /\ (p > Low <=> b > f)
      /\ \A d \in Byte : s.heads[d] \in Nat
  <2>1. /\ s.shift \in Int /\ f = s.shift + Low /\ f \in Nat /\ s \in RunChain
        /\ \A q \in Nat : f <= q /\ q - s.shift < Cap => q - s.shift \in Indexes
    BY ShiftOf
  <2>2. p \in Int /\ (p > Low <=> b > f) /\ p \in Indexes
    BY <2>1, Sizes
  <2>3. \A d \in Byte : s.heads[d] \in Nat
    BY <2>1, ChainParts
  <2> QED
    BY <2>1, <2>2, <2>3
<1>1. /\ \A x, y \in Nat : RunIn(f, b, x, y) => Finished(s, x, y)
      /\ HeadsLatest(s, b)
      /\ \A x \in Nat : RunIn(f, b, x, b) => LenAt(s, x) = b - x
  BY DEF ClosedAt
<1> DEFINE Same(k) == p > Low /\ Runs!ByteAt(s.built - k) = Runs!ByteAt(s.built)
<1>2. Same(1) <=> b > f /\ ByteOf(b - 1) = c
  BY <1>0 DEF ByteOf
<1>3. Same(2) <=> b > f /\ ByteOf(b - 2) = c
  BY <1>0 DEF ByteOf
<1>4. Same(3) <=> b > f /\ ByteOf(b - 3) = c
  BY <1>0 DEF ByteOf
<1>5. c = Runs!ByteAt(s.built)
  BY DEF ByteOf
<1>6. CASE ~Same(1)
  <2>1. t = Runs!OpenRun(s, p)
    BY <1>6 DEF Runs!FirstByte
  <2>2. Begins(f, b)
    BY <1>2, <1>6, <1>0 DEF Begins
  <2> QED
    BY <2>1, <2>2, <1>1, OpenRunOpens
<1>7. CASE Same(1)
  <2>0. f + 3 <= b /\ ByteOf(b - 1) = c
    BY <1>2, <1>7, <1>0
  <2>1. PICK x \in Nat : RunIn(f, b, x, b)
    <3>1. b - 1 \in Nat /\ f <= b - 1 /\ b - 1 < b
      BY <2>0, <1>0
    <3>2. PICK x, y \in Nat : RunIn(f, b, x, y) /\ x <= b - 1 /\ b - 1 < y
      BY <3>1, <1>0, RunThrough
    <3>3. y = b
      BY <3>2 DEF RunIn
    <3> QED
      BY <3>2, <3>3
  <2> DEFINE v == x - s.shift
  <2>2. /\ x \in Nat /\ f <= x /\ x < b /\ ByteOf(x) = c /\ Begins(f, x)
        /\ \A q \in x..(b - 1) : ByteOf(q) = c
    <3>1. x \in Nat /\ f <= x /\ x < b /\ Begins(f, x)
          /\ \A q \in x..(b - 1) : ByteOf(q) = ByteOf(x)
      BY <2>1 DEF RunIn
    <3>2. b - 1 \in x..(b - 1)
      BY <3>1
    <3> QED
      BY <3>1, <3>2, <2>0
  <2>3. /\ Finished(s, x, b) /\ LenAt(s, x) = b - x
    BY <2>1, <1>1
  <2>4. s.runs[v].len = b - x /\ v \in Indexes /\ v \in Int /\ s.runs[v].dist = DistAt(s, x)
    BY <2>2, <2>3, <1>0, Sizes DEF LenAt, DistAt
  <2>5. \A q \in (x + 1)..(b - 1) : LenAt(s, q) = 1 /\ (q < b - 2 => DistAt(s, q) = q - x)
    BY <2>3 DEF Finished
  <2>6. IF x + 3 <= b THEN LeadsBack(s, x) ELSE DistAt(s, x) = Runs!NoDist
    <3>1. \A q \in x..(b - 1) : q >= b - 2 => DistAt(s, q) = Runs!NoDist
      BY <2>3 DEF Finished
    <3>2. x + 3 <= b => LeadsBack(s, x)
      BY <2>3 DEF Finished
    <3> QED
      BY <3>1, <3>2, <2>2
  <2>7. ASSUME Continues(s, t, b, x) PROVE SamePlace(s, t) /\ OpenAt(t, b + 1)
    <3>1. SamePlace(s, t) /\ t \in RunChain
      BY <2>7 DEF Continues, SamePlace
    <3>2. AllFinished(s, b)
      BY <1>1 DEF AllFinished
    <3> HIDE DEF t
    <3>3. OpenAt(t, b + 1)
      BY <3>1, <3>2, <1>0, <1>1, <2>1, <2>2, <2>6, <2>7, ContinuesOpen
    <3> QED
      BY <3>1, <3>3
  <2>8. p - 1 \in Indexes /\ p - 2 \in Indexes /\ p - 3 \in Indexes
        /\ b - 1 \in Nat /\ b - 2 \in Nat /\ b - 3 \in Nat
    <3>1. b - 1 \in Nat /\ b - 2 \in Nat /\ b - 3 \in Nat /\ f <= b - 3
      BY <2>0, <1>0
    <3>2. p - 3 \in Nat /\ p < Cap /\ Cap \in Nat
      BY <2>0, <1>0, Sizes
    <3> HIDE DEF p
    <3> QED
      BY <3>1, <3>2, <1>0 DEF Indexes
  <2>9. CASE ~Same(2)
    <3>1. x = b - 1
      BY <1>3, <2>9, <2>0, <2>2, <1>0
    <3>2. t = SecondOfRun(s, p)
      BY <1>7, <2>9 DEF Runs!FirstByte, SecondOfRun
    <3>3. /\ SamePlace(s, t) /\ t.start = p - 1 /\ t.heads = s.heads
          /\ t.runs[p].dist = 1 /\ t.runs[p].len = 1
          /\ t.runs[p - 1].len = s.runs[p - 1].len + 1
          /\ t.runs[p - 1].dist = s.runs[p - 1].dist
          /\ \A k \in Indexes : k # p /\ k # p - 1 => t.runs[k] = s.runs[k]
      <4>1. s \in RunChain /\ p \in Indexes /\ p - 1 \in Indexes
        BY <2>8, <1>0
      <4> HIDE DEF t, p
      <4> QED
        BY <4>1, <3>2, FirstByteTwo
    <3> HIDE DEF t
    <3>4. v = p - 1 /\ b + 1 - x = 2 /\ b + 1 # x + 3
      BY <3>1, <2>2, <1>0, SMTT(30)
    <3>5. \A k \in Indexes : v < k /\ k <= p => t.runs[k].len = 1 /\ t.runs[k].dist = k - v
      <4> SUFFICES ASSUME NEW k \in Indexes, v < k, k <= p
                   PROVE  t.runs[k].len = 1 /\ t.runs[k].dist = k - v
        OBVIOUS
      <4>1. k = p /\ k - v = 1
        BY <3>4, <1>0 DEF Indexes
      <4> QED
        BY <4>1, <3>3
    <3>6. \A k \in Indexes : k < v => t.runs[k] = s.runs[k]
      BY <3>3, <3>4, <1>0 DEF Indexes
    <3>7. /\ t.start = v
          /\ \A d \in Byte :
               t.heads[d] = IF b + 1 = x + 3 /\ d = ByteOf(b) THEN v ELSE s.heads[d]
          /\ t.runs[v].len = b + 1 - x
          /\ t.runs[v].dist = IF b + 1 = x + 3 THEN v - s.heads[ByteOf(b)] ELSE s.runs[v].dist
      BY <3>3, <3>4, <2>4, <3>1
    <3>8. Continues(s, t, b, x)
      <4> HIDE DEF v
      <4> QED
        BY <3>3, <3>5, <3>6, <3>7, <2>2, <2>4, ContinuesIs DEF v
    <3> QED
      BY <3>8, <2>7 DEF t
  <2>10. CASE Same(2) /\ ~Same(3)
    <3>1. x = b - 2
      <4>1. ByteOf(b - 2) = c /\ ByteOf(b - 3) # c
        BY <1>3, <1>4, <2>10, <2>0, <1>0
      <4>2. ~(x <= b - 3)
        BY <4>1, <2>2, <2>8
      <4>3. x # b - 1
        <5> SUFFICES ASSUME x = b - 1 PROVE FALSE
          OBVIOUS
        <5>1. x # f /\ x - 1 = b - 2
          BY <2>0, <1>0
        <5> QED
          BY <5>1, <4>1, <2>2 DEF Begins
      <4> QED
        BY <4>2, <4>3, <2>2
    <3>2. t = ThirdOfRun(s, p, c)
      BY <1>5, <1>7, <2>10 DEF Runs!FirstByte, ThirdOfRun
    <3>3. /\ SamePlace(s, t) /\ t.start = p - 2
          /\ \A d \in Byte : t.heads[d] = IF d = c THEN p - 2 ELSE s.heads[d]
          /\ t.runs[p].dist = 2 /\ t.runs[p].len = 1
          /\ t.runs[p - 1].dist = 1 /\ t.runs[p - 1].len = s.runs[p - 1].len
          /\ t.runs[p - 2].len = s.runs[p - 2].len + 1
          /\ t.runs[p - 2].dist = p - 2 - s.heads[c]
          /\ \A k \in Indexes : k < p - 2 => t.runs[k] = s.runs[k]
      <4>1. c \in Byte /\ p \in Indexes /\ p - 1 \in Indexes /\ p - 2 \in Indexes
            /\ s \in RunChain
        BY <2>8, <1>0
      <4> HIDE DEF t, c, p
      <4> QED
        BY <4>1, <3>2, FirstByteThree
    <3> HIDE DEF t
    <3>4. v = p - 2 /\ b + 1 - x = 3 /\ b + 1 = x + 3 /\ b - x = 2
      BY <3>1, <2>2, <1>0
    <3>5. \A k \in Indexes : v < k /\ k <= p => t.runs[k].len = 1 /\ t.runs[k].dist = k - v
      <4> SUFFICES ASSUME NEW k \in Indexes, v < k, k <= p
                   PROVE  t.runs[k].len = 1 /\ t.runs[k].dist = k - v
        OBVIOUS
      <4>1. (k = p /\ k - v = 2) \/ (k = p - 1 /\ k - v = 1)
        <5>1. k \in Nat /\ p \in Int
          BY <1>0 DEF Indexes
        <5> HIDE DEF p, v
        <5> QED
          BY <5>1, <3>4
      <4>2. s.runs[p - 1].len = 1
        <5>1. b - 1 \in (x + 1)..(b - 1) /\ b - 1 - s.shift = p - 1
          <6>1. s.shift \in Int
            BY <1>0
          <6> QED
            BY <6>1, <3>1, <2>2
        <5> QED
          BY <5>1, <2>5 DEF LenAt
      <4> QED
        BY <4>1, <4>2, <3>3
    <3>6. \A k \in Indexes : k < v => t.runs[k] = s.runs[k]
      BY <3>3, <3>4
    <3>7. /\ t.start = v
          /\ \A d \in Byte :
               t.heads[d] = IF b + 1 = x + 3 /\ d = ByteOf(b) THEN v ELSE s.heads[d]
          /\ t.runs[v].len = b + 1 - x
          /\ t.runs[v].dist = IF b + 1 = x + 3 THEN v - s.heads[ByteOf(b)] ELSE s.runs[v].dist
      BY <3>3, <3>4, <2>4
    <3>8. Continues(s, t, b, x)
      <4> HIDE DEF v
      <4> QED
        BY <3>3, <3>5, <3>6, <3>7, <2>2, <2>4, ContinuesIs DEF v
    <3> QED
      BY <3>8, <2>7 DEF t
  <2>11. CASE Same(2) /\ Same(3)
    <3>1. x <= b - 3
      <4>1. ByteOf(b - 2) = c /\ ByteOf(b - 3) = c
        BY <1>3, <1>4, <2>11
      <4>2. x # b - 1
        <5> SUFFICES ASSUME x = b - 1 PROVE FALSE
          OBVIOUS
        <5>1. x # f /\ x - 1 = b - 2
          BY <2>0, <1>0
        <5> QED
          BY <5>1, <4>1, <2>2 DEF Begins
      <4>3. x # b - 2
        <5> SUFFICES ASSUME x = b - 2 PROVE FALSE
          OBVIOUS
        <5>1. x # f /\ x - 1 = b - 3
          BY <2>0, <1>0
        <5> QED
          BY <5>1, <4>1, <2>2 DEF Begins
      <4> QED
        BY <4>2, <4>3, <2>2
    <3>2. s.heads[c] = v
      <4>1. x \in LongRuns(f, b, c)
        <5>1. x + 3 <= b
          BY <3>1
        <5> QED
          BY <5>1, <2>1, <2>2, <1>0, RunIsLong
      <4>2. Latest(s.heads[c], LongRuns(f, b, c), s.shift)
        BY <1>1 DEF HeadsLatest
      <4>3. s.heads[c] + s.shift \in LongRuns(f, b, c) /\ x <= s.heads[c] + s.shift
        BY <4>1, <4>2 DEF Latest
      <4>4. s.heads[c] + s.shift \in Nat /\ s.heads[c] + s.shift < b
        BY <4>3 DEF LongRuns
      <4>5. s.heads[c] + s.shift = x
        BY <4>3, <4>4, <2>1, <1>0, LongInRun
      <4> QED
        BY <4>5, <1>0
    <3>3. t = NextOfRun(s, p, v)
      <4>1. t = NextOfRun(s, p, s.heads[c])
        BY <1>5, <1>7, <2>11 DEF Runs!FirstByte, NextOfRun
      <4> HIDE DEF t, v, p, c
      <4> QED
        BY <4>1, <3>2
    <3>4. v < p - 2 /\ b + 1 - x = b - x + 1 /\ b + 1 # x + 3
      BY <3>1, <2>2, <1>0
    <3>5. /\ SamePlace(s, t) /\ t.start = v /\ t.heads = s.heads
          /\ t.runs[p].dist = p - v /\ t.runs[p].len = 1
          /\ t.runs[p - 1].dist = p - v - 1 /\ t.runs[p - 1].len = s.runs[p - 1].len
          /\ t.runs[p - 2].dist = p - v - 2 /\ t.runs[p - 2].len = s.runs[p - 2].len
          /\ t.runs[v].len = s.runs[v].len + 1 /\ t.runs[v].dist = s.runs[v].dist
          /\ \A k \in Indexes : k < p - 2 /\ k # v => t.runs[k] = s.runs[k]
      <4>1. v < p - 2 /\ v \in Indexes
        BY <3>4, <2>4
      <4>2. s \in RunChain /\ p \in Indexes /\ p - 1 \in Indexes /\ p - 2 \in Indexes
        BY <2>8, <1>0
      <4> HIDE DEF v, p
      <4> DEFINE w == NextOfRun(s, p, v)
      <4>3. /\ SamePlace(s, w) /\ w.start = v /\ w.heads = s.heads
            /\ w.runs[p].dist = p - v /\ w.runs[p].len = 1
            /\ w.runs[p - 1].dist = p - v - 1 /\ w.runs[p - 1].len = s.runs[p - 1].len
            /\ w.runs[p - 2].dist = p - v - 2 /\ w.runs[p - 2].len = s.runs[p - 2].len
            /\ w.runs[v].len = s.runs[v].len + 1 /\ w.runs[v].dist = s.runs[v].dist
            /\ \A k \in Indexes : k < p - 2 /\ k # v => w.runs[k] = s.runs[k]
        BY <4>1, <4>2, FirstByteLong
      <4> HIDE DEF t
      <4> QED
        BY <3>3, <4>3
    <3> HIDE DEF t
    <3>6. \A k \in Indexes : v < k /\ k <= p => t.runs[k].len = 1 /\ t.runs[k].dist = k - v
      <4> SUFFICES ASSUME NEW k \in Indexes, v < k, k <= p
                   PROVE  t.runs[k].len = 1 /\ t.runs[k].dist = k - v
        OBVIOUS
      <4> DEFINE q == k + s.shift
      <4>0. q \in Nat /\ q - s.shift = k /\ x < q /\ k - v = q - x /\ k \in Nat
        BY <1>0, <2>2, <2>4, SMTT(30) DEF Indexes
      <4>1. CASE k = p
        BY <4>1, <3>5
      <4>2. CASE k # p
        <5>1. q \in (x + 1)..(b - 1)
          BY <4>0, <4>2, <1>0
        <5>2. s.runs[k].len = 1 /\ (q < b - 2 => s.runs[k].dist = q - x)
          BY <5>1, <4>0, <2>5 DEF LenAt, DistAt
        <5>3. CASE k = p - 1
          <6>1. k - v = p - v - 1
            BY <5>3, <1>0, <2>4
          <6> QED
            BY <6>1, <5>2, <5>3, <3>5
        <5>4. CASE k = p - 2
          <6>1. k - v = p - v - 2
            BY <5>4, <1>0, <2>4
          <6> QED
            BY <6>1, <5>2, <5>4, <3>5
        <5>5. CASE k # p - 1 /\ k # p - 2
          <6>1. k < p - 2 /\ q < b - 2 /\ k # v
            <7>1. s.shift \in Int
              BY <1>0
            <7>2. k < p - 2
              <8>1. p \in Int
                BY <1>0
              <8> HIDE DEF p, q, v
              <8> QED
                BY <8>1, <5>5, <4>0, <4>2
            <7> HIDE DEF v
            <7> QED
              BY <7>1, <7>2, <4>0
          <6> QED
            BY <6>1, <5>2, <4>0, <3>5
        <5> QED
          BY <5>3, <5>4, <5>5
      <4> QED
        BY <4>1, <4>2
    <3>7. \A k \in Indexes : k < v => t.runs[k] = s.runs[k]
      <4>1. \A k \in Indexes : k < v => k < p - 2 /\ k # v
        <5>1. p \in Int /\ v \in Int /\ \A k \in Indexes : k \in Int
          BY <1>0, <2>4 DEF Indexes
        <5> HIDE DEF p, v
        <5> QED
          BY <5>1, <3>4
      <4> HIDE DEF p, v
      <4> QED
        BY <4>1, <3>5
    <3>8. /\ \A d \in Byte :
               t.heads[d] = IF b + 1 = x + 3 /\ d = ByteOf(b) THEN v ELSE s.heads[d]
          /\ t.runs[v].len = b + 1 - x
          /\ t.runs[v].dist = IF b + 1 = x + 3 THEN v - s.heads[ByteOf(b)] ELSE s.runs[v].dist
      BY <3>4, <3>5, <2>4
    <3>9. Continues(s, t, b, x)
      <4> HIDE DEF v
      <4> QED
        BY <3>5, <3>6, <3>7, <3>8, <2>2, <2>4, ContinuesIs DEF v
    <3> QED
      BY <3>9, <2>7 DEF t
  <2> QED
    BY <2>9, <2>10, <2>11
<1> QED
  BY <1>6, <1>7

LEMMA ByteIn ==
  ASSUME input \in Seq(Byte), NEW q \in Nat, q < Len(input)
  PROVE  ByteOf(q) \in Byte
<1>1. q + 1 \in 1..Len(input)
  OBVIOUS
<1> QED
  BY <1>1 DEF ByteOf, Runs!ByteAt

\* Where a part may begin and how far it may go.
PartFits(s, size) ==
  /\ OpenFrame(s)
  /\ ClosedAt(s, s.built)
  /\ FirstOf(s) <= s.built
  /\ s.built = FirstOf(s) \/ FirstOf(s) + 3 <= s.built
  /\ s.built + size <= Len(input)
  /\ s.built + size - s.shift <= Cap

LEMMA BytesInOpen ==
  ASSUME input \in Seq(Byte), NEW s, NEW n \in Nat, PartFits(s, n + 1),
         NEW i \in 0..n
  PROVE  LET t == BytesIn(s, s.built - s.shift, n)[i]
         IN SamePlace(s, t) /\ OpenAt(t, s.built + i + 1)
<1> DEFINE b == s.built
           p == b - s.shift
           e == BytesIn(s, p, n)
           Right(k) == SamePlace(s, e[k]) /\ OpenAt(e[k], b + k + 1)
           Bad == {k \in Nat : k <= n /\ ~Right(k)}
<1>0. /\ e[0] = Runs!FirstByte(s, p)
      /\ \A k \in 1..n : e[k] = Runs!NextByte(e[k - 1], p, k)
  BY BytesInOf
<1> HIDE DEF e
<1>1. /\ s.shift \in Int /\ FirstOf(s) = s.shift + Low /\ FirstOf(s) \in Nat
      /\ s \in RunChain /\ b \in Nat /\ Len(input) \in Nat
      /\ OpenFrame(s) /\ FirstOf(s) <= b /\ ClosedAt(s, b)
      /\ b = FirstOf(s) \/ FirstOf(s) + 3 <= b
      /\ b + n + 1 <= Len(input) /\ b + n + 1 - s.shift <= Cap /\ Cap \in Nat
  <2>1. OpenFrame(s)
    BY DEF PartFits
  <2>2. s.shift \in Int /\ FirstOf(s) = s.shift + Low /\ FirstOf(s) \in Nat /\ s \in RunChain
    BY <2>1, ShiftOf
  <2>3. b \in Nat
    BY <2>2, ChainParts
  <2> QED
    BY <2>1, <2>2, <2>3, Sizes, SMTT(30) DEF PartFits
<1> HIDE DEF b
<1>2. Right(0)
  <2>1. b < Len(input) /\ ByteOf(b) \in Byte /\ b - s.shift < Cap
    BY <1>1, ByteIn
  <2>2. SamePlace(s, Runs!FirstByte(s, p)) /\ OpenAt(Runs!FirstByte(s, p), b + 1)
    BY <1>1, <2>1, FirstByteOpens DEF b
  <2>3. b + 0 + 1 = b + 1
    BY <1>1
  <2> QED
    BY <1>0, <2>2, <2>3
<1>3. ASSUME NEW k \in 1..n, Right(k - 1) PROVE Right(k)
  <2> DEFINE u == e[k - 1]
             q == b + k
  <2>1. /\ u \in RunChain /\ u.shift = s.shift /\ u.built = b /\ OpenFrame(u)
        /\ OpenAt(u, q)
    <3>1. b + (k - 1) + 1 = b + k
      BY <1>1, <1>3
    <3> QED
      BY <1>1, <1>3, <3>1 DEF SamePlace, OpenFrame, FirstOf, b
  <2>2. /\ q \in Nat /\ q < Len(input) /\ q - u.shift < Cap /\ u.built + k = q
        /\ p + k = q - u.shift /\ p \in Int /\ k \in Int
    BY <1>1, <1>3, <2>1, SMTT(30)
  <2>3. ByteOf(q) \in Byte
    BY <2>2, ByteIn
  <2> HIDE DEF u, q, p
  <2>4. SamePlace(u, Runs!NextByte(u, p, k)) /\ OpenAt(Runs!NextByte(u, p, k), q + 1)
    BY <2>1, <2>2, <2>3, NextByteOpens
  <2>5. e[k] = Runs!NextByte(u, p, k)
    BY <1>0, <1>3 DEF u
  <2> QED
    BY <2>1, <2>4, <2>5 DEF SamePlace, q, b
<1>4. Bad = {}
  <2> SUFFICES ASSUME Bad # {} PROVE FALSE
    OBVIOUS
  <2>1. PICK k \in Bad : \A m \in Bad : k <= m
    <3>1. Bad \in SUBSET Nat
      OBVIOUS
    <3> HIDE DEF Bad
    <3> QED
      BY <3>1, LeastNumber
  <2>2. k \in Nat /\ k <= n /\ ~Right(k)
    BY <2>1
  <2> HIDE DEF Right
  <2>3. k \in 1..n /\ k - 1 \in Nat /\ k - 1 <= n /\ ~(k <= k - 1)
    BY <1>2, <2>2
  <2>4. Right(k - 1)
    BY <2>1, <2>3
  <2> QED
    BY <1>3, <2>2, <2>3, <2>4
<1>5. Right(i)
  <2> HIDE DEF Right
  <2> QED
    BY <1>4
<1> QED
  BY <1>5 DEF e, b

\* _build enters its bytes with the entries that their runs call for.
LEMMA BuildCloses ==
  ASSUME input \in Seq(Byte), NEW s, NEW size \in Nat, PartFits(s, size)
  PROVE  LET t == Runs!Build(s, s.built - s.shift, size)
         IN t.shift = s.shift /\ t.built = s.built + size /\ ClosedAt(t, t.built)
<1> DEFINE b == s.built
           p == b - s.shift
           t == Runs!Build(s, p, size)
<1>0. /\ s.shift \in Int /\ FirstOf(s) \in Nat /\ s \in RunChain /\ b \in Nat
      /\ OpenFrame(s) /\ ClosedAt(s, b) /\ b + size - s.shift <= Cap
  <2>1. OpenFrame(s)
    BY DEF PartFits
  <2> QED
    BY <2>1, ShiftOf, ChainParts DEF PartFits
<1>1. CASE size = 0
  <2>1. t = s /\ b + size = b
    BY <1>0, <1>1 DEF Runs!Build
  <2> QED
    BY <1>0, <2>1
<1>2. CASE size # 0
  <2> DEFINE n == size - 1
             last == BytesIn(s, p, n)[n]
             closed == Runs!CloseRun(last, p + size)
  <2>1. n \in Nat /\ n \in 0..n /\ size = n + 1 /\ b + n + 1 = b + size
    BY <1>0, <1>2
  <2>2. t = [closed EXCEPT !.built = @ + size]
    BY <1>2 DEF Runs!Build, BytesIn
  <2>3. SamePlace(s, last) /\ OpenAt(last, b + size)
    <3>1. PartFits(s, n + 1)
      BY <2>1
    <3> HIDE DEF n
    <3>2. SamePlace(s, last) /\ OpenAt(last, b + n + 1)
      BY <2>1, <3>1, BytesInOpen
    <3> QED
      BY <2>1, <3>2
  <2> HIDE DEF last, t
  <2>4. /\ last \in RunChain /\ last.shift = s.shift /\ last.built = b
        /\ FirstOf(last) = FirstOf(s) /\ OpenFrame(last)
        /\ b + size - last.shift <= Cap /\ p + size = b + size - last.shift
    BY <1>0, <2>3 DEF SamePlace, OpenFrame, FirstOf
  <2> DEFINE m == b + size
  <2>11. m \in Nat /\ OpenAt(last, m) /\ m - last.shift <= Cap
    <3>1. b + size \in Nat
      BY <1>0
    <3>2. OpenAt(last, m)
      BY <2>3
    <3>3. m - last.shift <= Cap
      BY <1>0, <2>4
    <3> QED
      BY <3>1, <3>2, <3>3
  <2>12. p + size = m - last.shift
    <3>1. last.shift = s.shift
      BY <2>4
    <3> QED
      BY <1>0, <3>1
  <2> HIDE DEF m, p
  <2>5. /\ SamePlace(last, closed) /\ HeadsLatest(closed, m)
        /\ FirstOf(closed) = FirstOf(last)
        /\ \A x, y \in Nat : RunIn(FirstOf(last), m, x, y) => Finished(closed, x, y)
        /\ \A x \in Nat : RunIn(FirstOf(last), m, x, m) => LenAt(closed, x) = m - x
    <3>1. LET w == Runs!CloseRun(last, m - last.shift)
          IN /\ SamePlace(last, w) /\ HeadsLatest(w, m) /\ FirstOf(w) = FirstOf(last)
             /\ \A x, y \in Nat : RunIn(FirstOf(last), m, x, y) => Finished(w, x, y)
             /\ \A x \in Nat : RunIn(FirstOf(last), m, x, m) => LenAt(w, x) = m - x
      BY <2>4, <2>11, CloseRunCloses
    <3> QED
      BY <2>12, <3>1
  <2> HIDE DEF closed
  <2>6. /\ t \in RunChain /\ t.runs = closed.runs /\ t.heads = closed.heads
        /\ t.shift = s.shift /\ t.built = m
    <3>1. closed \in RunChain /\ closed.shift = s.shift /\ closed.built = b
      BY <2>4, <2>5 DEF SamePlace
    <3>2. b + size \in Nat
      BY <1>0
    <3> QED
      BY <2>2, <3>1, <3>2 DEF RunChain, m
  <2>7. /\ FirstOf(t) = FirstOf(s) /\ FirstOf(closed) = FirstOf(s) /\ t.shift = closed.shift
        /\ \A q : DistAt(t, q) = DistAt(closed, q) /\ LenAt(t, q) = LenAt(closed, q)
    BY <2>4, <2>5, <2>6 DEF FirstOf, DistAt, LenAt, SamePlace
  <2>8. \A x, y : Finished(closed, x, y) => Finished(t, x, y)
    BY <2>7 DEF Finished, LeadsBack
  <2>9. HeadsLatest(t, m)
    BY <2>5, <2>6, <2>7 DEF HeadsLatest
  <2>10. ClosedAt(t, m)
    <3>1. \A x, y \in Nat : RunIn(FirstOf(t), m, x, y) => Finished(t, x, y)
      BY <2>4, <2>5, <2>7, <2>8
    <3>2. \A x \in Nat : RunIn(FirstOf(t), m, x, m) => LenAt(t, x) = m - x
      BY <2>4, <2>5, <2>7
    <3> QED
      BY <3>1, <3>2, <2>6, <2>9 DEF ClosedAt, HeadsLatest
  <2> QED
    BY <2>6, <2>10 DEF t, m, p
<1> QED
  BY <1>1, <1>2

-----------------------------------------------------------------------------
(***************************************************************************)
(* The moves of _reshift: g is the first position that the array still     *)
(* holds after one, in the run from x up to y.                             *)
(***************************************************************************)
LEMMA LongLater ==
  ASSUME NEW f \in Nat, NEW g \in Nat, f <= g, NEW e \in Nat, NEW c,
         NEW r \in LongRuns(g, e, c), r # g
  PROVE  r \in LongRuns(f, e, c) /\ g < r
BY DEF LongRuns, Begins

LEMMA LongStays ==
  ASSUME NEW f \in Nat, NEW g \in Nat, f < g, NEW e \in Nat, NEW c,
         NEW r \in LongRuns(f, e, c), g <= r
  PROVE  r \in LongRuns(g, e, c)
BY DEF LongRuns, Begins

\* If the run of g is one of three and more after the move, it was before.
LEMMA LongAtMove ==
  ASSUME NEW f \in Nat, NEW g \in Nat, NEW b \in Nat, NEW x \in Nat, NEW y \in Nat,
         RunIn(f, b, x, y), x <= g, g < y, NEW e \in Nat, e <= b, NEW c,
         g \in LongRuns(g, e, c)
  PROVE  g + 3 <= y /\ c = ByteOf(x) /\ x \in LongRuns(f, e, c)
<1>1. g + 3 <= e /\ ByteOf(g) = c /\ ByteOf(g + 1) = c /\ ByteOf(g + 2) = c
  BY DEF LongRuns
<1>2. ByteOf(x) = c
  BY <1>1 DEF RunIn
<1>3. g + 3 <= y
  <2> SUFFICES ASSUME y = g + 1 \/ y = g + 2 PROVE FALSE
    OBVIOUS
  <2>1. ByteOf(y) = ByteOf(x)
    BY <1>1, <1>2
  <2> QED
    BY <2>1, <1>1 DEF RunIn
<1>4. x + 3 <= e /\ x + 3 <= y
  BY <1>1, <1>3
<1> QED
  BY <1>2, <1>3, <1>4, RunIsLong

\* The index n is that of the run of c from x to y, which is cut at g.
OfCutRun(n, x, y, g, c, shift) ==
  x < g /\ g + 3 <= y /\ c = ByteOf(x) /\ n = x - shift

LEMMA LatestMoves ==
  ASSUME NEW f \in Nat, NEW g \in Nat, NEW b \in Nat, NEW x \in Nat, NEW y \in Nat,
         NEW shift \in Int, f = shift + Low, g = f + Delta,
         RunIn(f, b, x, y), x <= g, g < y, NEW e \in Nat, e <= b, NEW c,
         NEW n \in Int, Latest(n, LongRuns(f, e, c), shift)
  PROVE  \/ Latest(n - Delta, LongRuns(g, e, c), shift + Delta)
         \/ OfCutRun(n, x, y, g, c, shift) /\ Latest(Low, LongRuns(g, e, c), shift + Delta)
<1>0. Delta \in Nat /\ Delta > 0 /\ Low \in Nat /\ Low > 0 /\ f < g /\ f <= g
  BY Sizes
<1>1. CASE Low + Delta <= n
  <2>1. n + shift \in LongRuns(f, e, c) /\ \A r \in LongRuns(f, e, c) : r <= n + shift
    BY <1>0, <1>1 DEF Latest
  <2>2. n + shift \in Nat /\ g <= n + shift
    BY <2>1, <1>0, <1>1 DEF LongRuns
  <2>3. n + shift \in LongRuns(g, e, c)
    BY <2>1, <2>2, <1>0, LongStays
  <2>4. ASSUME NEW r \in LongRuns(g, e, c) PROVE r <= n + shift
    <3>1. r = g \/ r \in LongRuns(f, e, c)
      BY <1>0, LongLater
    <3> QED
      BY <3>1, <2>1, <2>2
  <2>5. Low <= n - Delta /\ (n - Delta) + (shift + Delta) = n + shift
    BY <1>0, <1>1
  <2> QED
    BY <2>3, <2>4, <2>5 DEF Latest
<1>2. CASE n < Low + Delta
  <2>1. ASSUME NEW r \in LongRuns(g, e, c), r # g PROVE FALSE
    <3>1. r \in LongRuns(f, e, c) /\ g < r /\ r \in Nat
      BY <2>1, <1>0, LongLater DEF LongRuns
    <3>2. Low <= n /\ r <= n + shift
      BY <3>1 DEF Latest
    <3> QED
      BY <3>1, <3>2, <1>0, <1>2
  <2>2. CASE g \notin LongRuns(g, e, c)
    <3>1. LongRuns(g, e, c) = {}
      BY <2>1, <2>2
    <3>2. ~(Low <= n - Delta)
      BY <1>0, <1>2
    <3> QED
      BY <3>1, <3>2 DEF Latest
  <2>3. CASE g \in LongRuns(g, e, c)
    <3>1. g + 3 <= y /\ c = ByteOf(x) /\ x \in LongRuns(f, e, c)
      BY <2>3, LongAtMove
    <3>2. Low <= n /\ n + shift \in LongRuns(f, e, c) /\ x <= n + shift
      BY <3>1 DEF Latest
    <3>3. n + shift \in Nat /\ n + shift < y
      BY <3>2, <1>0, <1>2 DEF LongRuns
    <3>4. n + shift = x
      BY <3>2, <3>3, LongInRun
    <3>5. x < g /\ n = x - shift
      BY <3>4, <1>0, <1>2
    <3>6. Low + (shift + Delta) = g
      BY <1>0
    <3>7. Latest(Low, LongRuns(g, e, c), shift + Delta)
      BY <2>1, <2>3, <3>6, <1>0 DEF Latest
    <3> QED
      BY <3>1, <3>5, <3>7 DEF OfCutRun
  <2> QED
    BY <2>2, <2>3
<1> QED
  BY <1>0, <1>1, <1>2

LEMMA MoveDownDoes ==
  ASSUME NEW s \in RunChain
  PROVE  LET t == Runs!MoveDown(s)
         IN /\ t \in RunChain /\ t.shift = s.shift + Delta /\ t.built = s.built
            /\ \A c \in Byte :
                 t.heads[c] = IF s.heads[c] > Delta THEN s.heads[c] - Delta ELSE 0
            /\ \A p \in Indexes : Low <= p /\ p + Delta < Cap => t.runs[p] = s.runs[p + Delta]
<1> DEFINE t == Runs!MoveDown(s)
           more == [c \in Byte |-> IF s.heads[c] > Delta THEN s.heads[c] - Delta ELSE 0]
           new == [p \in Indexes |-> IF p >= Low /\ p < Low + Runs!Kept
                                     THEN s.runs[p + Delta] ELSE s.runs[p]]
<1>0. s.runs \in [Indexes -> Entry] /\ s.heads \in [Byte -> Nat] /\ DOMAIN s.runs = Indexes
      /\ s.shift \in Int /\ s.built \in Nat /\ s.start \in Int
  BY ChainParts
<1>1. t = [s EXCEPT !.heads = more, !.runs = new, !.shift = s.shift + Delta]
  BY <1>0 DEF Runs!MoveDown
<1>2. more \in [Byte -> Nat]
  BY <1>0, Sizes
<1>3. ASSUME NEW p \in Indexes, Low <= p PROVE p < Low + Runs!Kept <=> p + Delta < Cap
  BY <1>3, Sizes DEF Indexes, Runs!Kept
<1>4. ASSUME NEW p \in Indexes, Low <= p, p + Delta < Cap PROVE p + Delta \in Indexes
  BY <1>4, Sizes DEF Indexes
<1>5. new \in [Indexes -> Entry]
  BY <1>0, <1>3, <1>4
<1>6. \A p \in Indexes : Low <= p /\ p + Delta < Cap => new[p] = s.runs[p + Delta]
  BY <1>3
<1>7. \A c \in Byte : more[c] = IF s.heads[c] > Delta THEN s.heads[c] - Delta ELSE 0
  OBVIOUS
<1> HIDE DEF more, new, t
<1>8. /\ t.runs = new /\ t.heads = more /\ t.shift = s.shift + Delta /\ t.built = s.built
      /\ t = [runs |-> new, heads |-> more, shift |-> s.shift + Delta,
              built |-> s.built, start |-> s.start]
  BY <1>1 DEF RunChain
<1>9. t \in RunChain
  <2>1. s.shift + Delta \in Int
    BY <1>0, Sizes
  <2> QED
    BY <2>1, <1>0, <1>2, <1>5, <1>8 DEF RunChain
<1> QED
  BY <1>6, <1>7, <1>8, <1>9 DEF t

\* The indexes from e on whose runs lead to the one at v, unless that is the
\* head of the byte c; of these the move turns the first.
Pointers(s, c, v, e) ==
  {p \in e..(Cap - 1) : s.heads[c] # v /\ s.runs[p].dist = p - v}

Turned(s, c, v, e, p) ==
  p \in Pointers(s, c, v, e) /\ \A q \in Pointers(s, c, v, e) : p <= q

\* The entries and the head after a run has been cut at the index at.
CutAt(s, at, d, v, len, c) ==
  LET headed == s.heads[c] = v
      pointers == {p \in (at + len)..(Cap - 1) : ~headed /\ s.runs[p].dist = p - v}
      members == (at + 1)..(at + len - 3)
      pointer == {p \in pointers : \A q \in pointers : p <= q}
  IN [s EXCEPT !.runs = [p \in DOMAIN s.runs |->
                           IF p = at THEN [dist |-> Runs!NoDist, len |-> len]
                           ELSE IF p \in members \cup pointer
                           THEN [s.runs[p] EXCEPT !.dist = @ - d]
                           ELSE s.runs[p]],
               !.heads[c] = IF headed THEN at ELSE @]

LEMMA CutRunIs ==
  ASSUME NEW s, NEW at, at = Delta + Low, NEW d, d = s.runs[at].dist,
         NEW v, v = at - d, NEW c, c = ByteOf(s.built - Runs!Kept)
  PROVE  Runs!CutRun(s) =
           IF d = Runs!NoDist \/ s.runs[at].len >= 3 THEN s
           ELSE CutAt(s, at, d, v, s.runs[v].len - d, c)
<1> DEFINE i == Delta + Low
           n == s.runs[i].dist
           b == ByteOf(s.built - Runs!Kept)
<1>1. Runs!CutRun(s) =
        IF n = Runs!NoDist \/ s.runs[i].len >= 3 THEN s
        ELSE CutAt(s, i, n, i - n, s.runs[i - n].len - n, b)
  BY DEF Runs!CutRun, CutAt, ByteOf, Runs!MinMatch
<1> HIDE DEF b, n, i
<1>2. i = at /\ n = d /\ b = c
  BY DEF i, n, b
<1> QED
  BY <1>1, <1>2

LEMMA CutRunCuts ==
  ASSUME NEW s \in RunChain, NEW at \in Indexes, at = Delta + Low,
         NEW d \in Int, s.runs[at].dist = d, d # Runs!NoDist, s.runs[at].len < 3,
         NEW v \in Int, v = at - d, NEW e \in Int, e = at + (s.runs[v].len - d), at + 3 <= e,
         NEW c \in Byte, c = ByteOf(s.built - Runs!Kept), s.runs[v].len \in Int
  PROVE  LET t == Runs!CutRun(s)
         IN /\ SamePlace(s, t)
            /\ \A b \in Byte :
                 t.heads[b] = IF b = c /\ s.heads[c] = v THEN at ELSE s.heads[b]
            /\ t.runs[at].dist = Runs!NoDist /\ t.runs[at].len = e - at
            /\ \A p \in Indexes : p # at =>
                 /\ t.runs[p].len = s.runs[p].len
                 /\ t.runs[p].dist =
                      IF (at < p /\ p <= e - 3) \/ Turned(s, c, v, e, p)
                      THEN s.runs[p].dist - d ELSE s.runs[p].dist
<1> DEFINE t == Runs!CutRun(s)
           len == s.runs[v].len - d
           pointers == {p \in (at + len)..(Cap - 1) : s.heads[c] # v /\ s.runs[p].dist = p - v}
           turn == (at + 1)..(at + len - 3) \cup {p \in pointers : \A q \in pointers : p <= q}
           new == [p \in Indexes |->
                     IF p = at THEN [dist |-> Runs!NoDist, len |-> len]
                     ELSE IF p \in turn THEN [s.runs[p] EXCEPT !.dist = @ - d]
                     ELSE s.runs[p]]
           more == [s.heads EXCEPT ![c] = IF s.heads[c] = v THEN at ELSE @]
<1>0. /\ s.runs \in [Indexes -> Entry] /\ s.heads \in [Byte -> Nat] /\ DOMAIN s.runs = Indexes
      /\ s.shift \in Int /\ s.built \in Nat /\ s.start \in Int
      /\ at \in Nat /\ len \in Int /\ e = at + len /\ Runs!NoDist \in Int
      /\ \A p \in Indexes : p \in Int
      /\ \A p \in Indexes : s.runs[p].dist \in Int /\ s.runs[p].len \in Int
  <2>1. /\ s.runs \in [Indexes -> Entry] /\ s.heads \in [Byte -> Nat]
        /\ s.shift \in Int /\ s.built \in Nat /\ s.start \in Int
        /\ \A p \in Indexes : s.runs[p].dist \in Int /\ s.runs[p].len \in Int
    BY ChainParts
  <2>2. Runs!NoDist \in Int /\ at \in Nat /\ \A p \in Indexes : p \in Int
    BY Sizes DEF Runs!NoDist, Indexes
  <2>3. len \in Int /\ e = at + len
    OBVIOUS
  <2> HIDE DEF len
  <2> QED
    BY <2>1, <2>2, <2>3
<1>1. t = [s EXCEPT !.runs = new, !.heads = more]
  <2>1. ~(d = Runs!NoDist \/ s.runs[at].len >= 3)
    <3>1. s.runs[at].len \in Int
      BY <1>0
    <3> QED
      BY <3>1
  <2>2. Runs!CutRun(s) = IF d = Runs!NoDist \/ s.runs[at].len >= 3 THEN s
                         ELSE CutAt(s, at, d, v, len, c)
    BY CutRunIs
  <2>3. t = CutAt(s, at, d, v, len, c)
    BY <2>1, <2>2
  <2> HIDE DEF t, len
  <2>4. CutAt(s, at, d, v, len, c) = [s EXCEPT !.runs = new, !.heads = more]
    <3> DEFINE new0 == [p \in DOMAIN s.runs |->
                          IF p = at THEN [dist |-> Runs!NoDist, len |-> len]
                          ELSE IF p \in turn THEN [s.runs[p] EXCEPT !.dist = @ - d]
                          ELSE s.runs[p]]
               top == IF s.heads[c] = v THEN at ELSE s.heads[c]
    <3>1. CutAt(s, at, d, v, len, c) = [s EXCEPT !.runs = new0, !.heads[c] = top]
      BY DEF CutAt
    <3>2. new0 = new
      BY <1>0
    <3>3. more = [s.heads EXCEPT ![c] = top]
      OBVIOUS
    <3> HIDE DEF new0, new, more, top
    <3> QED
      BY <3>1, <3>2, <3>3
  <2> QED
    BY <2>3, <2>4
<1>2. \A p : p \in turn <=> (p \in Int /\ at < p /\ p <= e - 3) \/ Turned(s, c, v, e, p)
  <2>1. pointers = Pointers(s, c, v, e)
    BY <1>0 DEF Pointers
  <2> HIDE DEF pointers, len
  <2> QED
    BY <1>0, <2>1 DEF Turned
<1> HIDE DEF turn, len
<1>3. /\ new \in [Indexes -> Entry] /\ new[at].dist = Runs!NoDist /\ new[at].len = len
      /\ \A p \in Indexes : p # at =>
           /\ new[p].len = s.runs[p].len
           /\ new[p].dist = IF p \in turn THEN s.runs[p].dist - d ELSE s.runs[p].dist
  <2>1. ASSUME NEW p \in Indexes, p # at
        PROVE  /\ new[p] \in Entry /\ new[p].len = s.runs[p].len
               /\ new[p].dist = IF p \in turn THEN s.runs[p].dist - d ELSE s.runs[p].dist
    <3>1. s.runs[p] \in Entry /\ s.runs[p].dist \in Int
      BY <1>0
    <3>2. /\ [s.runs[p] EXCEPT !.dist = @ - d] \in Entry
          /\ [s.runs[p] EXCEPT !.dist = @ - d].len = s.runs[p].len
          /\ [s.runs[p] EXCEPT !.dist = @ - d].dist = s.runs[p].dist - d
      BY <3>1 DEF Entry
    <3> QED
      BY <2>1, <3>1, <3>2
  <2>2. new[at] \in Entry /\ new[at].dist = Runs!NoDist /\ new[at].len = len
    BY <1>0 DEF Entry
  <2>3. new = [p \in Indexes |-> new[p]]
    OBVIOUS
  <2> HIDE DEF new
  <2> QED
    BY <2>1, <2>2, <2>3
<1>4. /\ more \in [Byte -> Nat]
      /\ \A b \in Byte : more[b] = IF b = c /\ s.heads[c] = v THEN at ELSE s.heads[b]
  BY <1>0
<1> HIDE DEF new, more, t
<1>5. /\ t.runs = new /\ t.heads = more /\ t.shift = s.shift /\ t.built = s.built
      /\ t = [runs |-> new, heads |-> more, shift |-> s.shift,
              built |-> s.built, start |-> s.start]
  BY <1>1 DEF RunChain
<1>6. t \in RunChain
  BY <1>0, <1>3, <1>4, <1>5 DEF RunChain
<1>7. \A p \in Indexes : p \in turn <=> (at < p /\ p <= e - 3) \/ Turned(s, c, v, e, p)
  BY <1>0, <1>2
<1>8. e - at = len
  BY <1>0
<1> QED
  BY <1>3, <1>4, <1>5, <1>6, <1>7, <1>8 DEF SamePlace, t

MoveAt(s, b, x, y, g) ==
  /\ OpenFrame(s) /\ b = s.built /\ ClosedAt(s, b) /\ b - s.shift <= Cap
  /\ g = FirstOf(s) + Delta /\ g < b
  /\ RunIn(FirstOf(s), b, x, y) /\ x <= g /\ g < y

IsCut(x, y, g) == x < g /\ g + 3 <= y

\* w is s after the run from x to y has been cut at g and all entries moved.
Moved(s, w, b, c, x, y, g) ==
  /\ w \in RunChain /\ w.shift = s.shift + Delta /\ w.built = b
  /\ \A d \in Byte :
       LET h == IF IsCut(x, y, g) /\ d = c /\ s.heads[c] = x - s.shift
                THEN g - s.shift ELSE s.heads[d]
       IN w.heads[d] = IF h > Delta THEN h - Delta ELSE 0
  /\ LenAt(w, g) = IF IsCut(x, y, g) THEN y - g ELSE LenAt(s, g)
  /\ DistAt(w, g) = IF IsCut(x, y, g) THEN Runs!NoDist ELSE DistAt(s, g)
  /\ \A q \in (g + 1)..(b - 1) :
       /\ LenAt(w, q) = LenAt(s, q)
       /\ DistAt(w, q) =
            IF IsCut(x, y, g)
               /\ (q <= y - 3 \/ Turned(s, c, x - s.shift, y - s.shift, q - s.shift))
            THEN DistAt(s, q) - (g - x) ELSE DistAt(s, q)

LEMMA MoveFacts ==
  ASSUME NEW s, NEW b, NEW x \in Nat, NEW y \in Nat, NEW g, MoveAt(s, b, x, y, g)
  PROVE  /\ s.shift \in Int /\ FirstOf(s) \in Nat /\ FirstOf(s) = s.shift + Low
         /\ s \in RunChain /\ b \in Nat /\ g \in Nat /\ y <= b /\ FirstOf(s) <= x
         /\ g - s.shift = Delta + Low /\ FirstOf(s) < g /\ b <= s.shift + Cap
         /\ \A q \in Nat : FirstOf(s) <= q /\ q < b => q - s.shift \in Indexes
         /\ \A d \in Byte : s.heads[d] \in Nat
         /\ Delta \in Nat /\ Low \in Nat /\ Delta > 0 /\ Low > 0 /\ Cap \in Nat
         /\ Delta + Low + 2 < Cap
<1>1. s.shift \in Int /\ FirstOf(s) = s.shift + Low /\ FirstOf(s) \in Nat /\ s \in RunChain
      /\ \A q \in Nat : FirstOf(s) <= q /\ q - s.shift < Cap => q - s.shift \in Indexes
  BY ShiftOf DEF MoveAt
<1>2. b \in Nat /\ \A d \in Byte : s.heads[d] \in Nat
  BY <1>1, ChainParts DEF MoveAt
<1>3. Delta \in Nat /\ Low \in Nat /\ Delta > 0 /\ Low > 0 /\ Cap \in Nat /\ Delta + Low + 2 < Cap
  BY Sizes, KeptAssumption
<1>4. g = FirstOf(s) + Delta /\ g < b /\ b - s.shift <= Cap
  BY DEF MoveAt
<1>5. y <= b /\ FirstOf(s) <= x
  BY DEF MoveAt, RunIn
<1>6. g \in Nat /\ g - s.shift = Delta + Low /\ FirstOf(s) < g /\ b <= s.shift + Cap
  BY <1>1, <1>2, <1>3, <1>4
<1>7. \A q \in Nat : FirstOf(s) <= q /\ q < b => q - s.shift \in Indexes
  BY <1>1, <1>2, <1>3, <1>6
<1> QED
  BY <1>1, <1>2, <1>3, <1>5, <1>6, <1>7

LEMMA MovedIs ==
  ASSUME NEW s, NEW b, NEW x \in Nat, NEW y \in Nat, NEW g, MoveAt(s, b, x, y, g),
         NEW c \in Byte, c = ByteOf(b - Runs!Kept)
  PROVE  Moved(s, Runs!MoveDown(Runs!CutRun(s)), b, c, x, y, g)
<1> DEFINE u == Runs!CutRun(s)
           w == Runs!MoveDown(u)
           at == g - s.shift
           v == x - s.shift
           e == y - s.shift
           d == DistAt(s, g)
<1>0. /\ s.shift \in Int /\ FirstOf(s) \in Nat /\ FirstOf(s) = s.shift + Low
      /\ s \in RunChain /\ b \in Nat /\ g \in Nat /\ y <= b /\ FirstOf(s) <= x
      /\ at = Delta + Low /\ FirstOf(s) < g /\ b <= s.shift + Cap
      /\ \A q \in Nat : FirstOf(s) <= q /\ q < b => q - s.shift \in Indexes
      /\ \A h \in Byte : s.heads[h] \in Nat
      /\ Delta \in Nat /\ Low \in Nat /\ Delta > 0 /\ Low > 0 /\ Cap \in Nat
      /\ Delta + Low + 2 < Cap
  BY MoveFacts
<1>1. /\ b = s.built /\ x <= g /\ g < y /\ g < b /\ Finished(s, x, y)
      /\ at \in Indexes /\ v \in Indexes
  <2>1. b = s.built /\ x <= g /\ g < y /\ g < b /\ RunIn(FirstOf(s), b, x, y) /\ ClosedAt(s, b)
    BY DEF MoveAt
  <2>2. Finished(s, x, y)
    BY <2>1 DEF ClosedAt
  <2>3. x < b
    BY <2>1, <1>0
  <2> QED
    BY <2>1, <2>2, <2>3, <1>0
<1>2. s.runs[at].dist = d /\ s.runs[at].len = LenAt(s, g) /\ s.runs[v].len = LenAt(s, x)
      /\ s.runs[at].len \in Int /\ s.runs[v].len \in Int /\ d \in Int
  BY <1>0, <1>1, ChainParts DEF DistAt, LenAt
\* The move alone, after whatever the cut has done.
<1>3. ASSUME u \in RunChain, u.shift = s.shift, u.built = s.built
      PROVE  /\ w \in RunChain /\ w.shift = s.shift + Delta /\ w.built = b
             /\ \A h \in Byte : w.heads[h] = IF u.heads[h] > Delta THEN u.heads[h] - Delta ELSE 0
             /\ \A q \in g..(b - 1) : DistAt(w, q) = u.runs[q - s.shift].dist
                                      /\ LenAt(w, q) = u.runs[q - s.shift].len
  <2> HIDE DEF u
  <2>1. /\ w \in RunChain /\ w.shift = u.shift + Delta /\ w.built = u.built
        /\ \A h \in Byte : w.heads[h] = IF u.heads[h] > Delta THEN u.heads[h] - Delta ELSE 0
        /\ \A p \in Indexes : Low <= p /\ p + Delta < Cap => w.runs[p] = u.runs[p + Delta]
    BY <1>3, MoveDownDoes
  <2> HIDE DEF w
  <2>2. ASSUME NEW q \in g..(b - 1)
        PROVE  DistAt(w, q) = u.runs[q - s.shift].dist /\ LenAt(w, q) = u.runs[q - s.shift].len
    <3> DEFINE p == q - s.shift - Delta
    <3>1. p \in Indexes /\ Low <= p /\ p + Delta < Cap /\ p + Delta = q - s.shift
          /\ p = q - w.shift
      BY <1>0, <1>3, <2>1 DEF Indexes
    <3>2. w.runs[p] = u.runs[p + Delta]
      BY <2>1, <3>1
    <3> HIDE DEF p
    <3> QED
      BY <3>1, <3>2 DEF DistAt, LenAt
  <2> QED
    BY <2>1, <2>2, <1>1, <1>3
<1>4. CASE ~IsCut(x, y, g)
  <2>1. d = Runs!NoDist \/ s.runs[at].len >= 3
    <3>1. CASE y < g + 3
      <4>1. g \in x..(y - 1) /\ g >= y - 2
        BY <1>0, <1>1, <3>1
      <4> QED
        BY <4>1, <1>1 DEF Finished
    <3>2. CASE g + 3 <= y
      <4>1. x = g
        BY <1>0, <1>1, <1>4, <3>2 DEF IsCut
      <4>2. LenAt(s, g) = y - x /\ y - x >= 3
        BY <4>1, <3>2, <1>1 DEF Finished
      <4> QED
        BY <4>2, <1>2
    <3> QED
      BY <3>1, <3>2, <1>0
  <2>2. u = s
    <3> HIDE DEF d, u
    <3>1. at = Delta + Low /\ d = s.runs[at].dist
      BY <1>0, <1>2
    <3>2. c = ByteOf(s.built - Runs!Kept)
      BY <1>1
    <3> HIDE DEF at
    <3>3. Runs!CutRun(s) = s
      BY <2>1, <3>1, <3>2, CutRunIs
    <3> QED
      BY <3>3 DEF u
  <2> HIDE DEF u
  <2>3. /\ w \in RunChain /\ w.shift = s.shift + Delta /\ w.built = b
        /\ \A h \in Byte : w.heads[h] = IF s.heads[h] > Delta THEN s.heads[h] - Delta ELSE 0
        /\ \A q \in g..(b - 1) : DistAt(w, q) = DistAt(s, q) /\ LenAt(w, q) = LenAt(s, q)
    BY <1>0, <1>3, <2>2 DEF DistAt, LenAt
  <2>4. g \in g..(b - 1) /\ (g + 1)..(b - 1) \subseteq g..(b - 1)
    BY <1>0, <1>1
  <2> HIDE DEF w
  <2>5. Moved(s, w, b, c, x, y, g)
    BY <2>3, <2>4, <1>4 DEF Moved
  <2> QED
    BY <2>5 DEF w, u
<1>5. CASE IsCut(x, y, g)
  <2>0. x < g /\ g + 3 <= y
    BY <1>5 DEF IsCut
  <2>1. d = g - x /\ LenAt(s, g) = 1 /\ LenAt(s, x) = y - x
    <3>1. g \in (x + 1)..(y - 1) /\ g < y - 2 /\ x + 3 <= y
      BY <2>0, <1>0
    <3> QED
      BY <3>1, <1>1 DEF Finished
  <2>2. d # Runs!NoDist
    BY <2>0, <2>1, <1>0 DEF Runs!NoDist
  <2>3. v = at - d /\ e = at + (s.runs[v].len - d) /\ at + 3 <= e /\ e - at = y - g
        /\ v \in Int /\ e \in Int
    BY <1>0, <1>2, <2>0, <2>1
  <2>4. /\ SamePlace(s, u)
        /\ \A h \in Byte :
             u.heads[h] = IF h = c /\ s.heads[c] = v THEN at ELSE s.heads[h]
        /\ u.runs[at].dist = Runs!NoDist /\ u.runs[at].len = e - at
        /\ \A p \in Indexes : p # at =>
             /\ u.runs[p].len = s.runs[p].len
             /\ u.runs[p].dist =
                  IF (at < p /\ p <= e - 3) \/ Turned(s, c, v, e, p)
                  THEN s.runs[p].dist - d ELSE s.runs[p].dist
    <3>1. s.runs[at].len < 3 /\ c = ByteOf(s.built - Runs!Kept)
      BY <1>1, <1>2, <2>1
    <3> HIDE DEF at, v, e, d, u
    <3> QED
      BY <3>1, <1>0, <1>1, <1>2, <2>2, <2>3, CutRunCuts DEF u
  <2> HIDE DEF u
  <2>5. u \in RunChain /\ u.shift = s.shift /\ u.built = s.built
    BY <2>4 DEF SamePlace
  <2>6. /\ w \in RunChain /\ w.shift = s.shift + Delta /\ w.built = b
        /\ \A h \in Byte : w.heads[h] = IF u.heads[h] > Delta THEN u.heads[h] - Delta ELSE 0
        /\ \A q \in g..(b - 1) : DistAt(w, q) = u.runs[q - s.shift].dist
                                 /\ LenAt(w, q) = u.runs[q - s.shift].len
    BY <1>3, <2>5
  <2> HIDE DEF w
  <2>7. LenAt(w, g) = y - g /\ DistAt(w, g) = Runs!NoDist
    <3>1. g \in g..(b - 1)
      BY <1>0, <1>1
    <3> QED
      BY <3>1, <2>3, <2>4, <2>6
  <2>8. ASSUME NEW q \in (g + 1)..(b - 1)
        PROVE  /\ LenAt(w, q) = LenAt(s, q)
               /\ DistAt(w, q) =
                    IF q <= y - 3 \/ Turned(s, c, v, e, q - s.shift)
                    THEN DistAt(s, q) - (g - x) ELSE DistAt(s, q)
    <3> DEFINE p == q - s.shift
    <3>1. q \in g..(b - 1) /\ q \in Nat /\ g < q /\ q < b
      BY <1>0, <1>1
    <3>2. p \in Indexes
      BY <3>1, <1>0
    <3>3. p # at /\ at < p /\ (p <= e - 3 <=> q <= y - 3)
      BY <3>1, <1>0
    <3>4. s.runs[p].len = LenAt(s, q) /\ s.runs[p].dist = DistAt(s, q)
      BY DEF LenAt, DistAt
    <3>5. DistAt(w, q) = u.runs[p].dist /\ LenAt(w, q) = u.runs[p].len
      BY <3>1, <2>6
    <3> HIDE DEF p, at, v, e
    <3>6. /\ u.runs[p].len = s.runs[p].len
          /\ u.runs[p].dist =
               IF (at < p /\ p <= e - 3) \/ Turned(s, c, v, e, p)
               THEN s.runs[p].dist - d ELSE s.runs[p].dist
      BY <3>2, <3>3, <2>4
    <3> QED
      BY <3>3, <3>4, <3>5, <3>6, <2>1 DEF p
  <2>9. ASSUME NEW h \in Byte
        PROVE  LET k == IF h = c /\ s.heads[c] = v THEN at ELSE s.heads[h]
               IN w.heads[h] = IF k > Delta THEN k - Delta ELSE 0
    BY <2>4, <2>6
  <2>10. Moved(s, w, b, c, x, y, g)
    BY <2>6, <2>7, <2>8, <2>9, <1>5 DEF Moved
  <2> QED
    BY <2>10 DEF w, u
<1> QED
  BY <1>4, <1>5

\* The runs after a move are those behind the run of g, and what is left of it.
LEMMA RunsAfterMove ==
  ASSUME NEW s, NEW b, NEW x \in Nat, NEW y \in Nat, NEW g, MoveAt(s, b, x, y, g),
         NEW v \in Nat, NEW w \in Nat, RunIn(g, b, v, w)
  PROVE  \/ v = g /\ w = y
         \/ g < v /\ y <= v /\ RunIn(FirstOf(s), b, v, w)
<1> DEFINE f == FirstOf(s)
<1>0. f \in Nat /\ b \in Nat /\ g \in Nat /\ f < g /\ y <= b /\ f <= x
  BY MoveFacts
<1>1. RunIn(f, b, x, y) /\ x <= g /\ g < y /\ g < b
  BY DEF MoveAt
<1> HIDE DEF f
<1>2. CASE v = g
  <2>1. ByteOf(g) = ByteOf(x)
    BY <1>0, <1>1 DEF RunIn
  <2>2. ~(w < y)
    BY <2>1, <1>0, <1>1, <1>2 DEF RunIn
  <2>3. ~(y < w)
    BY <2>1, <1>0, <1>1, <1>2 DEF RunIn
  <2> QED
    BY <1>2, <2>2, <2>3
<1>3. CASE v # g
  <2>1. g < v /\ RunIn(f, b, v, w)
    BY <1>0, <1>3 DEF RunIn, Begins
  <2>2. y <= v
    <3> SUFFICES ASSUME v < y PROVE FALSE
      BY <1>0
    <3>1. v < w
      BY <2>1 DEF RunIn
    <3>2. x = v
      <4>1. f \in Nat /\ b \in Nat /\ v \in Nat /\ x <= v /\ v < y /\ v <= v /\ v < w
        BY <2>1, <3>1, <1>0, <1>1
      <4>2. RunIn(f, b, x, y) /\ RunIn(f, b, v, w)
        BY <2>1, <1>1
      <4> QED
        BY <4>1, <4>2, OneRun
    <3> QED
      BY <2>1, <3>2, <1>0, <1>1
  <2> QED
    BY <2>1, <2>2 DEF f
<1> QED
  BY <1>2, <1>3

\* What leads to the start of the cut run is the start of a later run of its
\* byte, and the next one.
LEMMA PointerStarts ==
  ASSUME NEW s, NEW b, NEW x \in Nat, NEW y \in Nat, NEW g, MoveAt(s, b, x, y, g),
         NEW q \in Nat, y <= q, q < b, DistAt(s, q) = q - x
  PROVE  \E w \in Nat : /\ RunIn(FirstOf(s), b, q, w) /\ q + 3 <= w
                        /\ Latest(x - s.shift, LongRuns(FirstOf(s), q, ByteOf(q)), s.shift)
                        /\ ByteOf(q) = ByteOf(x)
<1> DEFINE f == FirstOf(s)
<1>0. /\ f \in Nat /\ b \in Nat /\ g \in Nat /\ f < g /\ y <= b /\ f <= x
      /\ s.shift \in Int /\ f = s.shift + Low /\ b <= s.shift + Cap /\ Cap \in Nat
      /\ Low \in Nat /\ Low > 0
  BY MoveFacts
<1>1. RunIn(f, b, x, y) /\ x <= g /\ g < y /\ ClosedAt(s, b)
  BY DEF MoveAt
<1>2. PICK v, w \in Nat : RunIn(f, b, v, w) /\ v <= q /\ q < w
  <2>1. f <= q
    BY <1>0, <1>1
  <2> HIDE DEF f
  <2> QED
    BY <2>1, <1>0, RunThrough
<1>3. Finished(s, v, w) /\ v \in Nat /\ w \in Nat
  BY <1>1, <1>2 DEF ClosedAt
<1>4. y <= v
  <2> SUFFICES ASSUME v < y PROVE FALSE
    BY <1>2
  <2>1. y - 1 \in Nat /\ x <= y - 1 /\ y - 1 < y /\ v <= y - 1 /\ y - 1 < w
    BY <1>0, <1>1, <1>2
  <2> HIDE DEF f
  <2>2. w = y
    BY <2>1, <1>0, <1>1, <1>2, OneRun
  <2> QED
    BY <2>2, <1>2
<1>5. q - x # Runs!NoDist
  BY <1>0 DEF Runs!NoDist
<1>6. v = q
  <2> SUFFICES ASSUME v < q PROVE FALSE
    BY <1>2
  <2>1. q \in v..(w - 1) /\ q \in (v + 1)..(w - 1)
    BY <1>2
  <2>2. q < w - 2 => DistAt(s, q) = q - v
    BY <2>1, <1>3 DEF Finished
  <2>3. q >= w - 2 => DistAt(s, q) = Runs!NoDist
    BY <2>1, <1>3 DEF Finished
  <2> QED
    BY <2>2, <2>3, <1>0, <1>1, <1>2, <1>4, <1>5
<1>7. q + 3 <= w
  <2> SUFFICES ASSUME q >= w - 2 PROVE FALSE
    BY <1>2
  <2>1. q \in v..(w - 1)
    BY <1>2
  <2> QED
    BY <2>1, <1>3, <1>5 DEF Finished
<1>8. Latest(x - s.shift, LongRuns(f, q, ByteOf(q)), s.shift)
  <2>1. LeadsBack(s, q)
    BY <1>3, <1>6, <1>7 DEF Finished
  <2>2. q - s.shift - DistAt(s, q) = x - s.shift
    BY <1>0
  <2> QED
    BY <2>1, <2>2 DEF LeadsBack
<1>9. ByteOf(q) = ByteOf(x)
  <2>1. Low <= x - s.shift /\ (x - s.shift) + s.shift = x
    BY <1>0
  <2>2. x \in LongRuns(f, q, ByteOf(q))
    BY <1>8, <2>1 DEF Latest
  <2> QED
    BY <2>2 DEF LongRuns
<1> QED
  BY <1>2, <1>3, <1>6, <1>7, <1>8, <1>9

LEMMA NextIsTurned ==
  ASSUME NEW s, NEW b, NEW x \in Nat, NEW y \in Nat, NEW g, MoveAt(s, b, x, y, g),
         x < g, g + 3 <= y, NEW c \in Byte,
         NEW v \in Nat, NEW w \in Nat, RunIn(FirstOf(s), b, v, w), v + 3 <= w, y <= v,
         DistAt(s, v) = v - x
  PROVE  Turned(s, c, x - s.shift, y - s.shift, v - s.shift)
<1> DEFINE f == FirstOf(s)
           d == ByteOf(v)
           P == Pointers(s, c, x - s.shift, y - s.shift)
<1>0. /\ f \in Nat /\ b \in Nat /\ g \in Nat /\ f < g /\ y <= b /\ f <= x
      /\ s.shift \in Int /\ f = s.shift + Low /\ b <= s.shift + Cap /\ Cap \in Nat
      /\ Low \in Nat /\ Low > 0 /\ \A h \in Byte : s.heads[h] \in Nat
  BY MoveFacts
<1>1. RunIn(f, b, x, y) /\ RunIn(f, b, v, w) /\ ClosedAt(s, b) /\ w <= b /\ v < b /\ v < w
  <2>1. RunIn(f, b, x, y) /\ ClosedAt(s, b) /\ w <= b
    BY DEF MoveAt, RunIn
  <2> QED
    BY <2>1, <1>0
<1>2. Latest(x - s.shift, LongRuns(f, v, d), s.shift) /\ d = ByteOf(x)
  BY <1>1, PointerStarts
<1>3. Low <= x - s.shift /\ (x - s.shift) + s.shift = x
  BY <1>0
<1>4. s.heads[c] # x - s.shift
  <2> SUFFICES ASSUME s.heads[c] = x - s.shift PROVE FALSE
    OBVIOUS
  <2>1. Latest(x - s.shift, LongRuns(f, b, c), s.shift)
    BY <1>1, <1>3 DEF ClosedAt
  <2>2. x \in LongRuns(f, b, c) /\ \A r \in LongRuns(f, b, c) : r <= x
    BY <2>1, <1>3 DEF Latest
  <2>3. c = d
    BY <2>2, <1>2 DEF LongRuns
  <2>4. v \in LongRuns(f, b, c)
    <3>1. v + 3 <= b
      BY <1>1, <1>0
    <3> HIDE DEF f
    <3> QED
      BY <2>3, <3>1, <1>0, RunIsLong DEF f
  <2> QED
    BY <2>2, <2>4, <1>0
<1>5. v - s.shift \in P
  <2>1. s.runs[v - s.shift].dist = (v - s.shift) - (x - s.shift)
    BY <1>0 DEF DistAt
  <2>2. v - s.shift \in (y - s.shift)..(Cap - 1)
    BY <1>0, <1>1
  <2> QED
    BY <2>1, <2>2, <1>4 DEF Pointers
<1>6. ASSUME NEW p \in P, p < v - s.shift PROVE FALSE
  <2> DEFINE q == p + s.shift
  <2>0. p \in (y - s.shift)..(Cap - 1) /\ s.runs[p].dist = p - (x - s.shift)
    BY DEF Pointers
  <2>1. q \in Nat /\ y <= q /\ q < v /\ q < b /\ q - s.shift = p /\ q - x = p - (x - s.shift)
    BY <2>0, <1>0, <1>1, <1>6
  <2> HIDE DEF q
  <2>2. DistAt(s, q) = q - x
    BY <2>0, <2>1 DEF DistAt
  <2>3. PICK z \in Nat : RunIn(f, b, q, z) /\ q + 3 <= z /\ ByteOf(q) = ByteOf(x)
    BY <2>1, <2>2, PointerStarts
  <2>4. z <= v
    <3> SUFFICES ASSUME v < z PROVE FALSE
      BY <2>3
    <3>0. z \in Nat /\ RunIn(f, b, q, z) /\ RunIn(f, b, v, w) /\ q <= v /\ v < z /\ v < w
          /\ f \in Nat /\ b \in Nat /\ q \in Nat /\ v \in Nat /\ w \in Nat /\ v <= v
      BY <2>1, <2>3, <1>0, <1>1
    <3> HIDE DEF f
    <3>1. q = v
      BY <3>0, OneRun
    <3> QED
      BY <3>1, <2>1
  <2>5. q \in LongRuns(f, v, d)
    <3>1. q + 3 <= v
      BY <2>1, <2>3, <2>4
    <3> HIDE DEF f
    <3> QED
      BY <3>1, <2>1, <2>3, <1>0, <1>2, RunIsLong
  <2>6. q <= x
    BY <2>5, <1>2, <1>3 DEF Latest
  <2> QED
    BY <2>6, <2>1, <1>0
<1>7. \A p \in P : v - s.shift <= p
  <2>1. \A p \in P : p \in Int
    BY <1>0 DEF Pointers
  <2> HIDE DEF P
  <2> QED
    BY <2>1, <1>0, <1>6
<1> QED
  BY <1>5, <1>7 DEF Turned

LEMMA FinishedAfterMove ==
  ASSUME NEW s, NEW b, NEW x \in Nat, NEW y \in Nat, NEW g, MoveAt(s, b, x, y, g),
         NEW c \in Byte, NEW t, Moved(s, t, b, c, x, y, g),
         NEW v \in Nat, NEW w \in Nat, RunIn(FirstOf(s), b, v, w), g < v, y <= v
  PROVE  Finished(t, v, w)
<1> DEFINE f == FirstOf(s)
           C == ByteOf(v)
           cut == IsCut(x, y, g)
           turned(q) == cut /\ Turned(s, c, x - s.shift, y - s.shift, q - s.shift)
<1>0. /\ f \in Nat /\ b \in Nat /\ g \in Nat /\ f < g /\ y <= b /\ f <= x
      /\ s.shift \in Int /\ f = s.shift + Low /\ b <= s.shift + Cap /\ Cap \in Nat
      /\ Low \in Nat /\ Low > 0 /\ g = f + Delta /\ Delta \in Nat /\ s \in RunChain
      /\ t.shift = s.shift + Delta /\ t \in RunChain /\ FirstOf(t) = g
  <2>1. t.shift = s.shift + Delta /\ t \in RunChain
    BY DEF Moved
  <2>2. /\ s.shift \in Int /\ FirstOf(s) \in Nat /\ FirstOf(s) = s.shift + Low
        /\ s \in RunChain /\ b \in Nat /\ g \in Nat /\ y <= b /\ FirstOf(s) <= x
        /\ FirstOf(s) < g /\ b <= s.shift + Cap
        /\ Delta \in Nat /\ Low \in Nat /\ Low > 0 /\ Cap \in Nat
    BY MoveFacts
  <2>3. g = FirstOf(s) + Delta
    BY DEF MoveAt
  <2>4. FirstOf(t) = t.shift + Low
    BY DEF FirstOf
  <2>5. FirstOf(t) = g
    BY <2>1, <2>2, <2>3, <2>4
  <2> QED
    BY <2>1, <2>2, <2>3, <2>5
<1>1. /\ RunIn(f, b, x, y) /\ x <= g /\ g < y /\ g < b /\ ClosedAt(s, b)
      /\ RunIn(f, b, v, w) /\ v < w /\ w <= b
  BY DEF MoveAt, RunIn
<1>2. Finished(s, v, w)
  BY <1>1 DEF ClosedAt
<1>3. ASSUME NEW q \in v..(w - 1)
      PROVE  /\ LenAt(t, q) = LenAt(s, q)
             /\ DistAt(t, q) = IF turned(q) THEN DistAt(s, q) - (g - x) ELSE DistAt(s, q)
  <2>1. q \in (g + 1)..(b - 1) /\ ~(q <= y - 3)
    BY <1>0, <1>1
  <2> QED
    BY <2>1 DEF Moved
\* Of this run only its start may lead to the cut one.
<1>4. ASSUME NEW q \in v..(w - 1), turned(q) PROVE DistAt(s, q) = q - x /\ q = v /\ v + 3 <= w
  <2>1. q \in Nat /\ y <= q /\ q < b /\ v <= q /\ q < w
    BY <1>0, <1>1
  <2>2. DistAt(s, q) = q - x
    <3>1. s.runs[q - s.shift].dist = (q - s.shift) - (x - s.shift)
      BY <1>4 DEF Turned, Pointers
    <3> QED
      BY <3>1, <2>1, <1>0 DEF DistAt
  <2>3. PICK z \in Nat : RunIn(f, b, q, z) /\ q + 3 <= z
    BY <2>1, <2>2, PointerStarts
  <2>4. q < z /\ z \in Nat
    BY <2>1, <2>3
  <2>5. q \in Nat /\ q <= q /\ q < z /\ v <= q /\ q < w /\ f \in Nat /\ b \in Nat
    BY <2>1, <2>4, <1>0
  <2>6. RunIn(f, b, q, z) /\ RunIn(f, b, v, w)
    BY <2>3, <1>1
  <2> HIDE DEF f
  <2>7. v = q /\ w = z
    BY <2>4, <2>5, <2>6, OneRun
  <2> QED
    BY <2>2, <2>3, <2>7
<1> HIDE DEF turned
<1>5. \A q \in v..(w - 1) : q >= w - 2 => DistAt(t, q) = Runs!NoDist
  <2> SUFFICES ASSUME NEW q \in v..(w - 1), q >= w - 2 PROVE DistAt(t, q) = Runs!NoDist
    OBVIOUS
  <2>1. ~turned(q)
    BY <1>4
  <2> QED
    BY <2>1, <1>2, <1>3 DEF Finished
<1>6. \A q \in (v + 1)..(w - 1) : LenAt(t, q) = 1 /\ (q < w - 2 => DistAt(t, q) = q - v)
  <2> SUFFICES ASSUME NEW q \in (v + 1)..(w - 1)
               PROVE  LenAt(t, q) = 1 /\ (q < w - 2 => DistAt(t, q) = q - v)
    OBVIOUS
  <2>1. q \in v..(w - 1) /\ q # v
    OBVIOUS
  <2>2. ~turned(q)
    BY <2>1, <1>4
  <2> QED
    BY <2>1, <2>2, <1>2, <1>3 DEF Finished
<1>7. ASSUME v + 3 <= w PROVE LenAt(t, v) = w - v /\ LeadsBack(t, v)
  <2>0. v \in v..(w - 1)
    BY <1>1
  <2>1. LenAt(s, v) = w - v /\ LeadsBack(s, v)
    BY <1>2, <1>7 DEF Finished
  <2> DEFINE n == v - s.shift - DistAt(s, v)
             k == v - t.shift - DistAt(t, v)
  <2>2. v - s.shift \in Indexes
    <3>1. f <= v /\ v < b
      BY <1>0, <1>1
    <3> QED
      BY <3>1, MoveFacts
  <2>3. DistAt(s, v) \in Int /\ n \in Int
    <3>1. DistAt(s, v) \in Int
      BY <2>2, <1>0, ChainParts DEF DistAt
    <3> QED
      BY <3>1, <1>0
  <2>4. Latest(n, LongRuns(f, v, C), s.shift)
    BY <2>1 DEF LeadsBack
  <2>5. \/ Latest(n - Delta, LongRuns(g, v, C), s.shift + Delta)
        \/ OfCutRun(n, x, y, g, C, s.shift) /\ Latest(Low, LongRuns(g, v, C), s.shift + Delta)
    <3>1. /\ f \in Nat /\ g \in Nat /\ b \in Nat /\ v \in Nat /\ v <= b /\ n \in Int
          /\ s.shift \in Int /\ f = s.shift + Low /\ g = f + Delta /\ x <= g /\ g < y
          /\ x \in Nat /\ y \in Nat
      BY <2>3, <1>0, <1>1
    <3>2. RunIn(f, b, x, y) /\ Latest(n, LongRuns(f, v, C), s.shift)
      BY <2>4, <1>1
    <3> HIDE DEF n, f, C
    <3> QED
      BY ONLY <3>1, <3>2, LatestMoves
  <2>6. CASE turned(v)
    <3>1. DistAt(s, v) = v - x /\ x < g /\ g + 3 <= y
      BY <2>0, <2>6, <1>4 DEF turned, IsCut
    <3>2. n = x - s.shift /\ k = Low
      <4>1. DistAt(t, v) = v - x - (g - x)
        BY <2>0, <2>6, <3>1, <1>3
      <4> QED
        BY <3>1, <4>1, <1>0
    <3>3. Latest(Low, LongRuns(g, v, C), s.shift + Delta)
      <4> SUFFICES ASSUME Latest(n - Delta, LongRuns(g, v, C), s.shift + Delta)
                   PROVE  FALSE
        BY <2>5
      <4>1. C = ByteOf(x)
        <5>1. Low <= n /\ n + s.shift = x
          BY <3>2, <1>0
        <5>2. x \in LongRuns(f, v, C)
          BY <5>1, <2>4 DEF Latest
        <5> QED
          BY <5>2 DEF LongRuns
      <4>2. g \in LongRuns(g, v, C)
        <5>1. /\ \A q \in x..(y - 1) : ByteOf(q) = ByteOf(x)
              /\ {g, g + 1, g + 2} \subseteq x..(y - 1) /\ g + 3 <= v
          BY <3>1, <1>0, <1>1 DEF RunIn
        <5> QED
          BY <5>1, <4>1, <1>0 DEF LongRuns, Begins
      <4>3. ~(Low <= n - Delta)
        BY <3>1, <3>2, <1>0
      <4> QED
        BY <4>2, <4>3 DEF Latest
    <3> QED
      BY <2>0, <2>1, <3>2, <3>3, <1>0, <1>3 DEF LeadsBack
  <2>7. CASE ~turned(v)
    <3>1. DistAt(t, v) = DistAt(s, v) /\ k = n - Delta
      <4>1. DistAt(t, v) = DistAt(s, v)
        BY <2>0, <2>7, <1>3
      <4> QED
        BY <4>1, <2>3, <1>0
    <3>2. ~(x < g /\ g + 3 <= y /\ n = x - s.shift)
      <4> SUFFICES ASSUME x < g, g + 3 <= y, n = x - s.shift PROVE FALSE
        OBVIOUS
      <4>1. DistAt(s, v) = v - x
        BY <2>3, <1>0
      <4>2. Turned(s, c, x - s.shift, y - s.shift, v - s.shift)
        BY <4>1, <1>7, NextIsTurned
      <4> QED
        BY <4>2, <2>7 DEF turned, IsCut
    <3>3. Latest(n - Delta, LongRuns(g, v, C), s.shift + Delta)
      BY <2>5, <3>2 DEF OfCutRun
    <3> QED
      BY <2>0, <2>1, <3>1, <3>3, <1>0, <1>3 DEF LeadsBack
  <2> QED
    BY <2>6, <2>7
<1> QED
  BY <1>5, <1>6, <1>7 DEF Finished

\* The run of g after the move: what is left of it is a run of its own.
LEMMA FinishedAtMove ==
  ASSUME NEW s, NEW b, NEW x \in Nat, NEW y \in Nat, NEW g, MoveAt(s, b, x, y, g),
         NEW c \in Byte, NEW t, Moved(s, t, b, c, x, y, g)
  PROVE  Finished(t, g, y)
<1> DEFINE f == FirstOf(s)
           C == ByteOf(g)
<1>0. /\ f \in Nat /\ b \in Nat /\ g \in Nat /\ f < g /\ y <= b /\ f <= x
      /\ s.shift \in Int /\ f = s.shift + Low
      /\ Low \in Nat /\ Cap \in Nat /\ Delta \in Nat /\ Delta + Low + 2 < Cap /\ g = f + Delta
      /\ t.shift = s.shift + Delta
  <2>1. t.shift = s.shift + Delta
    BY DEF Moved
  <2>2. g = f + Delta
    BY DEF MoveAt
  <2> HIDE DEF f
  <2>3. /\ f = FirstOf(s)
    BY DEF f
  <2> QED
    BY <2>1, <2>2, <2>3, MoveFacts
<1>1. RunIn(f, b, x, y) /\ x <= g /\ g < y /\ ClosedAt(s, b) /\ x < y
  BY DEF MoveAt, RunIn
<1>2. Finished(s, x, y)
  BY <1>1 DEF ClosedAt
<1>3. /\ LenAt(t, g) = IF IsCut(x, y, g) THEN y - g ELSE LenAt(s, g)
      /\ DistAt(t, g) = IF IsCut(x, y, g) THEN Runs!NoDist ELSE DistAt(s, g)
  BY DEF Moved
<1>4. ASSUME NEW q \in (g + 1)..(y - 1)
      PROVE  /\ LenAt(t, q) = LenAt(s, q)
             /\ DistAt(t, q) = IF IsCut(x, y, g) /\ q <= y - 3
                               THEN DistAt(s, q) - (g - x) ELSE DistAt(s, q)
  <2>1. q \in (g + 1)..(b - 1)
    BY <1>0
  <2>2. ~Turned(s, c, x - s.shift, y - s.shift, q - s.shift)
    <3>1. q - s.shift \notin (y - s.shift)..(Cap - 1)
      BY <1>0
    <3> QED
      BY <3>1 DEF Turned, Pointers
  <2> QED
    BY <2>1, <2>2 DEF Moved
<1>5. \A q \in (x + 1)..(y - 1) : LenAt(s, q) = 1 /\ (q < y - 2 => DistAt(s, q) = q - x)
  BY <1>2 DEF Finished
<1>6. \A q \in x..(y - 1) : q >= y - 2 => DistAt(s, q) = Runs!NoDist
  BY <1>2 DEF Finished
<1> HIDE DEF f
<1>7. CASE IsCut(x, y, g)
  <2>0. x < g /\ g + 3 <= y
    BY <1>7 DEF IsCut
  <2>1. \A q \in g..(y - 1) : q >= y - 2 => DistAt(t, q) = Runs!NoDist
    <3> SUFFICES ASSUME NEW q \in g..(y - 1), q >= y - 2 PROVE DistAt(t, q) = Runs!NoDist
      OBVIOUS
    <3>1. q \in (g + 1)..(y - 1) /\ q \in x..(y - 1) /\ ~(q <= y - 3)
      BY <1>0, <1>1, <2>0
    <3> QED
      BY <3>1, <1>4, <1>6
  <2>2. \A q \in (g + 1)..(y - 1) : LenAt(t, q) = 1 /\ (q < y - 2 => DistAt(t, q) = q - g)
    <3> SUFFICES ASSUME NEW q \in (g + 1)..(y - 1)
                 PROVE  LenAt(t, q) = 1 /\ (q < y - 2 => DistAt(t, q) = q - g)
      OBVIOUS
    <3>1. q \in (x + 1)..(y - 1)
      BY <1>0, <1>1
    <3>2. LenAt(t, q) = 1
      BY <3>1, <1>4, <1>5
    <3>3. ASSUME q < y - 2 PROVE DistAt(t, q) = q - g
      <4>1. q <= y - 3 /\ DistAt(s, q) = q - x
        BY <3>1, <3>3, <1>0, <1>5
      <4>2. DistAt(t, q) = DistAt(s, q) - (g - x)
        BY <4>1, <1>4, <1>7
      <4>3. q - x - (g - x) = q - g
        BY <1>0
      <4> QED
        BY <4>1, <4>2, <4>3
    <3> QED
      BY <3>2, <3>3
  <2>3. LeadsBack(t, g)
    <3>1. LongRuns(g, g, C) = {}
      BY <1>0 DEF LongRuns
    <3>2. DistAt(t, g) = Cap - 1
      BY <1>3, <1>7 DEF Runs!NoDist
    <3>3. ~(Low <= (g - t.shift) - DistAt(t, g))
      BY <3>2, <1>0
    <3>4. FirstOf(t) = g
      BY <1>0 DEF FirstOf
    <3> QED
      BY <3>1, <3>3, <3>4 DEF LeadsBack, Latest
  <2> QED
    BY <2>1, <2>2, <2>3, <1>3, <1>7 DEF Finished
<1>8. CASE ~IsCut(x, y, g)
  <2>0. y <= g + 2 \/ x = g
    BY <1>0, <1>1, <1>8 DEF IsCut
  <2>1. \A q \in g..(y - 1) : LenAt(t, q) = LenAt(s, q) /\ DistAt(t, q) = DistAt(s, q)
    <3> SUFFICES ASSUME NEW q \in g..(y - 1)
                 PROVE  LenAt(t, q) = LenAt(s, q) /\ DistAt(t, q) = DistAt(s, q)
      OBVIOUS
    <3>1. q = g \/ q \in (g + 1)..(y - 1)
      BY <1>0
    <3> QED
      BY <3>1, <1>3, <1>4, <1>8
  <2>2. \A q \in g..(y - 1) : q >= y - 2 => DistAt(t, q) = Runs!NoDist
    <3> SUFFICES ASSUME NEW q \in g..(y - 1), q >= y - 2 PROVE DistAt(t, q) = Runs!NoDist
      OBVIOUS
    <3>1. q \in x..(y - 1)
      BY <1>0, <1>1
    <3> QED
      BY <3>1, <2>1, <1>6
  <2>3. \A q \in (g + 1)..(y - 1) : LenAt(t, q) = 1 /\ (q < y - 2 => DistAt(t, q) = q - g)
    <3> SUFFICES ASSUME NEW q \in (g + 1)..(y - 1)
                 PROVE  LenAt(t, q) = 1 /\ (q < y - 2 => DistAt(t, q) = q - g)
      OBVIOUS
    <3>1. q \in (x + 1)..(y - 1) /\ q \in g..(y - 1) /\ (q < y - 2 => x = g)
      BY <1>0, <1>1, <2>0
    <3> QED
      BY <3>1, <2>1, <1>5
  <2>4. ASSUME g + 3 <= y PROVE LenAt(t, g) = y - g /\ LeadsBack(t, g)
    <3>0. x = g /\ g \in g..(y - 1)
      BY <2>0, <2>4, <1>0, <1>1
    <3>1. LenAt(s, g) = y - g /\ LeadsBack(s, g)
      BY <3>0, <2>4, <1>2 DEF Finished
    <3> DEFINE n == g - s.shift - DistAt(s, g)
               k == g - t.shift - DistAt(t, g)
    <3>2. n \in Int /\ k = n - Delta
      <4>1. g < b
        BY <1>0, <1>1
      <4>2. g - s.shift \in Indexes /\ s \in RunChain
        <5>1. /\ s \in RunChain
              /\ \A q \in Nat : FirstOf(s) <= q /\ q < b => q - s.shift \in Indexes
          BY MoveFacts
        <5>2. FirstOf(s) <= g
          BY <1>0 DEF f
        <5> QED
          BY <5>1, <5>2, <4>1, <1>0
      <4>3. DistAt(s, g) \in Int
        BY <4>2, ChainParts DEF DistAt
      <4>4. DistAt(t, g) = DistAt(s, g)
        BY <2>1, <3>0
      <4> QED
        BY <4>3, <4>4, <1>0
    <3>3. Latest(n, LongRuns(f, g, C), s.shift)
      BY <3>1 DEF LeadsBack, f
    <3>4. \/ Latest(n - Delta, LongRuns(g, g, C), s.shift + Delta)
          \/ OfCutRun(n, x, y, g, C, s.shift) /\ Latest(Low, LongRuns(g, g, C), s.shift + Delta)
      <4>1. /\ f \in Nat /\ g \in Nat /\ b \in Nat /\ g <= b /\ n \in Int
            /\ s.shift \in Int /\ f = s.shift + Low /\ g = f + Delta /\ x <= g /\ g < y
            /\ x \in Nat /\ y \in Nat
        BY <3>2, <1>0, <1>1
      <4>2. RunIn(f, b, x, y) /\ Latest(n, LongRuns(f, g, C), s.shift)
        BY <3>3, <1>1
      <4> HIDE DEF n, C
      <4> QED
        BY ONLY <4>1, <4>2, LatestMoves
    <3>5. Latest(n - Delta, LongRuns(g, g, C), s.shift + Delta)
      <4>1. ~OfCutRun(n, x, y, g, C, s.shift)
        BY <3>0, <1>0 DEF OfCutRun
      <4> QED
        BY <3>4, <4>1
    <3>6. FirstOf(t) = g
      BY <1>0 DEF FirstOf
    <3>7. LenAt(t, g) = y - g
      BY <3>0, <3>1, <2>1
    <3>8. LeadsBack(t, g)
      BY <3>2, <3>5, <3>6, <1>0 DEF LeadsBack
    <3> QED
      BY <3>7, <3>8
  <2> QED
    BY <2>2, <2>3, <2>4 DEF Finished
<1> QED
  BY <1>7, <1>8

\* The heads after a move.  When more is to be entered, the byte whose head is
\* adapted is that of the cut run.
LEMMA HeadsAfterMove ==
  ASSUME NEW s, NEW b, NEW x \in Nat, NEW y \in Nat, NEW g, MoveAt(s, b, x, y, g),
         NEW c \in Byte, NEW t, Moved(s, t, b, c, x, y, g), NEW C \in Byte,
         \/ Low <= s.heads[C]
         \/ Latest(s.heads[C], LongRuns(FirstOf(s), b, C), s.shift),
         \/ Low <= t.heads[C]
         \/ c = ByteOf(g)
  PROVE  Latest(t.heads[C], LongRuns(g, b, C), t.shift)
<1> DEFINE f == FirstOf(s)
           h == s.heads[C]
           n == t.heads[C]
<1>0. /\ f \in Nat /\ b \in Nat /\ g \in Nat /\ f < g /\ y <= b /\ f <= x
      /\ s.shift \in Int /\ f = s.shift + Low /\ h \in Nat
      /\ Low \in Nat /\ Low > 0 /\ Delta \in Nat /\ Delta > 0 /\ g = f + Delta
      /\ t.shift = s.shift + Delta /\ n \in Nat
  <2>1. t.shift = s.shift + Delta /\ t \in RunChain
    BY DEF Moved
  <2>2. g = f + Delta
    BY DEF MoveAt
  <2>3. n \in Nat
    BY <2>1, ChainParts
  <2> HIDE DEF f, n
  <2>4. f = FirstOf(s)
    BY DEF f
  <2>5. h \in Nat
    BY MoveFacts
  <2> HIDE DEF h
  <2> QED
    BY <2>1, <2>2, <2>3, <2>4, <2>5, MoveFacts
<1>1. RunIn(f, b, x, y) /\ x <= g /\ g < y /\ ClosedAt(s, b) /\ x < y
  BY DEF MoveAt, RunIn
<1>2. Latest(h, LongRuns(f, b, C), s.shift)
  BY <1>1 DEF ClosedAt
<1>3. n = IF IsCut(x, y, g) /\ C = c /\ s.heads[c] = x - s.shift
          THEN Low
          ELSE IF h > Delta THEN h - Delta ELSE 0
  <2>1. LET k == IF IsCut(x, y, g) /\ C = c /\ s.heads[c] = x - s.shift
                 THEN g - s.shift ELSE h
        IN n = IF k > Delta THEN k - Delta ELSE 0
    BY DEF Moved
  <2>2. g - s.shift = Delta + Low
    BY <1>0
  <2> HIDE DEF n, h
  <2>3. CASE IsCut(x, y, g) /\ C = c /\ s.heads[c] = x - s.shift
    <3>1. n = IF g - s.shift > Delta THEN g - s.shift - Delta ELSE 0
      BY <2>1, <2>3
    <3> QED
      BY <3>1, <2>2, <2>3, <1>0
  <2>4. CASE ~(IsCut(x, y, g) /\ C = c /\ s.heads[c] = x - s.shift)
    BY <2>1, <2>4
  <2> QED
    BY <2>3, <2>4
<1> SUFFICES Latest(n, LongRuns(g, b, C), s.shift + Delta)
  BY <1>0
<1> HIDE DEF f, h, n
<1>4. \/ Latest(h - Delta, LongRuns(g, b, C), s.shift + Delta)
      \/ OfCutRun(h, x, y, g, C, s.shift) /\ Latest(Low, LongRuns(g, b, C), s.shift + Delta)
  <2>1. /\ f \in Nat /\ g \in Nat /\ b \in Nat /\ b <= b /\ h \in Int
        /\ s.shift \in Int /\ f = s.shift + Low /\ g = f + Delta /\ x <= g /\ g < y
        /\ x \in Nat /\ y \in Nat
    BY <1>0, <1>1
  <2> QED
    BY ONLY <2>1, <1>1, <1>2, LatestMoves
\* The head of the cut run is adapted.
<1>5. CASE IsCut(x, y, g) /\ C = c /\ s.heads[c] = x - s.shift
  <2>1. n = Low
    BY <1>3, <1>5
  <2>2. ~Latest(h - Delta, LongRuns(g, b, C), s.shift + Delta)
    <3>1. h = x - s.shift
      BY <1>5 DEF h
    <3>2. Low <= h /\ h + s.shift = x /\ ~(Low <= h - Delta)
      BY <3>1, <1>0, <1>5 DEF IsCut
    <3>3. x \in LongRuns(f, b, C)
      BY <3>2, <1>2 DEF Latest
    <3>4. C = ByteOf(x)
      BY <3>3 DEF LongRuns
    <3>5. g \in LongRuns(g, b, C)
      <4>1. /\ \A q \in x..(y - 1) : ByteOf(q) = ByteOf(x)
            /\ {g, g + 1, g + 2} \subseteq x..(y - 1) /\ g + 3 <= b
        BY <1>0, <1>1, <1>5 DEF RunIn, IsCut
      <4> QED
        BY <4>1, <3>4, <1>0 DEF LongRuns, Begins
    <3> QED
      BY <3>2, <3>5 DEF Latest
  <2> QED
    BY <2>1, <2>2, <1>0, <1>4
<1>6. CASE ~(IsCut(x, y, g) /\ C = c /\ s.heads[c] = x - s.shift)
  <2>1. n = IF h > Delta THEN h - Delta ELSE 0
    BY <1>3, <1>6
  <2>2. ~OfCutRun(h, x, y, g, C, s.shift)
    <3> SUFFICES ASSUME OfCutRun(h, x, y, g, C, s.shift) PROVE FALSE
      OBVIOUS
    <3>1. x < g /\ g + 3 <= y /\ C = ByteOf(x) /\ h = x - s.shift
      BY DEF OfCutRun
    <3>2. ~(Low <= n)
      BY <3>1, <2>1, <1>0
    <3>3. c = ByteOf(g)
      BY <3>2 DEF n
    <3>4. ByteOf(g) = ByteOf(x)
      <4>1. g \in x..(y - 1)
        BY <1>0, <1>1
      <4> QED
        BY <4>1, <1>1 DEF RunIn
    <3> QED
      BY <3>1, <3>3, <3>4, <1>6 DEF IsCut, h
  <2>3. Latest(h - Delta, LongRuns(g, b, C), s.shift + Delta)
    BY <2>2, <1>4
  <2>4. CASE h > Delta
    BY <2>1, <2>3, <2>4, <1>0
  <2>5. CASE ~(h > Delta)
    <3>1. ~(Low <= h - Delta) /\ ~(Low <= n)
      BY <2>1, <2>5, <1>0
    <3> QED
      BY <3>1, <2>3 DEF Latest
  <2> QED
    BY <2>4, <2>5
<1> QED
  BY <1>5, <1>6

LEMMA MoveCloses ==
  ASSUME NEW s, NEW b, NEW x \in Nat, NEW y \in Nat, NEW g, MoveAt(s, b, x, y, g),
         NEW c \in Byte, NEW t, Moved(s, t, b, c, x, y, g),
         b < Len(input) => c = ByteOf(g) /\ g + 3 <= b
  PROVE  ClosedAt(t, b) /\ FirstOf(t) = g /\ OpenFrame(t)
<1> DEFINE f == FirstOf(s)
<1>0. /\ f \in Nat /\ b \in Nat /\ g \in Nat /\ f < g /\ y <= b /\ f <= x
      /\ s.shift \in Int /\ f = s.shift + Low /\ Low \in Nat /\ Low > 0
      /\ Delta \in Nat /\ Delta > 0 /\ g = f + Delta
      /\ t \in RunChain /\ t.shift = s.shift + Delta
  <2>1. t.shift = s.shift + Delta /\ t \in RunChain
    BY DEF Moved
  <2>2. g = f + Delta
    BY DEF MoveAt
  <2> HIDE DEF f
  <2>3. f = FirstOf(s)
    BY DEF f
  <2> QED
    BY <2>1, <2>2, <2>3, MoveFacts
<1>1. RunIn(f, b, x, y) /\ x <= g /\ g < y /\ ClosedAt(s, b) /\ x < y
  BY DEF MoveAt, RunIn
<1>2. FirstOf(t) = g
  BY <1>0 DEF FirstOf
<1>3. OpenFrame(t)
  BY <1>0, <1>2 DEF OpenFrame
<1>4. \A v, w \in Nat : RunIn(g, b, v, w) => Finished(t, v, w)
  <2> SUFFICES ASSUME NEW v \in Nat, NEW w \in Nat, RunIn(g, b, v, w) PROVE Finished(t, v, w)
    OBVIOUS
  <2>1. \/ v = g /\ w = y
        \/ g < v /\ y <= v /\ RunIn(FirstOf(s), b, v, w)
    BY RunsAfterMove
  <2>2. CASE v = g /\ w = y
    BY <2>2, FinishedAtMove
  <2>3. CASE g < v /\ y <= v /\ RunIn(FirstOf(s), b, v, w)
    BY <2>3, FinishedAfterMove
  <2> QED
    BY <2>1, <2>2, <2>3
<1>5. \A C \in Byte : Low <= t.heads[C] => Latest(t.heads[C], LongRuns(g, b, C), t.shift)
  <2> SUFFICES ASSUME NEW C \in Byte, Low <= t.heads[C]
               PROVE  Latest(t.heads[C], LongRuns(g, b, C), t.shift)
    OBVIOUS
  <2>1. Low <= s.heads[C]
    <3>1. LET k == IF IsCut(x, y, g) /\ C = c /\ s.heads[c] = x - s.shift
                   THEN g - s.shift ELSE s.heads[C]
          IN t.heads[C] = IF k > Delta THEN k - Delta ELSE 0
      BY DEF Moved
    <3>2. s.heads[C] \in Nat /\ s.heads[c] \in Nat
      BY MoveFacts
    <3>3. CASE IsCut(x, y, g) /\ C = c /\ s.heads[c] = x - s.shift
      BY <3>3, <1>0
    <3>4. CASE ~(IsCut(x, y, g) /\ C = c /\ s.heads[c] = x - s.shift)
      BY <3>1, <3>2, <3>4, <1>0
    <3> QED
      BY <3>3, <3>4
  <2> QED
    BY <2>1, HeadsAfterMove
<1>6. ASSUME b < Len(input)
      PROVE  /\ HeadsLatest(t, b)
             /\ \A v \in Nat : RunIn(g, b, v, b) => LenAt(t, v) = b - v
  <2>1. HeadsLatest(s, b) /\ \A v \in Nat : RunIn(f, b, v, b) => LenAt(s, v) = b - v
    BY <1>1, <1>6 DEF ClosedAt
  <2>2. HeadsLatest(t, b)
    <3> SUFFICES ASSUME NEW C \in Byte
                 PROVE  Latest(t.heads[C], LongRuns(g, b, C), t.shift)
      BY <1>2 DEF HeadsLatest
    <3>1. Latest(s.heads[C], LongRuns(FirstOf(s), b, C), s.shift)
      BY <2>1 DEF HeadsLatest
    <3> QED
      BY <3>1, <1>6, HeadsAfterMove
  <2>3. ASSUME NEW v \in Nat, RunIn(g, b, v, b) PROVE LenAt(t, v) = b - v
    <3>1. \/ v = g /\ b = y
          \/ g < v /\ y <= v /\ RunIn(FirstOf(s), b, v, b)
      BY <2>3, <1>0, RunsAfterMove
    <3>2. CASE v = g /\ b = y
      <4>1. LenAt(t, g) = IF IsCut(x, y, g) THEN y - g ELSE LenAt(s, g)
        BY DEF Moved
      <4>2. ASSUME ~IsCut(x, y, g) PROVE LenAt(s, g) = b - g
        <5>1. x = g
          BY <4>2, <3>2, <1>0, <1>1, <1>6 DEF IsCut
        <5> QED
          BY <5>1, <3>2, <2>1, <1>1
      <4> QED
        BY <4>1, <4>2, <3>2
    <3>3. CASE g < v /\ y <= v /\ RunIn(FirstOf(s), b, v, b)
      <4>1. v \in (g + 1)..(b - 1)
        BY <3>3, <1>0 DEF RunIn
      <4>2. LenAt(t, v) = LenAt(s, v)
        BY <4>1 DEF Moved
      <4> QED
        BY <4>2, <3>3, <2>1
    <3> QED
      BY <3>1, <3>2, <3>3
  <2> QED
    BY <2>2, <2>3
<1>7. ClosedAt(t, b)
  <2>1. /\ \A v, w \in Nat : RunIn(FirstOf(t), b, v, w) => Finished(t, v, w)
        /\ \A C \in Byte : Low <= t.heads[C] => Latest(t.heads[C], LongRuns(FirstOf(t), b, C), t.shift)
        /\ b < Len(input) => /\ HeadsLatest(t, b)
                             /\ \A v \in Nat : RunIn(FirstOf(t), b, v, b) => LenAt(t, v) = b - v
    BY <1>2, <1>4, <1>5, <1>6
  <2> QED
    BY <2>1, <1>0 DEF ClosedAt
<1> QED
  BY <1>2, <1>3, <1>7

\* _reshift: the arrays move down, and what there is now room for is entered.
LEMMA ReshiftCloses ==
  ASSUME input \in Seq(Byte), NEW s, Full(s), OpenFrame(s), ClosedAt(s, s.built),
         FirstOf(s) + Delta < s.built, Runs!Kept <= s.built
  PROVE  LET t == Runs!Reshift(s)
         IN OpenFrame(t) /\ ClosedAt(t, t.built)
<1> DEFINE f == FirstOf(s)
           b == s.built
           g == f + Delta
           c == ByteOf(b - Runs!Kept)
           moved == Runs!MoveDown(Runs!CutRun(s))
           size == Runs!LowerOf(Delta, Len(input) - b)
<1>0. /\ s.shift \in Int /\ f \in Nat /\ f = s.shift + Low /\ b \in Nat /\ g \in Nat
      /\ f <= g /\ g < b
      /\ b <= s.shift + Cap /\ b <= Len(input)
      /\ b < Len(input) => b = s.shift + Cap
      /\ Low \in Nat /\ Delta \in Nat /\ Delta > 0 /\ Cap \in Nat /\ Len(input) \in Nat
      /\ Runs!Kept = Cap - (Delta + Low) /\ Runs!Kept >= 3
  <2>1. s.shift \in Int /\ f \in Nat /\ f = s.shift + Low /\ b \in Nat
    BY ShiftOf, ChainParts
  <2>2. b = IF s.shift + Cap < Len(input) THEN s.shift + Cap ELSE Len(input)
    BY DEF Full, Runs!LowerOf
  <2>3. Runs!Kept = Cap - (Delta + Low) /\ Runs!Kept >= 3
    BY KeptAssumption DEF Runs!Kept
  <2>4. Len(input) \in Nat
    OBVIOUS
  <2>5. g < b
    OBVIOUS
  <2> HIDE DEF f, b
  <2> QED
    BY <2>1, <2>2, <2>3, <2>4, <2>5, Sizes
<1>1. PICK x, y \in Nat : RunIn(f, b, x, y) /\ x <= g /\ g < y
  <2> HIDE DEF f, b, g
  <2> QED
    BY <1>0, RunThrough
<1>2. MoveAt(s, b, x, y, g)
  <2>1. b - s.shift <= Cap
    BY <1>0
  <2> QED
    BY <2>1, <1>1, <1>0 DEF MoveAt
<1>3. c \in Byte
  <2>1. b - Runs!Kept \in Nat /\ b - Runs!Kept < Len(input)
    BY <1>0
  <2> QED
    BY <2>1, ByteIn
<1>4. Moved(s, moved, b, c, x, y, g)
  <2> HIDE DEF b, c, g, moved
  <2>1. c = ByteOf(b - Runs!Kept) /\ moved = Runs!MoveDown(Runs!CutRun(s))
    BY DEF c, moved
  <2> QED
    BY <2>1, <1>2, <1>3, MovedIs
<1>5. ClosedAt(moved, b) /\ FirstOf(moved) = g /\ OpenFrame(moved)
  <2>1. b < Len(input) => c = ByteOf(g) /\ g + 3 <= b
    <3>1. b < Len(input) => b - Runs!Kept = g
      BY <1>0
    <3> QED
      BY <3>1, <1>0
  <2> HIDE DEF b, c, g, moved
  <2> QED
    BY <2>1, <1>2, <1>3, <1>4, MoveCloses
<1>6. moved.built = b /\ moved.shift = s.shift + Delta
  BY <1>4 DEF Moved
<1>7. Runs!Reshift(s) = Runs!Build(moved, Low + Runs!Kept, size)
  BY DEF Runs!Reshift
<1>8. size \in Nat /\ size <= Delta /\ b + size <= Len(input)
  <2> HIDE DEF b
  <2> QED
    BY <1>0 DEF Runs!LowerOf
<1> HIDE DEF moved, size, g, b, f, c
<1>9. CASE size = 0
  <2>1. Runs!Reshift(s) = moved
    BY <1>7, <1>9 DEF Runs!Build
  <2> QED
    BY <2>1, <1>5, <1>6
<1>10. CASE size # 0
  <2>1. b < Len(input) /\ b = s.shift + Cap
    BY <1>0, <1>8, <1>10
  <2>2. Low + Runs!Kept = moved.built - moved.shift
    BY <2>1, <1>0, <1>6
  <2>3. PartFits(moved, size)
    <3>0. b - Runs!Kept = g
      BY <2>1, <1>0 DEF g
    <3>1. g <= b /\ g + 3 <= b
      BY <3>0, <1>0
    <3>2. b + size - moved.shift <= Cap
      <4> DEFINE m == moved.shift
      <4>1. m = s.shift + Delta /\ m \in Int /\ s.shift \in Int /\ b = s.shift + Cap
            /\ b \in Nat /\ Cap \in Nat /\ Delta \in Nat /\ size \in Nat /\ size <= Delta
        <5>1. m = s.shift + Delta
          BY <1>6
        <5> QED
          BY <5>1, <2>1, <1>0, <1>8
      <4> HIDE DEF m
      <4>2. b + size - m <= Cap
        BY <4>1, SMTT(30)
      <4> QED
        BY <4>2 DEF m
    <3> QED
      BY <3>1, <3>2, <1>5, <1>6, <1>8 DEF PartFits
  <2> DEFINE t == Runs!Build(moved, moved.built - moved.shift, size)
  <2>4. t.shift = moved.shift /\ ClosedAt(t, t.built)
    BY <2>3, <1>8, BuildCloses
  <2>5. Runs!Reshift(s) = t
    BY <2>2, <1>7
  <2> HIDE DEF t
  <2>6. FirstOf(t) = FirstOf(moved)
    BY <2>4 DEF FirstOf
  <2> QED
    BY <2>4, <2>5, <2>6, <1>5 DEF OpenFrame, ClosedAt
<1> QED
  BY <1>9, <1>10

\* The loop of updateSeq, at a position that the predictor may reach.
LEMMA CaughtCloses ==
  ASSUME input \in Seq(Byte), NEW s, Full(s), OpenFrame(s), ClosedAt(s, s.built),
         NEW at \in Nat, at <= Len(input) + 2
  PROVE  LET t == Runs!Caught(s, at)
         IN OpenFrame(t) /\ ClosedAt(t, t.built)
<1> DEFINE n == at \div Delta + 1
           e == TurnsIn(s, at, n)
           Right(k) == Full(e[k]) /\ OpenFrame(e[k]) /\ ClosedAt(e[k], e[k].built)
           Wrong == {k \in Nat : k <= n /\ ~Right(k)}
<1>0. at \div Delta \in Nat
  <2>1. Delta \in Nat \ {0}
    BY Sizes
  <2> QED
    BY <2>1, SMT
<1>1. n \in Nat /\ Runs!Caught(s, at) = e[n]
  BY <1>0 DEF Runs!Caught, TurnsIn
<1>2. /\ e[0] = s
      /\ \A i \in 1..n :
           e[i] = IF at - e[i - 1].shift >= Threshold THEN Runs!Reshift(e[i - 1]) ELSE e[i - 1]
  BY <1>1, TurnsInOf DEF Threshold, Runs!Threshold
<1> HIDE DEF e, n
<1>3. Right(0)
  BY <1>2
<1>4. ASSUME NEW k \in 1..n, Right(k - 1) PROVE Right(k)
  <2> DEFINE t == e[k - 1]
  <2>1. Full(t) /\ OpenFrame(t) /\ ClosedAt(t, t.built) /\ Len(input) \in Nat
    BY <1>4
  <2>2. e[k] = IF at - t.shift >= Threshold THEN Runs!Reshift(t) ELSE t
    BY <1>2
  <2> HIDE DEF t
  <2>3. CASE at - t.shift >= Threshold
    <3>1. t.shift \in Int /\ FirstOf(t) = t.shift + Low /\ FirstOf(t) \in Nat
      BY <2>1, ShiftOf
    <3>2. t.built = IF t.shift + Cap < Len(input) THEN t.shift + Cap ELSE Len(input)
      BY <2>1 DEF Full, Runs!LowerOf
    <3>3. /\ Low \in Nat /\ Delta \in Nat /\ Cap \in Nat /\ Window \in Nat /\ MaxBlk \in Nat
          /\ Threshold = Delta + Window + Low /\ Threshold + MaxBlk <= Cap
          /\ Low > 0 /\ Window >= 3
          /\ Runs!Kept = Cap - (Delta + Low) /\ Runs!Kept <= Delta + Window - 2
      BY Sizes, KeptAssumption DEF Runs!Kept
    <3>4. FirstOf(t) + Delta < t.built
      BY <2>1, <2>3, <3>1, <3>2, <3>3
    <3>5. Runs!Kept <= t.built
      BY <2>1, <2>3, <3>1, <3>2, <3>3
    <3>6. Full(Runs!Reshift(t))
      BY <2>1, ReshiftReach
    <3>7. OpenFrame(Runs!Reshift(t)) /\ ClosedAt(Runs!Reshift(t), Runs!Reshift(t).built)
      BY <2>1, <3>4, <3>5, ReshiftCloses
    <3> QED
      BY <2>2, <2>3, <3>6, <3>7
  <2>4. CASE ~(at - t.shift >= Threshold)
    BY <2>1, <2>2, <2>4
  <2> QED
    BY <2>3, <2>4
<1>5. Wrong = {}
  <2> SUFFICES ASSUME Wrong # {} PROVE FALSE
    OBVIOUS
  <2>1. PICK k \in Wrong : \A m \in Wrong : k <= m
    <3>1. Wrong \in SUBSET Nat
      OBVIOUS
    <3> HIDE DEF Wrong
    <3> QED
      BY <3>1, LeastNumber
  <2>2. k \in Nat /\ k <= n /\ ~Right(k)
    BY <2>1
  <2>3. k # 0
    BY <1>3, <2>2
  <2>4. k \in 1..n /\ k - 1 \in Nat /\ k - 1 <= n /\ ~(k <= k - 1)
    BY <1>1, <2>2, <2>3
  <2>5. Right(k - 1)
    BY <2>1, <2>4
  <2> QED
    BY <1>4, <2>2, <2>4, <2>5
<1>6. Right(n)
  <2> HIDE DEF Right
  <2> QED
    BY <1>1, <1>5
<1> QED
  BY <1>1, <1>6

(***************************************************************************)
(* What the entries say is what RunsRight asks of them.                    *)
(***************************************************************************)
Chained == [runs |-> runs, heads |-> heads, shift |-> seqShift,
            built |-> built, start |-> 0]

LEMMA RunStartIs ==
  ASSUME Runs!First \in Nat, built \in Nat,
         NEW x \in Nat, NEW y \in Nat, RunIn(Runs!First, built, x, y),
         NEW q \in Nat, x <= q, q < y
  PROVE  Runs!RunStart(q) = x
<1> DEFINE f == Runs!First
           Is(s) == Runs!Same(s, q) /\ (s = f \/ ~Runs!Same(s - 1, q))
<1>1. f <= x /\ \A k \in x..(y - 1) : ByteOf(k) = ByteOf(x)
  BY DEF RunIn
<1>2. Begins(f, x)
  BY DEF RunIn
<1> HIDE DEF f
<1>3. x \in f..q /\ Is(x)
  <2>1. f \in Nat
    BY DEF f
  <2>2. x \in f..q
    BY <1>1, <2>1
  <2>3. Runs!Same(x, q)
    BY <1>1 DEF Runs!Same, ByteOf
  <2>4. x = f \/ ~Runs!Same(x - 1, q)
    <3> SUFFICES ASSUME x # f, Runs!Same(x - 1, q) PROVE FALSE
      OBVIOUS
    <3>1. ByteOf(x - 1) # ByteOf(x)
      BY <1>2 DEF Begins
    <3>2. x \in (x - 1)..q
      OBVIOUS
    <3> QED
      BY <3>1, <3>2 DEF Runs!Same, ByteOf
  <2> QED
    BY <2>2, <2>3, <2>4
<1>4. ASSUME NEW s \in f..q, Is(s) PROVE s = x
  <2>0. s \in Int /\ f <= s /\ s <= q /\ f \in Nat
    BY DEF f
  <2>1. CASE s < x
    <3>1. x \in s..q /\ x - 1 \in s..q
      BY <2>0, <2>1
    <3>2. ByteOf(x - 1) = ByteOf(x)
      BY <3>1, <1>4 DEF Runs!Same, ByteOf
    <3>3. x = f
      BY <3>2, <1>2 DEF Begins
    <3> QED
      BY <3>3, <2>0, <2>1
  <2>2. CASE x < s
    <3>1. s # f /\ s - 1 \in x..(y - 1)
      BY <2>0, <2>2, <1>1
    <3>2. \A k \in (s - 1)..q : k \in x..(y - 1)
      BY <3>1, <2>0
    <3>3. Runs!Same(s - 1, q)
      BY <3>1, <3>2, <1>1 DEF Runs!Same, ByteOf
    <3> QED
      BY <3>1, <3>3, <1>4
  <2> QED
    BY <2>0, <2>1, <2>2
<1> HIDE DEF Is
<1>5. Runs!RunStart(q) = CHOOSE s \in f..q : Is(s)
  BY DEF Runs!RunStart, Is, f
<1> QED
  BY <1>3, <1>4, <1>5

LEMMA RunLenIs ==
  ASSUME Runs!First \in Nat, built \in Nat,
         NEW x \in Nat, NEW y \in Nat, RunIn(Runs!First, built, x, y)
  PROVE  Runs!RunLen(x) = y - x
<1> DEFINE Is(n) == Runs!Same(x, x + n - 1) /\ (x + n = built \/ ~Runs!Same(x, x + n))
<1>1. /\ x < y /\ y <= built
      /\ \A k \in x..(y - 1) : ByteOf(k) = ByteOf(x)
      /\ y = built \/ ByteOf(y) # ByteOf(x)
  BY DEF RunIn
<1>2. y - x \in 1..(built - x) /\ Is(y - x)
  <2>1. y - x \in 1..(built - x) /\ x + (y - x) = y
    BY <1>1
  <2>2. Runs!Same(x, y - 1)
    BY <1>1 DEF Runs!Same, ByteOf
  <2>3. y = built \/ ~Runs!Same(x, y)
    <3>1. y \in x..y
      BY <1>1
    <3> QED
      BY <3>1, <1>1 DEF Runs!Same, ByteOf
  <2> QED
    BY <2>1, <2>2, <2>3
<1>3. ASSUME NEW n \in 1..(built - x), Is(n) PROVE n = y - x
  <2>1. CASE n < y - x
    <3>1. x + n # built /\ \A k \in x..(x + n) : k \in x..(y - 1)
      BY <2>1, <1>1
    <3>2. Runs!Same(x, x + n)
      BY <3>1, <1>1 DEF Runs!Same, ByteOf
    <3> QED
      BY <3>1, <3>2, <1>3
  <2>2. CASE y - x < n
    <3>1. y \in x..(x + n - 1) /\ y # built
      BY <2>2, <1>1
    <3>2. ByteOf(y) = ByteOf(x)
      BY <3>1, <1>3 DEF Runs!Same, ByteOf
    <3> QED
      BY <3>1, <3>2, <1>1
  <2> QED
    BY <2>1, <2>2
<1> HIDE DEF Is
<1>4. Runs!RunLen(x) = CHOOSE n \in 1..(built - x) : Is(n)
  BY DEF Runs!RunLen, Is
<1> QED
  BY <1>2, <1>3, <1>4

LEMMA BeforeIs ==
  ASSUME Runs!First \in Nat, built \in Nat, NEW x \in Nat, x <= built, NEW c
  PROVE  {r \in Runs!First..(x - 3) :
            Runs!RunStart(r) = r /\ Runs!RunLen(r) >= 3 /\ ByteOf(r) = c}
           = LongRuns(Runs!First, x, c)
<1> DEFINE f == Runs!First
<1> HIDE DEF f
<1>0. f \in Nat
  BY DEF f
<1>1. ASSUME NEW r \in f..(x - 3)
      PROVE  (Runs!RunStart(r) = r /\ Runs!RunLen(r) >= 3 /\ ByteOf(r) = c)
               <=> r \in LongRuns(f, x, c)
  <2>0. r \in Nat /\ f <= r /\ r + 3 <= x /\ r < built
    BY <1>0
  <2>1. PICK v, w \in Nat : RunIn(f, built, v, w) /\ v <= r /\ r < w
    BY <2>0, <1>0, RunThrough
  <2>2. v \in Nat /\ w \in Nat /\ v < w /\ w <= built
        /\ (w = built \/ ByteOf(w) # ByteOf(v))
        /\ \A q \in v..(w - 1) : ByteOf(q) = ByteOf(v)
    BY <2>1 DEF RunIn
  <2>3. Runs!RunStart(r) = v
    BY <2>0, <2>1, <2>2, RunStartIs DEF f
  <2>4. Runs!RunLen(v) = w - v
    BY <2>1, <2>2, RunLenIs DEF f
  <2>5. ASSUME Runs!RunStart(r) = r, Runs!RunLen(r) >= 3, ByteOf(r) = c
        PROVE  r \in LongRuns(f, x, c)
    <3>1. v = r /\ r + 3 <= w
      BY <2>2, <2>3, <2>4, <2>5
    <3>2. Begins(f, r)
      BY <3>1, <2>1 DEF RunIn
    <3>3. ByteOf(r + 1) = c /\ ByteOf(r + 2) = c
      <4>1. r + 1 \in v..(w - 1) /\ r + 2 \in v..(w - 1)
        BY <3>1, <2>0
      <4> QED
        BY <4>1, <3>1, <2>2, <2>5
    <3> QED
      BY <3>2, <3>3, <2>0, <2>5 DEF LongRuns
  <2>6. ASSUME r \in LongRuns(f, x, c)
        PROVE  Runs!RunStart(r) = r /\ Runs!RunLen(r) >= 3 /\ ByteOf(r) = c
    <3>1. r = v
      BY <2>1, <2>2, <2>6, <1>0, LongInRun
    <3>2. ByteOf(r) = c /\ ByteOf(r + 1) = c /\ ByteOf(r + 2) = c
      BY <2>6 DEF LongRuns
    <3>3. w >= r + 3
      <4> SUFFICES ASSUME w < r + 3 PROVE FALSE
        BY <2>0, <2>2
      <4>1. (w = r + 1 \/ w = r + 2) /\ w # built
        BY <2>0, <2>1, <2>2
      <4> QED
        BY <4>1, <3>1, <3>2, <2>2
    <3> QED
      BY <3>1, <3>2, <3>3, <2>2, <2>3, <2>4
  <2> QED
    BY <2>5, <2>6
<1>2. ASSUME NEW r \in LongRuns(f, x, c) PROVE r \in f..(x - 3)
  BY <1>0 DEF LongRuns
<1> QED
  BY <1>1, <1>2 DEF f

LEMMA ClosedIsRight ==
  ASSUME OpenFrame(Chained), ClosedAt(Chained, built), built <= seqShift + Cap
  PROVE  RunsRight
<1> DEFINE f == Runs!First
<1>0. /\ f \in Nat /\ built \in Nat /\ seqShift \in Int /\ f = seqShift + Low /\ Low \in Nat
      /\ FirstOf(Chained) = f /\ Chained.shift = seqShift /\ Chained \in RunChain
  <2>1. Chained \in RunChain /\ FirstOf(Chained) \in Nat
    BY DEF OpenFrame
  <2>2. built \in Nat /\ seqShift \in Int
    BY <2>1, ChainParts DEF Chained
  <2>3. FirstOf(Chained) = f /\ Chained.shift = seqShift /\ f = seqShift + Low
    BY DEF FirstOf, Chained, Runs!First
  <2> QED
    BY <2>1, <2>2, <2>3, Sizes
<1> HIDE DEF f
<1> SUFFICES ASSUME NEW q \in f..(built - 1) PROVE Runs!EntryRight(q)
  BY DEF RunsRight, Runs!RunsRight, f
<1>1. q \in Nat /\ f <= q /\ q < built
  BY <1>0
<1>2. PICK x, y \in Nat : RunIn(f, built, x, y) /\ x <= q /\ q < y
  BY <1>0, <1>1, RunThrough
<1>3. x \in Nat /\ y \in Nat /\ f <= x /\ x < y /\ y <= built
  BY <1>2 DEF RunIn
<1> DEFINE C == ByteOf(x)
           before == LongRuns(f, x, C)
           e == runs[q - seqShift]
<1>4. Finished(Chained, x, y)
  BY <1>0, <1>2, <1>3 DEF ClosedAt
<1>5. /\ Runs!RunStart(q) = x /\ Runs!RunLen(x) = y - x
      /\ {r \in f..(x - 3) : Runs!RunStart(r) = r /\ Runs!RunLen(r) >= 3 /\ ByteOf(r) = C}
           = before
  <2>1. Runs!RunStart(q) = x
    BY <1>0, <1>1, <1>2, <1>3, RunStartIs DEF f
  <2>2. Runs!RunLen(x) = y - x
    BY <1>0, <1>2, <1>3, RunLenIs DEF f
  <2>3. x <= built
    BY <1>0, <1>3
  <2> HIDE DEF C
  <2>4. {r \in f..(x - 3) : Runs!RunStart(r) = r /\ Runs!RunLen(r) >= 3 /\ ByteOf(r) = C}
           = before
    BY <1>0, <1>3, <2>3, BeforeIs DEF f
  <2> QED
    BY <2>1, <2>2, <2>4
<1>6. DistAt(Chained, q) = e.dist /\ LenAt(Chained, q) = e.len
  BY DEF DistAt, LenAt, Chained
<1>7. e \in Entry /\ e.dist \in Int
  <2>1. runs \in [Indexes -> Entry]
    BY <1>0, ChainParts DEF Chained
  <2>2. q - seqShift \in Indexes
    BY <1>0, <1>1, Sizes DEF Indexes
  <2> QED
    BY <2>1, <2>2 DEF Entry
<1> HIDE DEF C, before, e
<1>8. Runs!EntryRight(q) =
        IF y - x < 3 \/ q > x + (y - x) - 3
        THEN e.dist = Runs!NoDist
        ELSE IF q > x
        THEN e = [dist |-> q - x, len |-> 1]
        ELSE /\ e.len = y - x
             /\ IF before = {}
                THEN e.dist > q - f
                ELSE x - e.dist \in before /\ \A r \in before : r <= x - e.dist
  BY <1>5 DEF Runs!EntryRight, Runs!MinMatch, e, f, ByteOf, C
<1>9. CASE q >= y - 2
  <2>1. e.dist = Runs!NoDist
    BY <1>1, <1>2, <1>3, <1>4, <1>6, <1>9 DEF Finished
  <2>2. y - x < 3 \/ q > x + (y - x) - 3
    BY <1>1, <1>3, <1>9
  <2> QED
    BY <1>8, <2>1, <2>2
<1>10. CASE q < y - 2
  <2>1. ~(y - x < 3 \/ q > x + (y - x) - 3) /\ x + 3 <= y
    BY <1>1, <1>2, <1>3, <1>10
  <2>2. CASE q > x
    <3>1. e.dist = q - x /\ e.len = 1
      BY <2>2, <1>1, <1>2, <1>3, <1>4, <1>6, <1>10 DEF Finished
    <3>2. e = [dist |-> q - x, len |-> 1]
      BY <3>1, <1>7 DEF Entry
    <3> QED
      BY <3>2, <2>1, <2>2, <1>8
  <2>3. CASE q = x
    <3>1. e.len = y - x /\ LeadsBack(Chained, x)
      BY <2>1, <2>3, <1>4, <1>6 DEF Finished
    <3> DEFINE m == x - seqShift - e.dist
    <3>2. Latest(m, before, seqShift)
      BY <3>1, <2>3, <1>0, <1>6 DEF LeadsBack, before, C
    <3>3. m + seqShift = x - e.dist /\ (Low <= m <=> e.dist <= q - f)
      BY <2>3, <1>0, <1>3, <1>7
    <3> HIDE DEF m
    <3>4. IF before = {} THEN e.dist > q - f
          ELSE x - e.dist \in before /\ \A r \in before : r <= x - e.dist
      <4>1. CASE Low <= m
        BY <3>2, <3>3, <4>1 DEF Latest
      <4>2. CASE ~(Low <= m)
        <5>1. before = {} /\ e.dist > q - f
          BY <3>2, <3>3, <4>2, <1>0, <1>1, <1>7 DEF Latest
        <5> QED
          BY <5>1
      <4> QED
        BY <4>1, <4>2
    <3> QED
      BY <3>1, <3>4, <2>1, <2>3, <1>3, <1>8
  <2> QED
    BY <2>2, <2>3, <1>1, <1>2, <1>3
<1> QED
  BY <1>1, <1>3, <1>9, <1>10

\* What Build has come to, as the variables hold it.
LEMMA SetIs ==
  ASSUME NEW t, OpenFrame(t), ClosedAt(t, t.built)
  PROVE  LET s == [runs |-> t.runs, heads |-> t.heads, shift |-> t.shift,
                   built |-> t.built, start |-> 0]
         IN OpenFrame(s) /\ ClosedAt(s, t.built)
<1>1. t \in RunChain /\ FirstOf(t) \in Nat
  BY DEF OpenFrame
<1> DEFINE s == [runs |-> t.runs, heads |-> t.heads, shift |-> t.shift,
                 built |-> t.built, start |-> 0]
<1>2. /\ s \in RunChain /\ s.runs = t.runs /\ s.heads = t.heads /\ s.shift = t.shift
      /\ s.built = t.built
  BY <1>1 DEF RunChain
<1> HIDE DEF s
<1>3. FirstOf(s) = FirstOf(t) /\ \A q : DistAt(s, q) = DistAt(t, q) /\ LenAt(s, q) = LenAt(t, q)
  BY <1>2 DEF FirstOf, DistAt, LenAt
<1>4. OpenFrame(s)
  BY <1>1, <1>2, <1>3 DEF OpenFrame
<1>5. \A x, y : Finished(t, x, y) => Finished(s, x, y)
  BY <1>2, <1>3 DEF Finished, LeadsBack
<1>6. ClosedAt(s, t.built)
  <2>1. \A x, y \in Nat : RunIn(FirstOf(s), t.built, x, y) => Finished(s, x, y)
    BY <1>3, <1>5 DEF ClosedAt
  <2>2. \A c \in Byte :
          Low <= s.heads[c] => Latest(s.heads[c], LongRuns(FirstOf(s), t.built, c), s.shift)
    BY <1>2, <1>3 DEF ClosedAt
  <2>3. t.built < Len(input) =>
          /\ HeadsLatest(s, t.built)
          /\ \A x \in Nat : RunIn(FirstOf(s), t.built, x, t.built) => LenAt(s, x) = t.built - x
    BY <1>2, <1>3 DEF ClosedAt, HeadsLatest
  <2> QED
    BY <2>1, <2>2, <2>3, <1>2 DEF ClosedAt
<1> QED
  BY <1>4, <1>6 DEF s

\* A step that leaves the input alone leaves what is said of its bytes.
LEMMA SameClosed ==
  ASSUME UNCHANGED input, NEW s, NEW b
  PROVE  (OpenFrame(s)' <=> OpenFrame(s)) /\ (ClosedAt(s, b)' <=> ClosedAt(s, b))
<1>1. \A q : ByteOf(q)' = ByteOf(q)
  BY DEF ByteOf, Runs!ByteAt
<1>2. \A f, q : Begins(f, q)' <=> Begins(f, q)
  BY <1>1 DEF Begins
<1>3. \A f, e, x, y : RunIn(f, e, x, y)' <=> RunIn(f, e, x, y)
  BY <1>1, <1>2 DEF RunIn
<1>4. \A f, e, c : LongRuns(f, e, c)' = LongRuns(f, e, c)
  BY <1>1, <1>2 DEF LongRuns
<1>5. \A x : LeadsBack(s, x)' <=> LeadsBack(s, x)
  BY <1>1, <1>4 DEF LeadsBack
<1>6. \A x, y : Finished(s, x, y)' <=> Finished(s, x, y)
  BY <1>5 DEF Finished
<1>7. HeadsLatest(s, b)' <=> HeadsLatest(s, b)
  BY <1>4 DEF HeadsLatest
<1>8. ClosedAt(s, b)' <=> ClosedAt(s, b)
  BY <1>3, <1>4, <1>6, <1>7 DEF ClosedAt
<1>9. OpenFrame(s)' <=> OpenFrame(s)
  BY DEF OpenFrame
<1> QED
  BY <1>8, <1>9

(***************************************************************************)
(* The invariant of the chains of runs.  The position is never more than   *)
(* the two bytes of the constructor ahead of what the tokens have moved    *)
(* the predictor by, so that a move leaves the bytes of three positions    *)
(* and more.                                                               *)
(***************************************************************************)
RunsInv ==
  /\ RunsReach
  /\ IInv
  /\ seqPos <= pos + blk + todo + 2
  /\ OpenFrame(Chained)
  /\ ClosedAt(Chained, built)

LEMMA InitRunsInv == input \in Seq(Byte) /\ FinderInit => RunsInv
<1> SUFFICES ASSUME input \in Seq(Byte), FinderInit PROVE RunsInv
  OBVIOUS
<1>1. RunsReach
  BY InitRunsReach
<1>2. IInv
  BY InitIInv DEF FinderInit, Init
<1>3. seqPos <= pos + blk + todo + 2
  BY DEF FinderInit, HashInit, Runs!SeqInit
<1> DEFINE none == [runs |-> [p \in 0..(Cap - 1) |-> Runs!NoRun],
                    heads |-> [c \in Byte |-> 0],
                    shift |-> -Low, built |-> 0, start |-> 0]
           size == Runs!LowerOf(Cap - Low, Len(input))
           t == Runs!Build(none, none.built - none.shift, size)
<1>4. /\ none \in RunChain /\ none.built = 0 /\ none.shift = -Low /\ FirstOf(none) = 0
      /\ \A c \in Byte : none.heads[c] = 0
  <2>1. Runs!NoRun \in Entry
    BY Sizes DEF Runs!NoRun, Runs!NoDist, Entry
  <2>2. none \in RunChain
    BY <2>1, Sizes DEF RunChain, Indexes
  <2>3. FirstOf(none) = 0
    BY Sizes DEF FirstOf
  <2> QED
    BY <2>2, <2>3
<1>5. size \in Nat /\ size <= Len(input) /\ size + Low <= Cap
  BY Sizes DEF Runs!LowerOf
<1>6. /\ runs = t.runs /\ heads = t.heads /\ seqShift = t.shift /\ built = t.built
  <2>1. none.built - none.shift = Low
    BY <1>4, Sizes
  <2> HIDE DEF none
  <2>2. t = Runs!Build(none, Low, size)
    BY <2>1
  <2> QED
    BY <2>2 DEF FinderInit, Runs!SeqInit, none
<1> HIDE DEF none, size
<1>7. ClosedAt(none, 0)
  <2>1. \A x, y \in Nat : ~RunIn(0, 0, x, y)
    BY DEF RunIn
  <2>2. \A c : LongRuns(0, 0, c) = {}
    BY DEF LongRuns
  <2>4. ASSUME NEW c \in Byte PROVE ~(Low <= none.heads[c])
    <3>1. none.heads[c] = 0
      BY <1>4
    <3>2. ~(Low <= 0)
      BY Sizes
    <3> QED
      BY <3>1, <3>2
  <2>3. HeadsLatest(none, 0)
    BY <1>4, <2>2, <2>4 DEF HeadsLatest, Latest
  <2> QED
    BY <1>4, <2>1, <2>3, <2>4 DEF ClosedAt
<1>8. PartFits(none, size)
  <2>1. OpenFrame(none)
    BY <1>4 DEF OpenFrame
  <2>2. none.built + size <= Len(input) /\ none.built + size - none.shift <= Cap
    BY <1>4, <1>5, Sizes
  <2>3. FirstOf(none) <= none.built /\ none.built = FirstOf(none) /\ ClosedAt(none, none.built)
    BY <1>4, <1>7
  <2> QED
    BY <2>1, <2>2, <2>3 DEF PartFits
<1>9. t.shift = none.shift /\ ClosedAt(t, t.built)
  BY <1>5, <1>8, BuildCloses
<1> HIDE DEF t
<1>10. OpenFrame(t)
  <2>1. FirstOf(t) = FirstOf(none)
    BY <1>9 DEF FirstOf
  <2> QED
    BY <2>1, <1>4, <1>9 DEF OpenFrame, ClosedAt
<1>11. OpenFrame(Chained) /\ ClosedAt(Chained, built)
  BY <1>6, <1>9, <1>10, SetIs DEF Chained
<1> QED
  BY <1>1, <1>2, <1>3, <1>11 DEF RunsInv

LEMMA UpdateSeqRunsInv ==
  ASSUME RunsInv, NEW l \in Nat, Runs!UpdateSeq(l), Idle, pos + l <= Len(input),
         UNCHANGED input
  PROVE  (OpenFrame(Chained) /\ ClosedAt(Chained, built))'
<1> DEFINE t == Runs!Caught(Chained, seqPos + l)
<1>1. Full(Chained) /\ OpenFrame(Chained) /\ ClosedAt(Chained, Chained.built)
  <2>1. Chained.built = built
    BY DEF Chained
  <2>2. Full(Chained)
    BY DEF Full, Bound, RunsReach, RunsInv, Chained
  <2> QED
    BY <2>1, <2>2 DEF RunsInv
<1>2. input \in Seq(Byte) /\ seqPos + l \in Nat /\ seqPos + l <= Len(input) + 2
  <2>1. seqPos <= pos + 2 /\ pos \in Nat /\ seqPos \in Nat /\ input \in Seq(Byte)
    BY DEF RunsInv, RunsReach, IInv, TypeOK, Idle
  <2> QED
    BY <2>1
<1>3. OpenFrame(t) /\ ClosedAt(t, t.built)
  BY <1>1, <1>2, CaughtCloses
<1>4. runs' = t.runs /\ heads' = t.heads /\ seqShift' = t.shift /\ built' = t.built
  BY DEF Runs!UpdateSeq, Runs!Set, Chained
<1> DEFINE s == [runs |-> t.runs, heads |-> t.heads, shift |-> t.shift,
                 built |-> t.built, start |-> 0]
<1> HIDE DEF t
<1>5. OpenFrame(s) /\ ClosedAt(s, t.built)
  BY <1>3, SetIs
<1>6. Chained' = s /\ built' = t.built
  BY <1>4 DEF Chained
<1> HIDE DEF s
<1>7. PICK u, b : u = s /\ b = t.built
  OBVIOUS
<1>8. OpenFrame(u)' /\ ClosedAt(u, b)'
  BY <1>5, <1>7, SameClosed
<1> QED
  BY <1>6, <1>7, <1>8

LEMMA NextRunsInv == RunsInv /\ [FinderNext]_finderVars => RunsInv'
<1> SUFFICES ASSUME RunsInv, [FinderNext]_finderVars PROVE RunsInv'
  OBVIOUS
<1>1. RunsReach'
  BY NextRunsReach DEF RunsInv
<1>2. IInv'
  <2>1. [Next]_vars
    BY DEF FinderNext, CommitToken, CommitSkipped, Next, finderVars
  <2> QED
    BY <2>1, NextIInv DEF RunsInv
<1> DEFINE Rest == seqPos <= pos + blk + todo + 2 /\ OpenFrame(Chained) /\ ClosedAt(Chained, built)
<1>3. ASSUME NEW l \in Nat, Runs!UpdateSeq(l), UpdateHash(l) \/ SkipHash(l) PROVE Rest'
  <2>1. /\ Idle /\ pos + l <= Len(input) /\ UNCHANGED input
        /\ pos' = pos /\ blk' = blk /\ todo' = l /\ seqPos' = seqPos + l
    BY <1>3 DEF UpdateHash, SkipHash, Runs!UpdateSeq
  <2>2. (seqPos <= pos + blk + todo + 2)'
    BY <2>1 DEF RunsInv, RunsReach, IInv, TypeOK, Idle
  <2> QED
    BY <2>1, <2>2, <1>3, UpdateSeqRunsInv
<1>4. ASSUME UNCHANGED <<input, runs, heads, seqShift, built>>
      PROVE  OpenFrame(Chained)' /\ ClosedAt(Chained, built)'
  <2>1. PICK u, b : u = Chained /\ b = built
    OBVIOUS
  <2>2. OpenFrame(u)' /\ ClosedAt(u, b)'
    BY <2>1, <1>4, SameClosed DEF RunsInv
  <2>3. Chained' = u /\ built' = b
    BY <2>1, <1>4 DEF Chained
  <2> QED
    BY <2>2, <2>3
<1>5. CASE HashStep /\ UNCHANGED <<runs, heads, seqShift, seqPos, built>>
  <2>0. pos \in Nat /\ blk \in Nat /\ todo \in Nat /\ MaxBlk \in Nat
    BY Sizes DEF RunsInv, IInv, TypeOK
  <2>1. pos' + blk' + todo' = pos + blk + todo /\ UNCHANGED <<input, seqPos>>
    <3>1. CASE StartBlock
      BY <3>1, <2>0, <1>5 DEF StartBlock, MinOf
    <3>2. CASE Insert
      BY <3>2, <2>0, <1>5 DEF Insert
    <3>3. CASE EndBlock
      BY <3>3, <2>0, <1>5 DEF EndBlock
    <3> QED
      BY <3>1, <3>2, <3>3, <1>5 DEF HashStep
  <2>2. (seqPos <= pos + blk + todo + 2)'
    BY <2>1 DEF RunsInv
  <2> QED
    BY <2>1, <2>2, <1>1, <1>2, <1>4, <1>5 DEF RunsInv
<1>6. CASE UNCHANGED finderVars
  <2>0. UNCHANGED vars /\ UNCHANGED <<runs, heads, seqShift, seqPos, built>>
    BY <1>6 DEF finderVars
  <2>1. UNCHANGED <<input, runs, heads, seqShift, built>> /\ UNCHANGED <<seqPos, pos, blk, todo>>
    BY <2>0 DEF vars, hashVars
  <2> QED
    BY <2>1, <1>1, <1>2, <1>4 DEF RunsInv
<1>7. ASSUME NEW l \in Calls, CommitToken(l) PROVE Rest'
  BY <1>7, <1>3, SizeAssumption DEF CommitToken
<1>8. ASSUME NEW l \in Skips, CommitSkipped(l) PROVE Rest'
  BY <1>8, <1>3, SizeAssumption DEF CommitSkipped
<1>9. CASE \E l \in Calls : CommitToken(l)
  BY <1>9, <1>7, <1>1, <1>2 DEF RunsInv
<1>10. CASE \E l \in Skips : CommitSkipped(l)
  BY <1>10, <1>8, <1>1, <1>2 DEF RunsInv
<1> QED
  BY <1>5, <1>6, <1>9, <1>10 DEF FinderNext

(***************************************************************************)
(* updateSeq, _reshift and _build: the entries are those of the runs of    *)
(* the input, in so far as they lie within the array, for every input and  *)
(* every sequence of tokens, in whatever parts the array was filled and    *)
(* however the moves cut the runs.                                         *)
(***************************************************************************)
THEOREM RunsAreRight == FinderSpec => []RunsRight
<1>1. RunsInv => RunsRight
  <2> SUFFICES ASSUME RunsInv PROVE RunsRight
    OBVIOUS
  <2>1. built <= seqShift + Cap
    BY Sizes DEF RunsInv, RunsReach, Runs!LowerOf
  <2> QED
    BY <2>1, ClosedIsRight DEF RunsInv
<1> QED
  BY <1>1, InitRunsInv, NextRunsInv, PTL DEF FinderSpec
=============================================================================
