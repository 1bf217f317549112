------------------------------ MODULE SeqChain ------------------------------
(***************************************************************************)
(* The chains of runs of preflate (src/contrib/preflate/preflate_seq_chain)*)
(* for each byte the runs of three and more of it, latest first.  The      *)
(* entry of the first position of a run has the length of the run and the  *)
(* distance to the run before it, the entry of a later one the distance to *)
(* the first, and the last two positions of a run, and all others, have    *)
(* none.  The array is filled as far as it goes when it is created, and    *)
(* after that whenever its entries are moved down by Delta.                *)
(***************************************************************************)
EXTENDS Integers, Sequences

CONSTANTS
  Byte,
  Window, Cap, Delta, Low   \* as in HashChain

\* Mutant: the array is moved as soon as Delta entries are behind.
ThresholdEarly == Delta + Low

Threshold == Delta + Window + Low

VARIABLES
  input,      \* the uncompressed data
  runs,       \* index -> [dist, len]: distToNext and length (prev in the code)
  heads,      \* byte -> the index of the first position of its latest run
  seqShift,   \* index + seqShift is a position of the input
  seqPos,     \* curPos: how far the predictor has come
  built       \* the positions below it have been entered

seqVars == <<runs, heads, seqShift, seqPos, built>>

vars == <<input, seqVars>>

MinMatch == 3

NoDist == Cap - 1     \* 0xffff

NoRun == [dist |-> NoDist, len |-> 0]

ByteAt(q) == input[q + 1]

LowerOf(x, y) == IF x < y THEN x ELSE y

(***************************************************************************)
(* _build: the next bytes, one by one.  s holds the variables and start,   *)
(* the index at which the current run begins.                              *)
(***************************************************************************)
\* The last two positions of the run that ends before the index e have none.
CloseRun(s, e) ==
  LET n == s.runs[s.start].len
  IN [s EXCEPT !.runs = [p \in DOMAIN @ |->
        IF (n >= 2 /\ p = e - 1) \/ (n >= 3 /\ p = e - 2)
        THEN [@[p] EXCEPT !.dist = NoDist] ELSE @[p]]]

OpenRun(s, p) ==
  [s EXCEPT !.runs[p] = [NoRun EXCEPT !.len = 1], !.start = p]

\* The third byte of a run links it to the run before it.
GrowRun(s, p, c) ==
  LET n == s.runs[s.start].len + 1
      grown == [s EXCEPT !.runs[s.start].len = n,
                         !.runs[p] = [dist |-> p - s.start, len |-> 1]]
  IN IF n = MinMatch
     THEN [grown EXCEPT !.runs[s.start].dist = s.start - s.heads[c],
                        !.heads[c] = s.start]
     ELSE grown

\* The first byte of a part may continue a run of the part before it: one of
\* a single byte, of two, or of three and more, which has a head.
FirstByte(s, p) ==
  LET c == ByteAt(s.built)
      Same(k) == p > Low /\ ByteAt(s.built - k) = c
      start == s.heads[c]
  IN IF ~Same(1)
     THEN OpenRun(s, p)
     ELSE IF ~Same(2)
     THEN [s EXCEPT !.start = p - 1,
                    !.runs[p] = [dist |-> 1, len |-> 1],
                    !.runs[p - 1].len = @ + 1]
     ELSE IF ~Same(3)
     THEN [s EXCEPT !.start = p - 2,
                    !.runs[p - 2] = [dist |-> p - 2 - start, len |-> @.len + 1],
                    !.runs[p - 1].dist = 1,
                    !.runs[p] = [dist |-> 2, len |-> 1],
                    !.heads[c] = p - 2]
     ELSE [s EXCEPT !.start = start,
                    !.runs[p - 2].dist = p - start - 2,
                    !.runs[p - 1].dist = p - start - 1,
                    !.runs[p] = [dist |-> p - start, len |-> 1],
                    !.runs[start].len = @ + 1]

NextByte(s, p, i) ==
  LET c == ByteAt(s.built + i)
  IN IF c = ByteAt(s.built + i - 1)
     THEN GrowRun(s, p + i, c)
     ELSE OpenRun(CloseRun(s, p + i), p + i)

Build(s, p, size) ==
  LET entered[i \in 0..(size - 1)] ==
        IF i = 0 THEN FirstByte(s, p) ELSE NextByte(entered[i - 1], p, i)
  IN IF size = 0
     THEN s
     ELSE [CloseRun(entered[size - 1], p + size) EXCEPT !.built = @ + size]

(***************************************************************************)
(* _reshift.  When the first position of a run falls out of the array and  *)
(* three or more of its positions remain, the first of these becomes the   *)
(* start of the run, for its members and for what pointed at the run.      *)
(***************************************************************************)
Kept == Cap - (Delta + Low)

\* Mutant: only a head is adapted, the run that points at the cut one is not.
CutRunHeadOnly(s) ==
  LET at == Delta + Low
      d == s.runs[at].dist
      len == s.runs[at - d].len - d
      c == ByteAt(s.built - Kept)
  IN IF d = NoDist \/ s.runs[at].len >= MinMatch
     THEN s
     ELSE [s EXCEPT
             !.runs = [p \in DOMAIN s.runs |->
                         IF p = at THEN [dist |-> NoDist, len |-> len]
                         ELSE IF p \in (at + 1)..(at + len - 3)
                         THEN [s.runs[p] EXCEPT !.dist = @ - d]
                         ELSE s.runs[p]],
             !.heads[c] = IF @ = at - d THEN at ELSE @]

CutRun(s) ==
  LET at == Delta + Low
      d == s.runs[at].dist
      len == s.runs[at - d].len - d
      c == ByteAt(s.built - Kept)      \* counted from the end of what is entered
      headed == s.heads[c] = at - d
      pointers == {p \in (at + len)..(Cap - 1) : ~headed /\ s.runs[p].dist = p - (at - d)}
      members == (at + 1)..(at + len - 3)
      pointer == {p \in pointers : \A q \in pointers : p <= q}
  IN IF d = NoDist \/ s.runs[at].len >= MinMatch
     THEN s
     ELSE [s EXCEPT
             !.runs = [p \in DOMAIN s.runs |->
                         IF p = at THEN [dist |-> NoDist, len |-> len]
                         ELSE IF p \in members \cup pointer
                         THEN [s.runs[p] EXCEPT !.dist = @ - d]
                         ELSE s.runs[p]],
             !.heads[c] = IF headed THEN at ELSE @]

MoveDown(s) ==
  [s EXCEPT !.heads = [c \in Byte |-> IF @[c] > Delta THEN @[c] - Delta ELSE 0],
            !.runs = [p \in DOMAIN @ |->
                        IF p >= Low /\ p < Low + Kept THEN @[p + Delta] ELSE @[p]],
            !.shift = @ + Delta]

Reshift(s) ==
  Build(MoveDown(CutRun(s)), Low + Kept, LowerOf(Delta, Len(input) - s.built))

\* The loop of updateSeq: as many reshifts as the position calls for.
Caught(s, at) ==
  LET turns == at \div Delta + 1
      turn[i \in 0..turns] ==
        IF i = 0 THEN s
        ELSE IF at - turn[i - 1].shift >= Threshold THEN Reshift(turn[i - 1])
        ELSE turn[i - 1]
  IN turn[turns]

Set(s) ==
  /\ runs' = s.runs
  /\ heads' = s.heads
  /\ seqShift' = s.shift
  /\ built' = s.built

\* The constructor, and the two bytes the predictor advances it by at once.
SeqInit ==
  LET s == Build([runs |-> [p \in 0..(Cap - 1) |-> NoRun],
                  heads |-> [c \in Byte |-> 0],
                  shift |-> -Low, built |-> 0, start |-> 0],
                 Low, LowerOf(Cap - Low, Len(input)))
  IN /\ runs = s.runs
     /\ heads = s.heads
     /\ seqShift = s.shift
     /\ built = s.built
     /\ seqPos = IF Len(input) >= 2 THEN 2 ELSE 0

UpdateSeq(l) ==
  /\ seqPos' = seqPos + l
  /\ Set(Caught([runs |-> runs, heads |-> heads, shift |-> seqShift,
                 built |-> built, start |-> 0], seqPos + l))

-----------------------------------------------------------------------------
First == seqShift + Low

Same(q, r) == \A k \in q..r : ByteAt(k) = ByteAt(q)

\* The run around a position, as far as it lies within what the array holds.
RunStart(q) == CHOOSE s \in First..q : Same(s, q) /\ (s = First \/ ~Same(s - 1, q))

RunLen(s) ==
  CHOOSE n \in 1..(built - s) :
    Same(s, s + n - 1) /\ (s + n = built \/ ~Same(s, s + n))

(***************************************************************************)
(* After every step the entries are those of the runs of the input, in so  *)
(* far as they lie within the array: the length of each run, the way from  *)
(* its members to its start and from there to the run of the same byte     *)
(* before it, however the parts in which the array was filled and the      *)
(* moves cut the runs (_build, _reshift).                                  *)
(***************************************************************************)
EntryRight(q) ==
  LET s == RunStart(q)
      n == RunLen(s)
      e == runs[q - seqShift]
      before == {r \in First..(s - 3) :
                   RunStart(r) = r /\ RunLen(r) >= MinMatch /\ ByteAt(r) = ByteAt(s)}
  IN IF n < MinMatch \/ q > s + n - MinMatch
     THEN e.dist = NoDist
     ELSE IF q > s
     THEN e = [dist |-> q - s, len |-> 1]
     ELSE /\ e.len = n
          /\ IF before = {}
             THEN e.dist > q - First
             ELSE s - e.dist \in before /\ \A r \in before : r <= s - e.dist

RunsRight == \A q \in First..(built - 1) : EntryRight(q)

\* The array reaches as far back as a reference can (the two bytes that the
\* predictor is ahead are lost) and ahead of the position.
ReachRight ==
  /\ First = 0 \/ seqPos - First >= Window
  /\ built = Len(input) \/ built > seqPos
=============================================================================
