---------------------------- MODULE PredictorState ----------------------------
(***************************************************************************)
(* The searches of preflate's token predictor (preflate_predictor_state)   *)
(* over an input, the position pos in it and the set of the positions that *)
(* the hash chains hold (what HashChain implements).  A match is a token:  *)
(* its length and its distance.  c is the configuration of the compressor  *)
(* that is predicted: maxChain, nice, good and lazy of its level, and what *)
(* was detected of it, veryFar and toStart.                                *)
(***************************************************************************)
EXTENDS Integers, Sequences, FiniteSets, SequencesExt, FiniteSetsExt

CONSTANTS
  Hash,          \* the hash of three bytes
  Window,        \* the largest distance, 2^windowBits
  MinLookahead,  \* zlib keeps this much of the window free (262)
  MaxMatch       \* the longest match (258)

MinMatch == 3

NoMatch == [len |-> 0, dist |-> 0, irregular |-> FALSE]
Literal == [len |-> 1, dist |-> 0, irregular |-> FALSE]
Reference(l, d) == [len |-> l, dist |-> d, irregular |-> FALSE]

Least(x, y) == IF x < y THEN x ELSE y
Most(x, y) == IF x > y THEN x ELSE y

HashAt(in, q) == Hash[<<in[q + 1], in[q + 2], in[q + 3]>>]

Hashable(in, q) == q + 2 < Len(in)

\* How many bytes from q on are those from r on, up to n.
Common(in, q, r, n) ==
  Max({k \in 0..n : \A i \in 1..k : in[q + i] = in[r + i]})

\* A match is of interest only when it goes beyond bestLen; a first
\* comparison of that byte and of the first three saves the others.
PrefixCompare(in, q, r, bestLen, maxLen) ==
  IF in[q + bestLen + 1] # in[r + bestLen + 1] \/ Common(in, q, r, MinMatch) < MinMatch
  THEN 0
  ELSE Common(in, q, r, maxLen)

SuffixCompare(in, q, r, bestLen, maxLen) ==
  IF in[q + bestLen + 1] # in[r + bestLen + 1] THEN 0 ELSE Common(in, q, r, maxLen)

\* The chain of a hash: its positions before ref, the nearest one first.
Chain(in, nodes, h, ref) ==
  SelectSeq([i \in 1..ref |-> ref - i], LAMBDA q : q \in nodes /\ HashAt(in, q) = h)

\* The part of a chain no further than maxDist.
Within(chain, ref, maxDist) == SelectSeq(chain, LAMBDA q : ref - q <= maxDist)

(***************************************************************************)
(* createMatchHelper: the limits of one search from start.  The first      *)
(* position of a chain may be further away than the others (hop0, hop1).   *)
(* maxDepth > 0 searches that deep, whatever the level.                    *)
(***************************************************************************)
Limits(in, c, prevLen, start, maxDepth) ==
  LET maxLen == Least(Len(in) - start, MaxMatch)
      toStart == IF c.toStart THEN start ELSE start - 1
      free == Window - MinLookahead
  IN [possible |-> maxLen >= Most(prevLen + 1, MinMatch),
      maxLen   |-> maxLen,
      hop0     |-> Least(toStart, IF c.veryFar THEN Window ELSE free),
      hop1     |-> Least(toStart, IF c.veryFar THEN Window ELSE free - 1),
      maxChain |-> IF maxDepth > 0 THEN maxDepth
                   ELSE IF prevLen >= c.good THEN c.maxChain \div 4 ELSE c.maxChain,
      nice     |-> IF maxDepth > 0 THEN maxLen ELSE Least(c.nice, maxLen)]

(***************************************************************************)
(* match: the nearest of the longest matches among the first maxChain      *)
(* positions of the chain, or the first one that is nice enough.           *)
(***************************************************************************)
Match(in, nodes, c, prevLen, start, maxDepth) ==
  LET h == Limits(in, c, prevLen, start, maxDepth)
      all == Chain(in, nodes, HashAt(in, start), start)
      tried == LET near == <<Head(all)>> \o Within(Tail(all), start, h.hop1)
               IN SubSeq(near, 1, Least(Len(near), Most(h.maxChain, 1)))
      Try(best, q) ==
        LET n == PrefixCompare(in, q, start, best.len, h.maxLen)
        IN IF (best.dist = 0 \/ best.len < h.nice) /\ n > best.len
           THEN Reference(n, start - q) ELSE best
      best == FoldLeft(Try, [NoMatch EXCEPT !.len = prevLen], tried)
  IN IF ~h.possible \/ all = <<>> \/ start - Head(all) > h.hop0 \/ best.dist = 0
     THEN NoMatch ELSE best

(***************************************************************************)
(* The runs of three and more of one byte (SeqChain): a position of a run, *)
(* but for its last two, can be searched for among the runs alone.         *)
(***************************************************************************)
RunStart(in, q) == Min({s \in 0..q : \A k \in s..q : in[k + 1] = in[q + 1]})

RunLen(in, s) == Common(in, s, s + 1, Len(in) - s - 1) + 1

InRun(in, q) ==
  LET s == RunStart(in, q) IN s + RunLen(in, s) >= q + MinMatch

\* The starts of the runs of the same byte before a start, latest first.
RunsBefore(in, s) ==
  SelectSeq([i \in 1..s |-> s - i],
            LAMBDA r : /\ in[r + 1] = in[s + 1]
                       /\ RunStart(in, r) = r
                       /\ RunLen(in, r) >= MinMatch)

\* getRelPosDepth: the positions of the chain of h after ref; a position
\* that was skipped counts as deeper than any limit.
RelDepth(in, nodes, h, ref) ==
  IF ref \in nodes
  THEN Cardinality({q \in nodes : q > ref /\ HashAt(in, q) = h})
  ELSE 2 * Len(in) + 1000

(***************************************************************************)
(* seqMatch: the same search over the runs.  Of an earlier run only one    *)
(* position can do better than the nearer ones: the one with as many bytes *)
(* of the run ahead as the position searched for.  When it is too far away *)
(* or too deep in the chain, a later position of the run is taken, and the *)
(* match is as much shorter (error).                                       *)
(***************************************************************************)
TryRun(in, nodes, h, start, curSeqLen, s, run) ==
  LET len == RunLen(in, run)
      seqLen == Least(Least(curSeqLen, len), h.nice)
      dist == start - run - len + seqLen
      far == Most(dist - s.maxDist, 0)
      depth == RelDepth(in, nodes, HashAt(in, start), start - dist + far)
      error == far + Most(depth - h.maxChain + 1, 0)
      n == seqLen + SuffixCompare(in, start - dist + seqLen, start + seqLen,
                                  Most(s.len, seqLen) - seqLen, h.maxLen - seqLen)
  IN IF s.done \/ len < s.seqLen THEN s
     ELSE IF error > len - MinMatch THEN [s EXCEPT !.done = TRUE]
     ELSE IF error > 0
     THEN IF seqLen > Most(s.seqLen, MinMatch - 1) + error
          THEN [s EXCEPT !.done = TRUE, !.best = Reference(seqLen - error, dist - error)]
          ELSE [s EXCEPT !.done = TRUE]
     ELSE IF seqLen = h.maxLen
     THEN [s EXCEPT !.done = TRUE, !.best = Reference(seqLen, dist)]
     ELSE IF n > s.len
     THEN [s EXCEPT !.seqLen = seqLen, !.maxDist = h.hop1, !.len = n,
                    !.best = Reference(n, dist), !.done = n >= h.nice]
     ELSE [s EXCEPT !.seqLen = seqLen, !.maxDist = h.hop1]

\* From within a run, the rest of the run is a match of distance 1.
SeqMatchWithin(in, nodes, c, prevLen, start, h) ==
  LET first == RunStart(in, start)
      cur == Least(RunLen(in, first) - (start - first), h.maxLen)
      runs == RunsBefore(in, first)
      own == cur > prevLen /\ 1 <= h.hop0
      s0 == [len |-> IF own THEN cur ELSE prevLen,
             seqLen |-> IF own THEN cur ELSE Least(cur, prevLen),
             maxDist |-> h.hop1, done |-> FALSE,
             best |-> IF own THEN Reference(cur, 1) ELSE NoMatch]
  IN IF \/ s0.len >= h.nice
        \/ runs = <<>>
        \/ start - Head(runs) > h.hop1 + RunLen(in, Head(runs)) - MinMatch
     THEN s0.best
     ELSE FoldLeft(LAMBDA s, r : TryRun(in, nodes, h, start, cur, s, r), s0, runs).best

\* Mutant: the first position of the chain is no exception.
SeqMatchAtStartNoQuirk(in, nodes, c, prevLen, start, h) ==
  LET cur == Least(RunLen(in, start), h.maxLen)
      runs == RunsBefore(in, start)
      s0 == [len |-> prevLen, seqLen |-> Least(cur, prevLen),
             maxDist |-> h.hop1, done |-> FALSE, best |-> NoMatch]
  IN IF runs = <<>> \/ start - Head(runs) > h.hop0 + RunLen(in, Head(runs)) - MinMatch
     THEN NoMatch
     ELSE FoldLeft(LAMBDA s, r : TryRun(in, nodes, h, start, cur, s, r), s0, runs).best

\* From the start of a run, the first position of the chain may be further
\* away than the others; it is the latest position of the nearest run.
SeqMatchAtStart(in, nodes, c, prevLen, start, h) ==
  LET cur == Least(RunLen(in, start), h.maxLen)
      runs == RunsBefore(in, start)
      run == Head(runs)
      off == RunLen(in, run) - MinMatch
      quirk == /\ start - run > h.hop1 + off
               /\ RelDepth(in, nodes, HashAt(in, start), run + off) = 0
      s0 == [len |-> prevLen, seqLen |-> Least(cur, prevLen),
             maxDist |-> IF quirk THEN h.hop0 ELSE h.hop1,
             done |-> FALSE, best |-> NoMatch]
  IN IF runs = <<>> \/ start - run > h.hop0 + off
     THEN NoMatch
     ELSE FoldLeft(LAMBDA s, r : TryRun(in, nodes, h, start, cur, s, r), s0, runs).best

SeqMatch(in, nodes, c, prevLen, start, maxDepth) ==
  LET h == Limits(in, c, prevLen, start, maxDepth)
  IN IF ~h.possible THEN NoMatch
     ELSE IF RunStart(in, start) = start
     THEN SeqMatchAtStart(in, nodes, c, prevLen, start, h)
     ELSE SeqMatchWithin(in, nodes, c, prevLen, start, h)

(***************************************************************************)
(* A distance is corrected by the number of hops to it: the positions of   *)
(* the chain, the nearest one first, that match the length.                *)
(***************************************************************************)
Reached(in, nodes, pos) ==
  Within(Chain(in, nodes, HashAt(in, pos), pos), pos, Least(pos, Window))

Hits(in, nodes, pos, len) ==
  SelectSeq(Reached(in, nodes, pos),
            LAMBDA q : PrefixCompare(in, q, pos, len - 1, len) >= len)

\* rematchInfo: the hops from the head of the chain up to the distance of a
\* token, and whether its position is in the chain at all.
Rematch(in, nodes, pos, token) ==
  [found |-> \E i \in DOMAIN Reached(in, nodes, pos) :
               Reached(in, nodes, pos)[i] = pos - token.dist,
   hops |-> Len(SelectSeq(Hits(in, nodes, pos, token.len),
                          LAMBDA q : pos - q <= token.dist))]

FirstMatch(in, nodes, pos, len) ==
  IF Least(Len(in) - pos, MaxMatch) < Most(len, MinMatch) \/ Hits(in, nodes, pos, len) = <<>>
  THEN 0 ELSE pos - Head(Hits(in, nodes, pos, len))

\* Mutant: the last position of the chain is not reached.
HopMatchShort(in, nodes, pos, token, hops) ==
  LET beyond == SelectSeq(Hits(in, nodes, pos, token.len),
                          LAMBDA q : pos - q > token.dist)
  IN IF hops = 0 THEN token.dist
     ELSE IF Least(Len(in) - pos, MaxMatch) < token.len \/ Len(beyond) <= hops
     THEN 0 ELSE pos - beyond[hops]

\* hopMatch: so many hops further than the distance of a token; 0 when the
\* chain ends before.
HopMatch(in, nodes, pos, token, hops) ==
  LET beyond == SelectSeq(Hits(in, nodes, pos, token.len),
                          LAMBDA q : pos - q > token.dist)
  IN IF hops = 0 THEN token.dist
     ELSE IF Least(Len(in) - pos, MaxMatch) < token.len \/ Len(beyond) < hops
     THEN 0 ELSE pos - beyond[hops]
=============================================================================
