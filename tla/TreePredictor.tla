---------------------------- MODULE TreePredictor ----------------------------
(***************************************************************************)
(* preflate_tree_predictor.cpp: what an encoder like zlib would have made  *)
(* of the trees of a dynamic block, how the actual trees differ, and the   *)
(* trees again from the prediction and the differences.                    *)
(***************************************************************************)
EXTENDS BlockCodec

CONSTANT CodeMaxBits    \* the longest code of the code tree (7)

-----------------------------------------------------------------------------
(***************************************************************************)
(* Building a tree.  The heap h is a sequence of [freq, idx], nodes lists  *)
(* the [parent, idx] pairs in the order they are joined, and depth is that *)
(* of the subtree of a node.                                               *)
(***************************************************************************)
\* pq_smaller: of two subtrees used equally often the flatter one goes first.
Smaller(a, b, depth) == a.freq < b.freq \/ (a.freq = b.freq /\ depth[a.idx] <= depth[b.idx])

RECURSIVE DownHeap(_, _, _)
DownHeap(h, k, depth) ==
  LET j == 2 * k
      son == IF j + 1 <= Len(h) /\ Smaller(h[j + 1], h[j], depth) THEN j + 1 ELSE j
  IN IF j > Len(h) \/ Smaller(h[k], h[son], depth) THEN h
     ELSE DownHeap([h EXCEPT ![k] = h[son], ![son] = h[k]], son, depth)

MakeHeap(h, depth) ==
  LET n == ((Len(h) - 1) \div 2) + 1
  IN FoldLeft(LAMBDA g, k : DownHeap(g, n + 1 - k, depth), h, [k \in 1..n |-> k])

\* A slip: the last element is put first and stays there.
RemovedNoSift(h, depth) == [i \in 1..Len(h) - 1 |-> IF i = 1 THEN h[Len(h)] ELSE h[i]]

\* The heap without its first element.
Removed(h, depth) ==
  DownHeap([i \in 1..Len(h) - 1 |-> IF i = 1 THEN h[Len(h)] ELSE h[i]], 1, depth)

RECURSIVE Join(_, _, _, _)
Join(h, nodes, depth, id) ==
  LET Deeper(a, b) == [i \in DOMAIN depth \cup {id} |->
                         IF i = id THEN Greater(depth[a.idx], depth[b.idx]) + 1 ELSE depth[i]]
      Joined(a, b, rest, deeper) ==
        Join(DownHeap([rest EXCEPT ![1] = [freq |-> a.freq + b.freq, idx |-> id]], 1, deeper),
             nodes \o <<[parent |-> id, idx |-> a.idx], [parent |-> id, idx |-> b.idx]>>,
             deeper, id + 1)
  IN IF Len(h) = 1 THEN nodes
     ELSE With(Removed(h, depth), LAMBDA rest : Joined(h[1], rest[1], rest, Deeper(h[1], rest[1])))

\* The depth of every node below the root, the joins read backwards; what
\* would be deeper than most is counted as an overflow.
Depths(nodes, most) ==
  LET n == Len(nodes)
      root == [i \in {nodes[n].parent} |-> 0]
  IN FoldLeft(LAMBDA s, k :
                LET node == nodes[n + 1 - k]
                    d == s.depth[node.parent] + 1
                IN [depth |-> s.depth @@ (node.idx :> Lesser(d, most)),
                    overflow |-> s.overflow + (IF d > most THEN 1 ELSE 0)],
              [depth |-> root, overflow |-> 0], [k \in 1..n |-> k])

\* A leaf above the last level is moved down and takes an overflow as its
\* brother, until there are none; count is the number of codes by length.
RECURSIVE Relieved(_, _, _)
Relieved(count, overflow, most) ==
  LET bits == Max({b \in 1..most - 1 : count[b] > 0})
      moved == [count EXCEPT ![bits] = @ - 1]
      joined == [moved EXCEPT ![bits + 1] = @ + 2]
  IN IF overflow <= 0 THEN count
     ELSE Relieved([joined EXCEPT ![most] = @ - 1], overflow - 2, most)

\* The lengths of n symbols of which some are used: their depths or, if those
\* were too large, what is left of the lengths, handed out to the leaves.
ShortLengths(n, used, nodes, d, most) ==
  LET count == [b \in 1..most |-> Cardinality({s \in used : d.depth[s] = b})]
      \* the leaves in the order they get their lengths, the longest first
      leaves == SelectSeq(Reverse([i \in DOMAIN nodes |-> nodes[i].idx]), LAMBDA i : i < n)
      Longer(relieved, b) == FoldLeft(LAMBDA a, l : a + relieved[l], 0, [l \in 1..most - b |-> b + l])
      Given(relieved, s) ==
        With(CHOOSE k \in DOMAIN leaves : leaves[k] = s,
             LAMBDA k : Min({b \in 1..most : Longer(relieved, b) < k}))
  IN IF d.overflow = 0 THEN [i \in 1..n |-> IF i - 1 \in used THEN d.depth[i - 1] ELSE 0]
     ELSE With(Relieved(count, d.overflow, most), LAMBDA relieved :
            [i \in 1..n |-> IF i - 1 \in used THEN Given(relieved, i - 1) ELSE 0])

\* calcBitLengths: the lengths of the codes for these counts, and how many of
\* them are worth sending.
BitLengths(freq, most, least) ==
  LET n == Len(freq)
      used == SelectSeq([i \in 1..n |-> i - 1], LAMBDA s : freq[s + 1] > 0)
      maxCode == IF used = <<>> THEN 0 ELSE Last(used)
      other == IF maxCode < 2 THEN maxCode + 1 ELSE 0
      flat == [s \in 0..n - 1 |-> 0]
      heap == [i \in DOMAIN used |-> [freq |-> freq[used[i] + 1], idx |-> used[i]]]
      Shared(nodes) == ShortLengths(n, ToSet(used), nodes, Depths(nodes, most), most)
  IN IF Len(used) < 2
     THEN [lengths |-> [i \in 1..n |-> IF i - 1 \in {maxCode, other} THEN 1 ELSE 0],
           size |-> Greater(least, (IF maxCode < 2 THEN other ELSE maxCode) + 1)]
     ELSE [lengths |-> Shared(Join(MakeHeap(heap, flat), <<>>, flat, n)),
           size |-> Greater(least, maxCode + 1)]

-----------------------------------------------------------------------------
(***************************************************************************)
(* Predicting the codes of the trees.  A type is 0 for a length or the     *)
(* number of a repeat.  At place p of the lengths count of them are left   *)
(* in the tree that is being coded, and first tells that it just began.    *)
(***************************************************************************)
TypeOfCode(code) == IF code > MaxBits THEN code - MaxBits ELSE 0

\* How many lengths are equal to c from place p, looked at from the start-th
\* to the stop-th.
RunOf(lengths, p, c, start, stop) ==
  Max({start} \cup {n \in start..stop : \A i \in start..n - 1 : lengths[p + i] = c})

PredictCodeType(lengths, p, count, first) ==
  LET code == lengths[p]
      zeros == RunOf(lengths, p, 0, 1, Lesser(count, RepMin[3]))
      same == RunOf(lengths, p, code, 1, Lesser(count, RepMin[1]))
  IN IF code = 0
     THEN IF zeros >= RepMin[3] THEN 3 ELSE IF zeros >= RepMin[2] THEN 2 ELSE 0
     ELSE IF ~first /\ code = lengths[p - 1] /\ same >= RepMin[1] THEN 1 ELSE 0

RepMost(type) == RepMin[type] + 2^RepExtra[type] - 1

PredictCodeData(lengths, p, type, count) ==
  IF type = 0 THEN lengths[p]
  ELSE RunOf(lengths, p, IF type = 1 THEN lengths[p] ELSE 0, RepMin[type], Lesser(count, RepMost(type)))

\* The place after a code that stands for l lengths; it may reach from the
\* tree of the literals into that of the distances, but not further.
Place(p, count1, count2, first) ==
  [p |-> p, count1 |-> count1, count2 |-> count2, first |-> first, failed |-> FALSE]
Passed(s, l) ==
  IF s.count1 > l THEN Place(s.p + l, s.count1 - l, s.count2, FALSE)
  ELSE IF s.count1 + s.count2 >= l THEN Place(s.p + l, s.count1 + s.count2 - l, 0, TRUE)
  ELSE [s EXCEPT !.failed = TRUE]

\* predictLDTrees: for each code what was predicted and what it is.
RECURSIVE PredictLDTrees(_, _, _, _)
PredictLDTrees(lengths, s, codes, records) ==
  LET type == TypeOfCode(codes[1])
      data == codes[IF type = 0 THEN 1 ELSE 2]
      record == [predType |-> PredictCodeType(lengths, s.p, s.count1, s.first), type |-> type,
                 predData |-> PredictCodeData(lengths, s.p, type, s.count1), data |-> data]
      Recorded(t, new) ==
        IF t.failed THEN [records |-> new, failed |-> TRUE]
        ELSE PredictLDTrees(lengths, t, Drop(codes, IF type = 0 THEN 1 ELSE 2), new)
  IN IF codes = <<>> THEN [records |-> records, failed |-> s.count1 + s.count2 # 0]
     ELSE IF type # 0 /\ Len(codes) < 2 THEN [records |-> records, failed |-> TRUE]
     ELSE Recorded(Passed(s, IF type = 0 THEN 1 ELSE data), Append(records, record))

\* How often each symbol of the code tree is needed for the codes.
RECURSIVE CodeCounts(_, _)
CodeCounts(codes, counts) ==
  IF codes = <<>> THEN counts
  ELSE CodeCounts(Drop(codes, IF codes[1] > MaxBits THEN 2 ELSE 1), [counts EXCEPT ![codes[1] + 1] = @ + 1])

\* collectTokenStatistics: pos is the place in the data, which the blocks
\* that are not dynamic do not move.
RECURSIVE TokenCounts(_, _, _, _)
TokenCounts(tokens, data, pos, c) ==
  LET t == tokens[1]
  IN IF tokens = <<>> THEN [c EXCEPT !.lit[NonLen] = 1]
     ELSE IF t.len = 1
     THEN TokenCounts(Tail(tokens), data, pos + 1, [c EXCEPT !.lit[data[pos + 1] + 1] = @ + 1])
     ELSE TokenCounts(Tail(tokens), data, pos + t.len,
                      [c EXCEPT !.lit[NonLen + LCode(t.len) + 1] = @ + 1, !.dist[DCode(t.dist) + 1] = @ + 1])

Advanced(pos, tokens) == pos + FoldLeft(LAMBDA n, t : n + t.len, 0, tokens)

NoTokenCounts == [lit |-> [i \in 1..NonLen + LenCodes |-> 0], dist |-> [i \in 1..DistCodes |-> 0]]
NoCodeCounts == [i \in 1..Len(TCOrder) |-> 0]

LitTree(c) == BitLengths(c.lit, MaxBits, NonLen)
DistTree(c) == BitLengths(c.dist, MaxBits, 0)

\* The lengths of both trees; the second one follows where the first one was
\* cut, whatever had been predicted beyond.
Predicted(lit, dist, nlen) == Prefix(lit.lengths, nlen) \o dist.lengths

\* buildTCBitlengths: the code tree, in the order it is sent, without the
\* zeroes it ends with.
PredictedCodeTree(counts) ==
  With(BitLengths(counts, CodeMaxBits, 0).lengths, LAMBDA lengths :
    [sent |-> [i \in 1..Len(TCOrder) |-> lengths[TCOrder[i] + 1]],
     size |-> Max({TCMin} \cup {i \in 1..Len(TCOrder) : lengths[TCOrder[i] + 1] # 0})])

\* analyzeBlock of a dynamic block: what was predicted wrong, and the pairs of
\* predicted and actual values.
AnalyzeTrees(b, data, pos) ==
  LET codes == Drop(b.codes, b.ncode)
      Analysis(lit, dist, ld, tree) ==
        [nlen |-> b.nlen, nlenWrong |-> lit.size # b.nlen,
         ndist |-> b.ndist, ndistWrong |-> dist.size # b.ndist,
         records |-> ld.records, failed |-> ld.failed,
         ncode |-> b.ncode, ncodeWrong |-> tree.size # b.ncode,
         tree |-> [i \in 1..b.ncode |-> [pred |-> tree.sent[i], actual |-> b.codes[i]]]]
      Analyzed(lit, dist) ==
        Analysis(lit, dist,
                 PredictLDTrees(Predicted(lit, dist, b.nlen), Place(1, b.nlen, b.ndist, TRUE), codes, <<>>),
                 PredictedCodeTree(CodeCounts(codes, NoCodeCounts)))
  IN With(TokenCounts(b.tokens, data, pos, NoTokenCounts), LAMBDA c : Analyzed(LitTree(c), DistTree(c)))

-----------------------------------------------------------------------------
(***************************************************************************)
(* encodeBlock and updateCounters: the codes of an analysis, and what is   *)
(* counted of it.                                                          *)
(***************************************************************************)
Prediction(kind, ref, value) == [kind |-> kind, ref |-> ref, value |-> value]
Mispredicted(kind, wrong, value, bits) ==
  IF wrong THEN <<Prediction(kind, 0, 1), Prediction("bits", bits, value)>>
  ELSE <<Prediction(kind, 0, 0)>>

TreeCodes(a) ==
  LET ofRecord(r) ==
        <<Prediction("tree type", r.predType, r.type),
          IF r.type = 0 THEN Prediction("length bits", r.predData, r.data)
          ELSE Prediction("repeat", <<r.predData, r.type>>, r.data)>>
  IN Mispredicted("literal count wrong", a.nlenWrong, a.nlen - NonLen, HeadBits[1])
     \o Mispredicted("distance count wrong", a.ndistWrong, a.ndist, HeadBits[2])
     \o FlattenSeq([i \in DOMAIN a.records |-> ofRecord(a.records[i])])
     \o Mispredicted("code count wrong", a.ncodeWrong, a.ncode - TCMin, HeadBits[3])
     \o [i \in DOMAIN a.tree |-> Prediction("code bits", a.tree[i].pred, a.tree[i].actual)]

Tally(kind, value) == [kind |-> kind, value |-> value]
Wrong(b) == IF b THEN 1 ELSE 0
TypeKind == <<"BITS wrong", "REP wrong", "REPZS wrong", "REPZL wrong">>

\* A slip: the type that was predicted is counted as the replacement.
TreeTalliesOfPredicted(a) ==
  LET ofRecord(r) ==
        LET wrong == r.type # r.predType
        IN <<Tally(TypeKind[r.predType + 1], Wrong(wrong))>>
           \o (IF wrong THEN <<Tally("replacement", r.predType)>> ELSE <<>>)
           \o <<Tally(IF r.type = 0 THEN "length bits" ELSE "repeat", r.data - r.predData)>>
  IN <<Tally("literal count wrong", Wrong(a.nlenWrong)),
       Tally("distance count wrong", Wrong(a.ndistWrong))>>
     \o FlattenSeq([i \in DOMAIN a.records |-> ofRecord(a.records[i])])
     \o <<Tally("code count wrong", Wrong(a.ncodeWrong))>>
     \o [i \in DOMAIN a.tree |-> Tally("code bits", a.tree[i].actual - a.tree[i].pred)]

TreeTallies(a) ==
  LET ofRecord(r) ==
        LET wrong == r.type # r.predType
        IN <<Tally(TypeKind[r.predType + 1], Wrong(wrong))>>
           \o (IF wrong THEN <<Tally("replacement", r.type)>> ELSE <<>>)
           \o <<Tally(IF r.type = 0 THEN "length bits" ELSE "repeat", r.data - r.predData)>>
  IN <<Tally("literal count wrong", Wrong(a.nlenWrong)),
       Tally("distance count wrong", Wrong(a.ndistWrong))>>
     \o FlattenSeq([i \in DOMAIN a.records |-> ofRecord(a.records[i])])
     \o <<Tally("code count wrong", Wrong(a.ncodeWrong))>>
     \o [i \in DOMAIN a.tree |-> Tally("code bits", a.tree[i].actual - a.tree[i].pred)]
=============================================================================
