------------------------------ MODULE HashChain ------------------------------
(***************************************************************************)
(* The hash chains of preflate (src/contrib/preflate/preflate_hash_chain): *)
(* arrays of 16-bit positions, relative to totalShift, that are moved down *)
(* by Delta entries whenever the position comes near their end.  An index  *)
(* below Low, left by such a move, stands for a position out of the        *)
(* window.  One call of updateHash is several steps here: the blocks it is *)
(* cut into and, in each, one position after the other.                    *)
(***************************************************************************)
EXTENDS Integers, Sequences

CONSTANTS
  Byte, Hash, Window,
  Hashes,     \* the hash values
  Cap,        \* the entries of prev and chainDepth (2^16)
  Delta,      \* how far one reshift moves them (0x7e00)
  Low,        \* the indexes no position has (8)
  MaxBlk,     \* the longest block updateHash works on (0x180)
  Calls,      \* the lengths updateHash is called with (any number of bytes)
  Skips       \* the lengths skipHash is called with (those of references)

Threshold == Delta + Window + Low     \* 0xfe08

ASSUME HashAssumption == Hash \in [Byte \X Byte \X Byte -> Hashes]

ASSUME SizeAssumption ==
  /\ {Window, Delta, Low, MaxBlk} \subseteq Nat \ {0}
  /\ Cap \in Nat
  /\ Calls \subseteq Nat \ {0}
  /\ Skips \subseteq 1..MaxBlk
  /\ MaxBlk <= Delta
  /\ Threshold + MaxBlk <= Cap

VARIABLES
  input,        \* the uncompressed data
  pos,          \* the position of the predictor in it
  head,         \* hash -> the index of its latest position
  prev,         \* index -> the index of the position before it
  chainDepth,   \* index -> how many positions the chain had up to it
  totalShift,   \* index + totalShift is a position of the input
  todo,         \* the bytes of the call that are in no block yet
  blk,          \* the bytes of the block being entered, 0 between blocks
  cur,          \* the next position of the block to enter
  skipping,     \* the call is a skipHash
  inserted      \* history: every position that was entered

hashVars == <<pos, head, prev, chainDepth, totalShift, todo, blk, cur,
              skipping, inserted>>

vars == <<input, hashVars>>

Indexes == 0..(Cap - 1)

\* What the depth of a position that is skipped is set to (0xffff8000).
SkippedDepth == -1

HashAt(q) == Hash[<<input[q + 1], input[q + 2], input[q + 3]>>]

Hashable(q) == q + 2 < Len(input)

Idle == todo = 0 /\ blk = 0

MaxOf(a, b) == IF a > b THEN a ELSE b

MinOf(a, b) == IF a < b THEN a ELSE b

\* Mutant: the subtraction of 16-bit entries without the max before it.
LoweredWraps(x) == (x - Delta + Cap) % Cap

\* Moving a 16-bit entry down: what falls out of the array becomes 0.
Lowered(x) == MaxOf(x, Delta) - Delta

HashInit ==
  /\ pos = 0
  /\ head = [h \in Hashes |-> 0]
  /\ prev = [p \in Indexes |-> 0]
  /\ chainDepth = [p \in Indexes |-> 0]
  /\ totalShift = -Low
  /\ todo = 0
  /\ blk = 0
  /\ cur = 0
  /\ skipping = FALSE
  /\ inserted = {}

Init ==
  /\ input \in Seq(Byte)
  /\ HashInit

\* Mutant: the loop over the heads misses one of them.
ReshiftButOneHead ==
  /\ \E m \in Hashes :
       head' = [h \in Hashes |-> IF h = m THEN head[h] ELSE Lowered(head[h])]
  /\ prev' = [p \in Indexes |->
                IF p >= Low /\ p + Delta < Cap THEN Lowered(prev[p + Delta]) ELSE prev[p]]
  /\ chainDepth' = [p \in Indexes |->
                      IF p >= Low /\ p + Delta < Cap THEN chainDepth[p + Delta] ELSE chainDepth[p]]
  /\ totalShift' = totalShift + Delta

\* Mutant: the depths are not moved along with the links.
ReshiftLinksOnly ==
  /\ head' = [h \in Hashes |-> Lowered(head[h])]
  /\ prev' = [p \in Indexes |->
                IF p >= Low /\ p + Delta < Cap THEN Lowered(prev[p + Delta]) ELSE prev[p]]
  /\ totalShift' = totalShift + Delta
  /\ UNCHANGED chainDepth

Reshift ==
  /\ head' = [h \in Hashes |-> Lowered(head[h])]
  /\ prev' = [p \in Indexes |->
                IF p >= Low /\ p + Delta < Cap THEN Lowered(prev[p + Delta]) ELSE prev[p]]
  /\ chainDepth' = [p \in Indexes |->
                      IF p >= Low /\ p + Delta < Cap THEN chainDepth[p + Delta] ELSE chainDepth[p]]
  /\ totalShift' = totalShift + Delta

(***************************************************************************)
(* The calls updateHash(l) and skipHash(l): the predictor does nothing     *)
(* else until they return.                                                 *)
(***************************************************************************)
UpdateHash(l) ==
  /\ Idle
  /\ pos + l <= Len(input)
  /\ todo' = l
  /\ skipping' = FALSE
  /\ UNCHANGED <<input, pos, head, prev, chainDepth, totalShift, blk, cur, inserted>>

SkipHash(l) ==
  /\ Idle
  /\ pos + l <= Len(input)
  /\ todo' = l
  /\ skipping' = TRUE
  /\ UNCHANGED <<input, pos, head, prev, chainDepth, totalShift, blk, cur, inserted>>

\* A block begins with the reshift when it is due; a skip is one block.
StartBlock ==
  /\ todo > 0
  /\ blk = 0
  /\ IF pos - totalShift >= Threshold
     THEN Reshift
     ELSE UNCHANGED <<head, prev, chainDepth, totalShift>>
  /\ blk' = MinOf(todo, MaxBlk)
  /\ todo' = todo - MinOf(todo, MaxBlk)
  /\ cur' = pos
  /\ UNCHANGED <<input, pos, skipping, inserted>>

\* The bytes of the block whose positions are entered.
Entered == IF skipping THEN 1 ELSE blk

Insert ==
  /\ cur < pos + Entered
  /\ blk > 0
  /\ Hashable(cur)
  /\ LET h == HashAt(cur)
         p == cur - totalShift
     IN /\ chainDepth' = [chainDepth EXCEPT ![p] = chainDepth[head[h]] + 1]
        /\ prev' = [prev EXCEPT ![p] = head[h]]
        /\ head' = [head EXCEPT ![h] = p]
  /\ inserted' = inserted \cup {cur}
  /\ cur' = cur + 1
  /\ UNCHANGED <<input, pos, totalShift, todo, blk, skipping>>

\* The end of a block: the positions a skip leaves out get a depth that no
\* search accepts.
EndBlock ==
  /\ blk > 0
  /\ cur = pos + Entered \/ ~Hashable(cur)
  /\ chainDepth' = IF skipping /\ Hashable(pos)
                   THEN [p \in Indexes |->
                           IF p > pos - totalShift /\ p < pos + blk - totalShift
                           THEN SkippedDepth ELSE chainDepth[p]]
                   ELSE chainDepth
  /\ pos' = pos + blk
  /\ blk' = 0
  /\ UNCHANGED <<input, head, prev, totalShift, todo, cur, skipping, inserted>>

HashStep == StartBlock \/ Insert \/ EndBlock

Next ==
  \/ \E l \in Calls : UpdateHash(l)
  \/ \E l \in Skips : SkipHash(l)
  \/ HashStep

Spec == Init /\ [][Next]_vars

-----------------------------------------------------------------------------
\* What an iterator of the code takes for the end of a chain, as seen from
\* the position pos.
Ends(n) == n = 0 \/ pos - totalShift - n > Window

(***************************************************************************)
(* Between calls, every link within the window goes to the latest earlier  *)
(* position with the same hash that was entered, and it ends the chain     *)
(* only when there is no such position within the window; a hash's head is *)
(* its latest position.  No reshift may lose a link, or leave one that     *)
(* points at a position of another hash (prev and head in updateHash,      *)
(* skipHash, reshift).                                                     *)
(***************************************************************************)
Nearest(n, set) ==
  IF Ends(n)
  THEN \A r \in set : pos - r > Window
  ELSE n + totalShift \in set /\ \A r \in set : r <= n + totalShift

LinksRight ==
  Idle =>
    /\ \A h \in Hashes :
         Nearest(head[h], {r \in inserted : HashAt(r) = h})
    /\ \A q \in inserted :
         pos - q <= Window =>
           Nearest(prev[q - totalShift],
                   {r \in inserted : r < q /\ HashAt(r) = HashAt(q)})

(***************************************************************************)
(* Along a chain within the window the depth goes down by one at each      *)
(* link: getRelPosDepth, a difference of two depths, counts the links      *)
(* between two positions, also after a reshift has cut the chain below     *)
(* them.                                                                   *)
(***************************************************************************)
DepthsRight ==
  Idle =>
    \A q \in inserted :
      LET n == prev[q - totalShift]
      IN pos - q <= Window /\ ~Ends(n) =>
           chainDepth[q - totalShift] = chainDepth[n] + 1

(***************************************************************************)
(* The walk of the iterator from a node, for a reference position and a    *)
(* largest distance, as far as the entries of the arrays go.               *)
(***************************************************************************)
Walk(node, ref, maxDist) ==
  LET at[i \in 0..Cap] ==
        IF i = 0 THEN node ELSE prev[at[i - 1]]
      Stops(i) == \/ ref - totalShift - at[i] > maxDist
                  \/ i > 0 /\ at[i] = 0
      end == CHOOSE i \in DOMAIN at :
               Stops(i) /\ \A j \in 0..(i - 1) : ~Stops(j)
  IN [i \in 1..end |-> at[i - 1] + totalShift]

\* The positions the window of the chains holds: what the abstract
\* specification of the chains calls nodes.
Held ==
  UNION {LET w == Walk(head[h], pos, MinOf(pos, Window))
         IN {w[i] : i \in DOMAIN w} : h \in Hashes}

Abstract == INSTANCE MatchChain WITH nodes <- {q \in Held : q < pos}

(***************************************************************************)
(* The arrays implement the chains: at every step the positions reached    *)
(* from the heads are those of the abstract specification.                 *)
(***************************************************************************)
ImplementsChains == Abstract!Spec
=============================================================================
