-------------------------- MODULE EncodeRoundProofs --------------------------
(***************************************************************************)
(* What EncodeRound promises for every number of tasks, streams, chunks    *)
(* and failures, when every task has a slot of its own (~LowMem).          *)
(*                                                                         *)
(* IInv is inductive.  Its heart is the argument why the main thread may   *)
(* read a slot without a lock: a task publishes the slot it has picked     *)
(* (ThrIdx) before it claims a stream of it, and a slot is only Processed  *)
(* when StrIdx has passed its last stream.  A task that picked the slot    *)
(* before that and publishes it after the main thread has looked claims    *)
(* nothing any more.                                                       *)
(*                                                                         *)
(* FutureInv, of the streams put off to a later scan, and HelpersInv, of   *)
(* nested rounds, come after it and rest on it.                            *)
(***************************************************************************)
EXTENDS EncodeRound, CommonLemmas

-----------------------------------------------------------------------------
(* What the provers need to know of the indices; Threads stays unexpanded. *)

IndexFacts ==
  /\ Slots = Threads /\ NumSlots = NumThreads /\ NumThreads \in Nat \ {0}
  /\ 0 \in Threads
  /\ \A i \in Threads :
       /\ i \in Nat /\ i < NumThreads /\ i # -2
       /\ i + 1 < NumThreads => i + 1 \in Threads
       /\ i + 1 # NumThreads => i + 1 < NumThreads

\* Without LowMem there is a slot for every task.
LEMMA Indices == ASSUME ~LowMem PROVE IndexFacts
  BY ThreadsAssumption DEF IndexFacts, Slots, NumSlots, Threads

\* Adding deferred streams to the lists, and clearing one of them, keeps their
\* type.
LEMMA FutureUpdate ==
  ASSUME NEW F \in [Slots -> [Chunks -> Nat]], NEW a \in Slots, NEW c \in Chunks
  PROVE  [F EXCEPT ![a][c] = 0] \in [Slots -> [Chunks -> Nat]]
<1>1. [F[a] EXCEPT ![c] = 0] \in [Chunks -> Nat]
  OBVIOUS
<1>. QED
  BY <1>1

LEMMA FutureAdd ==
  ASSUME NEW F \in [Slots -> [Chunks -> Nat]], NEW d \in [Chunks -> Nat]
  PROVE  [i \in Slots |-> [c \in Chunks |->
            F[i][c] + IF Listed(c, i) THEN d[c] ELSE 0]] \in [Slots -> [Chunks -> Nat]]
<1>1. ASSUME NEW i \in Slots, NEW c \in Chunks
      PROVE  (F[i][c] + IF Listed(c, i) THEN d[c] ELSE 0) \in Nat
  <2>1. F[i][c] \in Nat /\ d[c] \in Nat
    OBVIOUS
  <2> QED
    BY <2>1
<1> QED
  BY <1>1

\* Adding a stream to a set of processed ones keeps its type.
LEMMA DoneUpdate ==
  ASSUME NEW S, NEW F \in [S -> SUBSET Int], NEW a, NEW n \in Int
  PROVE  [F EXCEPT ![a] = @ \cup {n}] \in [S -> SUBSET Int]
<1>1. CASE a \in S
  <2>1. F[a] \cup {n} \in SUBSET Int
    BY <1>1
  <2>. QED
    BY <1>1, <2>1
<1>2. CASE a \notin S
  BY <1>2
<1>. QED
  BY <1>1, <1>2

\* The chunk of a slot that has data is a chunk of the input.
LEMMA ChunkOfSlot ==
  ASSUME NEW a \in Slots, pos \in [Slots -> Nat], HasData(a)
  PROVE  pos[a] \in Chunks
  BY BoundsAssumption DEF HasData, Chunks

\* Steps that neither claim nor finish a stream leave DoneInv alone.
LEMMA DoneStable ==
  ASSUME DoneInv, UNCHANGED <<done, count, strIdx>>,
         \A u \in Threads : /\ Holding(u)' <=> Holding(u)
                            /\ Holding(u) => z'[u] = z[u] /\ x'[u] = x[u]
  PROVE  DoneInv'
  BY DEF DoneInv, Streams

\* A claim adds the stream to the claimed ones, and the task holds it.
LEMMA DoneClaim ==
  ASSUME NEW t \in Threads, IndexFacts, TypeOK, DoneInv, z[t] \in Slots, ~Holding(t),
         x'[t] = strIdx[z[t]] + 1, strIdx'[z[t]] = strIdx[z[t]] + 1,
         \A i \in Slots \ {z[t]} : strIdx'[i] = strIdx[i],
         UNCHANGED <<z, done, count>>,
         \A u \in Threads \ {t} : x'[u] = x[u] /\ (Holding(u)' <=> Holding(u)),
         Holding(t)' <=> strIdx[z[t]] + 1 < count[z[t]]
  PROVE  DoneInv'
<1>1. \A i \in Slots : done'[i] \subseteq Streams(i)'
  BY DEF DoneInv, Streams
<1>2. ASSUME NEW i \in Slots, NEW s \in Streams(i)
      PROVE  s \in done'[i] <=>
               /\ s <= strIdx'[i]
               /\ \A u \in Threads : Holding(u)' /\ z'[u] = i => x'[u] # s
  <2>0. strIdx[i] \in Int /\ count[i] \in Nat /\ s \in Nat /\ s < count[i]
    BY DEF TypeOK, Streams
  <2>1. s \in done[i] <=> /\ s <= strIdx[i]
                          /\ \A u \in Threads : Holding(u) /\ z[u] = i => x[u] # s
    BY DEF DoneInv
  <2>2. CASE i # z[t]
    BY <2>0, <2>1, <2>2
  <2>3. CASE i = z[t] /\ s <= strIdx[i]
    BY <2>0, <2>1, <2>3
  <2>4. CASE i = z[t] /\ s = strIdx[i] + 1
    BY <2>0, <2>1, <2>4
  <2>5. CASE i = z[t] /\ s > strIdx[i] + 1
    BY <2>0, <2>1, <2>5
  <2>. QED
    BY <2>0, <2>2, <2>3, <2>4, <2>5
<1>. QED
  BY <1>1, <1>2 DEF DoneInv, Streams

\* A claim beyond the last stream changes nothing for the streams.
LEMMA DoneNoClaim ==
  ASSUME NEW t \in Threads, IndexFacts, TypeOK, DoneInv,
         z[t] \in Slots /\ strIdx[z[t]] >= count[z[t]]
           /\ strIdx' = [strIdx EXCEPT ![z[t]] = @ + 1],
         UNCHANGED <<z, done, count>>,
         \A u \in Threads : (Holding(u)' <=> Holding(u)) /\ (Holding(u) => x'[u] = x[u])
  PROVE  DoneInv'
<1>1. \A i \in Slots : done'[i] \subseteq Streams(i)'
  BY DEF DoneInv, Streams
<1>2. ASSUME NEW i \in Slots, NEW s \in Streams(i) PROVE s <= strIdx'[i] <=> s <= strIdx[i]
  BY DEF TypeOK, Streams
<1>. QED
  BY <1>1, <1>2 DEF DoneInv, Streams

-----------------------------------------------------------------------------
\* Every step keeps the types.
LEMMA TypeOKStep ==
  ASSUME IndexFacts, TypeOK, PickInv, Next
  PROVE  TypeOK'
<1>. USE DEF TypeOK, PCs, MainPCs, IndexFacts, Goto, mainVars, storeVars, taskVars, flagVars, infoVars, nestVars
<1>1. CASE BeginRound
  <2>1. count' \in [Slots -> Nat] /\ strIdx' \in [Slots -> Int] /\ done' \in [Slots -> SUBSET Int]
    BY <1>1 DEF BeginRound
  <2>2. scanned1' \in [Slots -> BOOLEAN] /\ scanned2' \in [Slots -> BOOLEAN]
    BY <1>1 DEF BeginRound
  <2>3. processed' \in [Threads -> BOOLEAN] /\ helping' \in [Threads -> BOOLEAN]
    BY <1>1 DEF BeginRound
  <2>. QED
    BY <1>1, <2>1, <2>2, <2>3 DEF BeginRound
<1>2. CASE StartTask
  BY <1>2 DEF StartTask
<1>3. CASE SeeProcessed
  BY <1>3 DEF SeeProcessed
<1>4. CASE SeeThrIdx
  BY <1>4 DEF SeeThrIdx
<1>5. CASE RaiseError
  BY <1>5 DEF RaiseError, IsErrored
<1>6. CASE Emit
  BY <1>6 DEF Emit, NextSlot, HasData
<1>7. CASE LoadEx
  BY <1>7 DEF LoadEx, Refill, NextSlot
<1>8. CASE LastLoadEx
  BY <1>8 DEF LastLoadEx, Refill
<1>9. CASE Join
  BY <1>9 DEF Join, AfterJoin
<1>10. CASE EndOfInput
  BY <1>10 DEF EndOfInput, StoreDone, HasData
<1>11. ASSUME NEW t \in Threads, Scan1(t) PROVE TypeOK'
  <2>1. count' \in [Slots -> Nat]
    BY <1>11, BoundsAssumption DEF Scan1
  <2>2. future' \in [Slots -> [Chunks -> Nat]]
    <3>1. PICK d \in Deferrals(t) :
            future' = [i \in Slots |-> [c \in Chunks |->
                         future[i][c] + IF Listed(c, i) THEN d[c] ELSE 0]]
      BY ONLY <1>11 DEF Scan1
    <3>2. d \in [Chunks -> Nat]
      BY BoundsAssumption DEF Deferrals
    <3>. QED
      BY ONLY <3>1, <3>2, FutureAdd, future \in [Slots -> [Chunks -> Nat]]
  <2>. QED
    BY <1>11, <2>1, <2>2 DEF Scan1
<1>12. ASSUME NEW t \in Threads, PassBarrier(t) PROVE TypeOK'
  BY <1>12 DEF PassBarrier
<1>13. ASSUME NEW t \in Threads, Scan2(t) PROVE TypeOK'
  <2>1. CASE HasData(t)
    <3>1. pos[t] \in Chunks
      BY <2>1, ChunkOfSlot
    <3>2. count' \in [Slots -> Nat]
      <4>1. future[t] \in [Chunks -> Nat]
        OBVIOUS
      <4>2. \A n \in 0 .. future[t][pos[t]] : count[t] + n \in Nat
        BY <3>1, <4>1
      <4>3. \E n \in 0 .. future[t][pos[t]] : count' = [count EXCEPT ![t] = @ + n]
        BY ONLY <1>13, <2>1 DEF Scan2
      <4>4. \A n \in Nat : [count EXCEPT ![t] = n] \in [Slots -> Nat]
        OBVIOUS
      <4>. QED
        BY <4>2, <4>3, <4>4
    <3>3. [future EXCEPT ![t][pos[t]] = 0] \in [Slots -> [Chunks -> Nat]]
      BY <3>1, FutureUpdate, Slots = Threads
    <3>4. future' \in [Slots -> [Chunks -> Nat]]
      BY <1>13, <2>1, <3>3 DEF Scan2
    <3>. QED
      BY <1>13, <2>1, <3>2, <3>4 DEF Scan2
  <2>2. CASE ~HasData(t)
    BY <1>13, <2>2 DEF Scan2
  <2>. QED
    BY <2>1, <2>2
<1>14. ASSUME NEW t \in Threads, Get(t) PROVE TypeOK'
  <2>1. PICK a \in Threads \cup {-2} : z' = [z EXCEPT ![t] = a]
    BY <1>14 DEF Get, GetIndex
  <2>2. pc' \in [Threads -> PCs]
    BY <1>14 DEF Get
  <2>. QED
    BY <1>14, <2>1, <2>2 DEF Get
<1>15. ASSUME NEW t \in Threads, SetThrIdx(t) PROVE TypeOK'
  BY <1>15 DEF SetThrIdx
<1>16. ASSUME NEW t \in Threads, Claim(t) PROVE TypeOK'
  <2>1. z[t] \in Slots
    BY <1>16 DEF Claim, PickInv, Picked
  <2>. QED
    BY <1>16, <2>1 DEF Claim
<1>17. ASSUME NEW t \in Threads, CallHelper(t) PROVE TypeOK'
  BY <1>17 DEF CallHelper
<1>18. ASSUME NEW t \in Threads, ProcessLeaf(t) PROVE TypeOK'
  <2>1. [done EXCEPT ![z[t]] = @ \cup {x[t]}] \in [Slots -> SUBSET Int]
    BY DoneUpdate
  <2>. QED
    BY <1>18, <2>1 DEF ProcessLeaf
<1>19. ASSUME NEW t \in Threads, ProcessNested(t) PROVE TypeOK'
  BY <1>19 DEF ProcessNested
<1>20. ASSUME NEW t \in Threads, NestedClaim(t) PROVE TypeOK'
  BY <1>20 DEF NestedClaim
<1>21. ASSUME NEW t \in Threads, NestedProcess(t) PROVE TypeOK'
  BY <1>21 DEF NestedProcess
<1>22. ASSUME NEW t \in Threads, AwaitHelpers(t) PROVE TypeOK'
  <2>1. PICK a \in Threads : k' = [k EXCEPT ![t] = a]
    BY <1>22 DEF AwaitHelpers
  <2>2. \/ pc' = pc
        \/ \E l \in {"nend", "mark", "exit"} : pc' = [pc EXCEPT ![t] = l]
    BY <1>22 DEF AwaitHelpers
  <2>3. pc' \in [Threads -> PCs]
    BY <2>2
  <2>4. k' \in [Threads -> Threads]
    BY <2>1
  <2>. QED
    BY ONLY TypeOK, <1>22, <2>3, <2>4 DEF AwaitHelpers
<1>23. ASSUME NEW t \in Threads, NestedEnd(t) PROVE TypeOK'
  <2>1. [done EXCEPT ![z[t]] = @ \cup {x[t]}] \in [Slots -> SUBSET Int]
    BY DoneUpdate
  <2>. QED
    BY <1>23, <2>1 DEF NestedEnd
<1>24. ASSUME NEW t \in Threads, MarkProcessed(t) PROVE TypeOK'
  BY <1>24 DEF MarkProcessed
<1>25. ASSUME NEW t \in Threads, Exit(t) PROVE TypeOK'
  BY <1>25 DEF Exit
<1>26. ASSUME NEW t \in Threads, HelperClaim0(t) PROVE TypeOK'
  <2>1. z[t] \in Slots
    BY <1>26 DEF HelperClaim0, PickInv, Assisting
  <2>. QED
    BY <1>26, <2>1 DEF HelperClaim0
<1>27. ASSUME NEW t \in Threads, HelperClaim1(t) PROVE TypeOK'
  <2>1. z[t] \in Slots
    BY <1>27 DEF HelperClaim1, PickInv, Assisting
  <2>. QED
    BY <1>27, <2>1 DEF HelperClaim1
<1>28. ASSUME NEW t \in Threads, HelperProcess(t) PROVE TypeOK'
  <2>1. [done EXCEPT ![z[t]] = @ \cup {x[t]}] \in [Slots -> SUBSET Int]
    BY DoneUpdate
  <2>2. [ndone EXCEPT ![z[t]] = @ \cup {nx[t]}] \in [Threads -> SUBSET Int]
    BY DoneUpdate
  <2>3. done' \in [Slots -> SUBSET Int] /\ ndone' \in [Threads -> SUBSET Int]
    BY <1>28, <2>1, <2>2 DEF HelperProcess
  <2>. QED
    BY <1>28, <2>3 DEF HelperProcess
<1>29. ASSUME NEW t \in Threads, HelperEnd(t) PROVE TypeOK'
  BY <1>29 DEF HelperEnd
<1>30. ASSUME NEW t \in Threads, SetErrored(t) PROVE TypeOK'
  BY <1>30 DEF SetErrored
<1>31. ASSUME NEW t \in Threads, Fail(t) PROVE TypeOK'
  BY <1>31 DEF Fail
<1>32. CASE Finished
  BY <1>32 DEF Finished, vars
<1>. QED
  BY <1>1, <1>2, <1>3, <1>4, <1>5, <1>6, <1>7, <1>8, <1>9, <1>10, <1>11, 
     <1>12, <1>13, <1>14, <1>15, <1>16, <1>17, <1>18, <1>19, <1>20, 
     <1>21, <1>22, <1>23, <1>24, <1>25, <1>26, <1>27, <1>28, <1>29, 
     <1>30, <1>31, <1>32 DEF Next, Main, Task

-----------------------------------------------------------------------------
\* A task is ready exactly when it runs nothing, and errored only after it failed.
LEMMA StatusInvStep ==
  ASSUME IndexFacts, TypeOK, StatusInv, MainInv, Next
  PROVE  StatusInv'
<1>. USE DEF TypeOK, StatusInv, MainInv, IndexFacts, Goto, mainVars, storeVars, taskVars, flagVars, infoVars, nestVars
<1>1. CASE BeginRound
  BY <1>1 DEF BeginRound, IsErrored
<1>2. CASE StartTask
  BY <1>2 DEF StartTask
<1>3. CASE SeeProcessed
  BY <1>3 DEF SeeProcessed
<1>4. CASE SeeThrIdx
  BY <1>4 DEF SeeThrIdx
<1>5. CASE RaiseError
  BY <1>5 DEF RaiseError, IsErrored
<1>6. CASE Emit
  BY <1>6 DEF Emit, NextSlot, HasData
<1>7. CASE LoadEx
  BY <1>7 DEF LoadEx, Refill, NextSlot
<1>8. CASE LastLoadEx
  BY <1>8 DEF LastLoadEx, Refill
<1>9. CASE Join
  BY <1>9 DEF Join, AfterJoin
<1>10. CASE EndOfInput
  BY <1>10 DEF EndOfInput, StoreDone, HasData
<1>11. ASSUME NEW t \in Threads, Scan1(t) PROVE StatusInv'
  BY <1>11 DEF Scan1, HasData
<1>12. ASSUME NEW t \in Threads, PassBarrier(t) PROVE StatusInv'
  BY <1>12 DEF PassBarrier
<1>13. ASSUME NEW t \in Threads, Scan2(t) PROVE StatusInv'
  BY <1>13 DEF Scan2, HasData
<1>14. ASSUME NEW t \in Threads, Get(t) PROVE StatusInv'
  BY <1>14 DEF Get, GetIndex
<1>15. ASSUME NEW t \in Threads, SetThrIdx(t) PROVE StatusInv'
  BY <1>15 DEF SetThrIdx
<1>16. ASSUME NEW t \in Threads, Claim(t) PROVE StatusInv'
  BY <1>16 DEF Claim
<1>17. ASSUME NEW t \in Threads, CallHelper(t) PROVE StatusInv'
  BY <1>17 DEF CallHelper
<1>18. ASSUME NEW t \in Threads, ProcessLeaf(t) PROVE StatusInv'
  BY <1>18 DEF ProcessLeaf
<1>19. ASSUME NEW t \in Threads, ProcessNested(t) PROVE StatusInv'
  BY <1>19 DEF ProcessNested
<1>20. ASSUME NEW t \in Threads, NestedClaim(t) PROVE StatusInv'
  BY <1>20 DEF NestedClaim
<1>21. ASSUME NEW t \in Threads, NestedProcess(t) PROVE StatusInv'
  BY <1>21 DEF NestedProcess
<1>22. ASSUME NEW t \in Threads, AwaitHelpers(t) PROVE StatusInv'
  BY <1>22 DEF AwaitHelpers
<1>23. ASSUME NEW t \in Threads, NestedEnd(t) PROVE StatusInv'
  BY <1>23 DEF NestedEnd
<1>24. ASSUME NEW t \in Threads, MarkProcessed(t) PROVE StatusInv'
  BY <1>24 DEF MarkProcessed
<1>25. ASSUME NEW t \in Threads, Exit(t) PROVE StatusInv'
  BY <1>25 DEF Exit
<1>26. ASSUME NEW t \in Threads, HelperClaim0(t) PROVE StatusInv'
  BY <1>26 DEF HelperClaim0
<1>27. ASSUME NEW t \in Threads, HelperClaim1(t) PROVE StatusInv'
  BY <1>27 DEF HelperClaim1
<1>28. ASSUME NEW t \in Threads, HelperProcess(t) PROVE StatusInv'
  BY <1>28 DEF HelperProcess
<1>29. ASSUME NEW t \in Threads, HelperEnd(t) PROVE StatusInv'
  BY <1>29 DEF HelperEnd
<1>30. ASSUME NEW t \in Threads, SetErrored(t) PROVE StatusInv'
  BY <1>30 DEF SetErrored
<1>31. ASSUME NEW t \in Threads, Fail(t) PROVE StatusInv'
  BY <1>31 DEF Fail
<1>32. CASE Finished
  BY <1>32 DEF Finished, vars
<1>. QED
  BY <1>1, <1>2, <1>3, <1>4, <1>5, <1>6, <1>7, <1>8, <1>9, <1>10, <1>11, 
     <1>12, <1>13, <1>14, <1>15, <1>16, <1>17, <1>18, <1>19, <1>20, 
     <1>21, <1>22, <1>23, <1>24, <1>25, <1>26, <1>27, <1>28, <1>29, 
     <1>30, <1>31, <1>32 DEF Next, Main, Task

-----------------------------------------------------------------------------
\* The order of a round: all scans, then the deferred streams, then claims, and
\* a slot is Processed only when its last stream has been claimed.
LEMMA ScanInvStep ==
  ASSUME IndexFacts, TypeOK, StatusInv, ScanInv, PickInv, MainInv, Next
  PROVE  ScanInv'
<1>. USE DEF TypeOK, StatusInv, ScanInv, PickInv, MainInv, Picked, Holding, Assisting, IndexFacts, Goto, mainVars, storeVars, taskVars, flagVars, infoVars, nestVars
<1>1. CASE BeginRound
  BY <1>1 DEF BeginRound, IsErrored
<1>2. CASE StartTask
  BY <1>2 DEF StartTask
<1>3. CASE SeeProcessed
  BY <1>3 DEF SeeProcessed
<1>4. CASE SeeThrIdx
  BY <1>4 DEF SeeThrIdx
<1>5. CASE RaiseError
  BY <1>5 DEF RaiseError, IsErrored
<1>6. CASE Emit
  BY <1>6 DEF Emit, NextSlot, HasData
<1>7. CASE LoadEx
  BY <1>7 DEF LoadEx, Refill, NextSlot
<1>8. CASE LastLoadEx
  BY <1>8 DEF LastLoadEx, Refill
<1>9. CASE Join
  BY <1>9 DEF Join, AfterJoin
<1>10. CASE EndOfInput
  BY <1>10 DEF EndOfInput, StoreDone, HasData
<1>11. ASSUME NEW t \in Threads, Scan1(t) PROVE ScanInv'
  BY <1>11 DEF Scan1, HasData
<1>12. ASSUME NEW t \in Threads, PassBarrier(t) PROVE ScanInv'
  BY <1>12 DEF PassBarrier
<1>13. ASSUME NEW t \in Threads, Scan2(t) PROVE ScanInv'
  <2>1. \A i \in Slots \ {t} : count'[i] = count[i]
    BY <1>13 DEF Scan2
  <2>2. ~processed[t] /\ UNCHANGED processed
    BY <1>13 DEF Scan2
  <2>3. /\ pc[t] = "scan2" /\ pc' = [pc EXCEPT ![t] = "get"]
        /\ scanned2' = [scanned2 EXCEPT ![t] = TRUE] /\ UNCHANGED <<scanned1, strIdx>>
    BY <1>13 DEF Scan2
  <2>. QED
    BY <2>1, <2>2, <2>3
<1>14. ASSUME NEW t \in Threads, Get(t) PROVE ScanInv'
  BY <1>14 DEF Get, GetIndex
<1>15. ASSUME NEW t \in Threads, SetThrIdx(t) PROVE ScanInv'
  BY <1>15 DEF SetThrIdx
<1>16. ASSUME NEW t \in Threads, Claim(t) PROVE ScanInv'
  BY <1>16 DEF Claim
<1>17. ASSUME NEW t \in Threads, CallHelper(t) PROVE ScanInv'
  BY <1>17 DEF CallHelper
<1>18. ASSUME NEW t \in Threads, ProcessLeaf(t) PROVE ScanInv'
  BY <1>18 DEF ProcessLeaf
<1>19. ASSUME NEW t \in Threads, ProcessNested(t) PROVE ScanInv'
  BY <1>19 DEF ProcessNested
<1>20. ASSUME NEW t \in Threads, NestedClaim(t) PROVE ScanInv'
  BY <1>20 DEF NestedClaim
<1>21. ASSUME NEW t \in Threads, NestedProcess(t) PROVE ScanInv'
  BY <1>21 DEF NestedProcess
<1>22. ASSUME NEW t \in Threads, AwaitHelpers(t) PROVE ScanInv'
  <2>1. \A u \in Threads : pc'[u] # pc[u] =>
          pc[u] \in {"nwait", "tail", "drain"} /\ pc'[u] \in {"nend", "mark", "exit"}
    BY <1>22 DEF AwaitHelpers
  <2>2. UNCHANGED <<scanned1, scanned2, processed, strIdx, count>>
    BY <1>22 DEF AwaitHelpers
  <2>. QED
    BY ONLY ScanInv, <2>1, <2>2 DEF ScanInv
<1>23. ASSUME NEW t \in Threads, NestedEnd(t) PROVE ScanInv'
  BY <1>23 DEF NestedEnd
<1>24. ASSUME NEW t \in Threads, MarkProcessed(t) PROVE ScanInv'
  BY <1>24 DEF MarkProcessed
<1>25. ASSUME NEW t \in Threads, Exit(t) PROVE ScanInv'
  BY <1>25 DEF Exit
<1>26. ASSUME NEW t \in Threads, HelperClaim0(t) PROVE ScanInv'
  <2>1. z[t] \in Slots
    BY <1>26 DEF HelperClaim0
  <2>2. pc'[t] \in {"hproc", "hend"} /\ \A u \in Threads \ {t} : pc'[u] = pc[u]
    BY <1>26 DEF HelperClaim0
  <2>3. strIdx' = [strIdx EXCEPT ![z[t]] = @ + 1] /\ AllProcessed
    BY <1>26 DEF HelperClaim0, Outside
  <2>. QED
    BY <1>26, <2>1, <2>2, <2>3 DEF HelperClaim0, AllProcessed
<1>27. ASSUME NEW t \in Threads, HelperClaim1(t) PROVE ScanInv'
  BY <1>27 DEF HelperClaim1
<1>28. ASSUME NEW t \in Threads, HelperProcess(t) PROVE ScanInv'
  BY <1>28 DEF HelperProcess
<1>29. ASSUME NEW t \in Threads, HelperEnd(t) PROVE ScanInv'
  BY <1>29 DEF HelperEnd
<1>30. ASSUME NEW t \in Threads, SetErrored(t) PROVE ScanInv'
  BY <1>30 DEF SetErrored
<1>31. ASSUME NEW t \in Threads, Fail(t) PROVE ScanInv'
  BY <1>31 DEF Fail
<1>32. CASE Finished
  BY <1>32 DEF Finished, vars
<1>. QED
  BY <1>1, <1>2, <1>3, <1>4, <1>5, <1>6, <1>7, <1>8, <1>9, <1>10, <1>11, 
     <1>12, <1>13, <1>14, <1>15, <1>16, <1>17, <1>18, <1>19, <1>20, 
     <1>21, <1>22, <1>23, <1>24, <1>25, <1>26, <1>27, <1>28, <1>29, 
     <1>30, <1>31, <1>32 DEF Next, Main, Task

-----------------------------------------------------------------------------
\* What a task knows of the slot it has picked.
LEMMA PickInvStep ==
  ASSUME IndexFacts, DepthAssumption, TypeOK, StatusInv, ScanInv, PickInv, MainInv, Next
  PROVE  PickInv'
<1>. USE DEF TypeOK, StatusInv, ScanInv, PickInv, MainInv, Picked, Holding, Assisting, Outside, AllProcessed, IndexFacts, Goto, mainVars, storeVars, taskVars, flagVars, infoVars, nestVars
<1>1. CASE BeginRound
  BY <1>1 DEF BeginRound, IsErrored
<1>2. CASE StartTask
  BY <1>2 DEF StartTask
<1>3. CASE SeeProcessed
  BY <1>3 DEF SeeProcessed
<1>4. CASE SeeThrIdx
  BY <1>4 DEF SeeThrIdx
<1>5. CASE RaiseError
  BY <1>5 DEF RaiseError, IsErrored
<1>6. CASE Emit
  BY <1>6 DEF Emit, NextSlot, HasData
<1>7. CASE LoadEx
  BY <1>7 DEF LoadEx, Refill, NextSlot
<1>8. CASE LastLoadEx
  BY <1>8 DEF LastLoadEx, Refill
<1>9. CASE Join
  BY <1>9 DEF Join, AfterJoin
<1>10. CASE EndOfInput
  BY <1>10 DEF EndOfInput, StoreDone, HasData
<1>11. ASSUME NEW t \in Threads, Scan1(t) PROVE PickInv'
  BY <1>11 DEF Scan1, HasData
<1>12. ASSUME NEW t \in Threads, PassBarrier(t) PROVE PickInv'
  BY <1>12 DEF PassBarrier
<1>13. ASSUME NEW t \in Threads, Scan2(t) PROVE PickInv'
  BY <1>13 DEF Scan2, HasData
<1>14. ASSUME NEW t \in Threads, Get(t) PROVE PickInv'
  <2>1. \/ z'[t] = -2 /\ AllProcessed
        \/ z'[t] \in Slots /\ scanned2[z'[t]]
    <3>1. CASE AllProcessed /\ z' = [z EXCEPT ![t] = -2]
      <4>1. z'[t] = -2
        BY ONLY t \in Threads, <3>1, TypeOK DEF TypeOK
      <4>. QED
        BY ONLY <3>1, <4>1
    <3>2. ASSUME NEW i \in Slots, scanned2[i], z' = [z EXCEPT ![t] = i]
          PROVE  z'[t] \in Slots /\ scanned2[z'[t]]
      BY <3>2
    <3>. QED
      BY ONLY <1>14, <3>1, <3>2 DEF Get, GetIndex, AllProcessed
  <2>2. \A u \in Threads \ {t} : z'[u] = z[u] /\ pc'[u] = pc[u]
    BY <1>14 DEF Get, GetIndex
  <2>3. pc'[t] \in {"set", "setI"}
    BY <1>14 DEF Get
  <2>4. t \in Threads /\ UNCHANGED <<scanned2, processed, thrIdx, strIdx, count>>
    BY <1>14 DEF Get
  <2>. QED
    BY ONLY IndexFacts, PickInv, <2>1, <2>2, <2>3, <2>4
<1>15. ASSUME NEW t \in Threads, SetThrIdx(t) PROVE PickInv'
  BY <1>15 DEF SetThrIdx
<1>16. ASSUME NEW t \in Threads, Claim(t) PROVE PickInv'
  BY <1>16 DEF Claim
<1>17. ASSUME NEW t \in Threads, CallHelper(t) PROVE PickInv'
  BY <1>17 DEF CallHelper
<1>18. ASSUME NEW t \in Threads, ProcessLeaf(t) PROVE PickInv'
  BY <1>18 DEF ProcessLeaf
<1>19. ASSUME NEW t \in Threads, ProcessNested(t) PROVE PickInv'
  BY <1>19 DEF ProcessNested
<1>20. ASSUME NEW t \in Threads, NestedClaim(t) PROVE PickInv'
  BY <1>20 DEF NestedClaim
<1>21. ASSUME NEW t \in Threads, NestedProcess(t) PROVE PickInv'
  BY <1>21 DEF NestedProcess
<1>22. ASSUME NEW t \in Threads, AwaitHelpers(t) PROVE PickInv'
  BY <1>22 DEF AwaitHelpers
<1>23. ASSUME NEW t \in Threads, NestedEnd(t) PROVE PickInv'
  BY <1>23 DEF NestedEnd
<1>24. ASSUME NEW t \in Threads, MarkProcessed(t) PROVE PickInv'
  BY <1>24 DEF MarkProcessed
<1>25. ASSUME NEW t \in Threads, Exit(t) PROVE PickInv'
  BY <1>25 DEF Exit
<1>26. ASSUME NEW t \in Threads, HelperClaim0(t) PROVE PickInv'
  BY <1>26 DEF HelperClaim0
<1>27. ASSUME NEW t \in Threads, HelperClaim1(t) PROVE PickInv'
  BY <1>27 DEF HelperClaim1
<1>28. ASSUME NEW t \in Threads, HelperProcess(t) PROVE PickInv'
  BY <1>28 DEF HelperProcess
<1>29. ASSUME NEW t \in Threads, HelperEnd(t) PROVE PickInv'
  BY <1>29 DEF HelperEnd
<1>30. ASSUME NEW t \in Threads, SetErrored(t) PROVE PickInv'
  BY <1>30 DEF SetErrored
<1>31. ASSUME NEW t \in Threads, Fail(t) PROVE PickInv'
  BY <1>31 DEF Fail
<1>32. CASE Finished
  BY <1>32 DEF Finished, vars
<1>. QED
  BY <1>1, <1>2, <1>3, <1>4, <1>5, <1>6, <1>7, <1>8, <1>9, <1>10, <1>11, 
     <1>12, <1>13, <1>14, <1>15, <1>16, <1>17, <1>18, <1>19, <1>20, 
     <1>21, <1>22, <1>23, <1>24, <1>25, <1>26, <1>27, <1>28, <1>29, 
     <1>30, <1>31, <1>32 DEF Next, Main, Task

-----------------------------------------------------------------------------
\* A claimed stream is in range and claimed by one task.
LEMMA ClaimInvStep ==
  ASSUME IndexFacts, TypeOK, StatusInv, ScanInv, PickInv, ClaimInv, MainInv, Next
  PROVE  ClaimInv'
<1>. USE DEF TypeOK, StatusInv, ScanInv, PickInv, ClaimInv, MainInv, Picked, Holding, IndexFacts, Goto, mainVars, storeVars, taskVars, flagVars, infoVars, nestVars
<1>1. CASE BeginRound
  BY <1>1 DEF BeginRound, IsErrored
<1>2. CASE StartTask
  BY <1>2 DEF StartTask
<1>3. CASE SeeProcessed
  BY <1>3 DEF SeeProcessed
<1>4. CASE SeeThrIdx
  BY <1>4 DEF SeeThrIdx
<1>5. CASE RaiseError
  BY <1>5 DEF RaiseError, IsErrored
<1>6. CASE Emit
  BY <1>6 DEF Emit, NextSlot, HasData
<1>7. CASE LoadEx
  BY <1>7 DEF LoadEx, Refill, NextSlot
<1>8. CASE LastLoadEx
  BY <1>8 DEF LastLoadEx, Refill
<1>9. CASE Join
  BY <1>9 DEF Join, AfterJoin
<1>10. CASE EndOfInput
  BY <1>10 DEF EndOfInput, StoreDone, HasData
<1>11. ASSUME NEW t \in Threads, Scan1(t) PROVE ClaimInv'
  BY <1>11 DEF Scan1, HasData
<1>12. ASSUME NEW t \in Threads, PassBarrier(t) PROVE ClaimInv'
  BY <1>12 DEF PassBarrier
<1>13. ASSUME NEW t \in Threads, Scan2(t) PROVE ClaimInv'
  <2>1. \A u \in Threads : Holding(u)' <=> Holding(u)
    BY <1>13 DEF Scan2
  <2>2. \A u \in Threads : Holding(u) => z[u] \in Slots /\ z[u] # t /\ count'[z[u]] = count[z[u]]
    BY <1>13 DEF Scan2
  <2>. QED
    BY <1>13, <2>1, <2>2 DEF Scan2
<1>14. ASSUME NEW t \in Threads, Get(t) PROVE ClaimInv'
  BY <1>14 DEF Get, GetIndex
<1>15. ASSUME NEW t \in Threads, SetThrIdx(t) PROVE ClaimInv'
  BY <1>15 DEF SetThrIdx
<1>16. ASSUME NEW t \in Threads, Claim(t) PROVE ClaimInv'
  BY <1>16 DEF Claim
<1>17. ASSUME NEW t \in Threads, CallHelper(t) PROVE ClaimInv'
  BY <1>17 DEF CallHelper
<1>18. ASSUME NEW t \in Threads, ProcessLeaf(t) PROVE ClaimInv'
  BY <1>18 DEF ProcessLeaf
<1>19. ASSUME NEW t \in Threads, ProcessNested(t) PROVE ClaimInv'
  BY <1>19 DEF ProcessNested
<1>20. ASSUME NEW t \in Threads, NestedClaim(t) PROVE ClaimInv'
  BY <1>20 DEF NestedClaim
<1>21. ASSUME NEW t \in Threads, NestedProcess(t) PROVE ClaimInv'
  BY <1>21 DEF NestedProcess
<1>22. ASSUME NEW t \in Threads, AwaitHelpers(t) PROVE ClaimInv'
  BY <1>22 DEF AwaitHelpers
<1>23. ASSUME NEW t \in Threads, NestedEnd(t) PROVE ClaimInv'
  BY <1>23 DEF NestedEnd
<1>24. ASSUME NEW t \in Threads, MarkProcessed(t) PROVE ClaimInv'
  BY <1>24 DEF MarkProcessed
<1>25. ASSUME NEW t \in Threads, Exit(t) PROVE ClaimInv'
  BY <1>25 DEF Exit
<1>26. ASSUME NEW t \in Threads, HelperClaim0(t) PROVE ClaimInv'
  BY <1>26 DEF HelperClaim0
<1>27. ASSUME NEW t \in Threads, HelperClaim1(t) PROVE ClaimInv'
  BY <1>27 DEF HelperClaim1
<1>28. ASSUME NEW t \in Threads, HelperProcess(t) PROVE ClaimInv'
  BY <1>28 DEF HelperProcess
<1>29. ASSUME NEW t \in Threads, HelperEnd(t) PROVE ClaimInv'
  BY <1>29 DEF HelperEnd
<1>30. ASSUME NEW t \in Threads, SetErrored(t) PROVE ClaimInv'
  BY <1>30 DEF SetErrored
<1>31. ASSUME NEW t \in Threads, Fail(t) PROVE ClaimInv'
  BY <1>31 DEF Fail
<1>32. CASE Finished
  BY <1>32 DEF Finished, vars
<1>. QED
  BY <1>1, <1>2, <1>3, <1>4, <1>5, <1>6, <1>7, <1>8, <1>9, <1>10, <1>11, 
     <1>12, <1>13, <1>14, <1>15, <1>16, <1>17, <1>18, <1>19, <1>20, 
     <1>21, <1>22, <1>23, <1>24, <1>25, <1>26, <1>27, <1>28, <1>29, 
     <1>30, <1>31, <1>32 DEF Next, Main, Task

-----------------------------------------------------------------------------
\* A stream is processed when its task lets go of it, and no other is.
LEMMA DoneInvStep ==
  ASSUME IndexFacts, TypeOK, StatusInv, ScanInv, PickInv, ClaimInv, DoneInv, MainInv, Next
  PROVE  DoneInv'
<1>. USE DEF TypeOK, StatusInv, ScanInv, PickInv, ClaimInv, DoneInv, MainInv, Picked, Holding, Streams, IndexFacts, Goto, mainVars, storeVars, taskVars, flagVars, infoVars, nestVars
<1>1. CASE BeginRound
  BY <1>1 DEF BeginRound, IsErrored
<1>2. CASE StartTask
  BY <1>2 DEF StartTask
<1>3. CASE SeeProcessed
  BY <1>3 DEF SeeProcessed
<1>4. CASE SeeThrIdx
  BY <1>4 DEF SeeThrIdx
<1>5. CASE RaiseError
  BY <1>5 DEF RaiseError, IsErrored
<1>6. CASE Emit
  BY <1>6 DEF Emit, NextSlot, HasData
<1>7. CASE LoadEx
  BY <1>7 DEF LoadEx, Refill, NextSlot
<1>8. CASE LastLoadEx
  BY <1>8 DEF LastLoadEx, Refill
<1>9. CASE Join
  BY <1>9 DEF Join, AfterJoin
<1>10. CASE EndOfInput
  BY <1>10 DEF EndOfInput, StoreDone, HasData
<1>11. ASSUME NEW t \in Threads, Scan1(t) PROVE DoneInv'
  <2>1. \A u \in Threads : /\ Holding(u)' <=> Holding(u)
                           /\ Holding(u) => z'[u] = z[u] /\ x'[u] = x[u] /\ z[u] # t
    BY <1>11 DEF Scan1
  <2>2. strIdx[t] = -1 /\ \A i \in Slots \ {t} : count'[i] = count[i]
    BY <1>11 DEF Scan1, HasData
  <2>3. done[t] = {}
    BY <2>2 DEF DoneInv, Streams
  <2>. QED
    BY <1>11, <2>1, <2>2, <2>3 DEF Scan1, DoneInv, Streams
<1>12. ASSUME NEW t \in Threads, PassBarrier(t) PROVE DoneInv'
  <2>1. \A u \in Threads : /\ Holding(u)' <=> Holding(u)
                           /\ Holding(u) => z'[u] = z[u] /\ x'[u] = x[u]
    BY <1>12 DEF PassBarrier
  <2>. QED
    BY <1>12, <2>1, DoneStable DEF PassBarrier
<1>13. ASSUME NEW t \in Threads, Scan2(t) PROVE DoneInv'
  <2>1. \A u \in Threads : /\ Holding(u)' <=> Holding(u)
                           /\ Holding(u) => z'[u] = z[u] /\ x'[u] = x[u] /\ z[u] # t
    BY <1>13 DEF Scan2
  <2>2. strIdx[t] = -1 /\ \A i \in Slots \ {t} : count'[i] = count[i]
    BY <1>13 DEF Scan2, HasData
  <2>3. done[t] = {}
    BY <2>2 DEF DoneInv, Streams
  <2>4. UNCHANGED <<strIdx, done>>
    BY <1>13 DEF Scan2
  <2>5. /\ \A s \in Streams(t)' : ~(s <= strIdx'[t])
        /\ \A i \in Slots \ {t} : Streams(i)' = Streams(i)
    <3>1. \A s \in Streams(t)' : s \in Int /\ 0 <= s
      BY DEF Streams
    <3>2. \A i \in Slots \ {t} : Streams(i)' = Streams(i)
      BY <2>2 DEF Streams
    <3>. QED
      BY <2>2, <2>4, <3>1, <3>2
  <2>6. \A i \in Slots : done'[i] \subseteq Streams(i)'
    BY <2>3, <2>4, <2>5 DEF DoneInv
  <2>7. ASSUME NEW i \in Slots, NEW s \in Streams(i)'
        PROVE  s \in done'[i] <=>
                 /\ s <= strIdx'[i]
                 /\ \A u \in Threads : Holding(u)' /\ z'[u] = i => x'[u] # s
    <3>1. CASE i = t
      BY <2>3, <2>4, <2>5, <3>1
    <3>2. CASE i # t
      <4>1. s \in done[i] <=>
              /\ s <= strIdx[i]
              /\ \A u \in Threads : Holding(u) /\ z[u] = i => x[u] # s
        BY <2>5, <3>2 DEF DoneInv
      <4>2. \A u \in Threads : Holding(u)' /\ z'[u] = i => Holding(u) /\ z[u] = i /\ x'[u] = x[u]
        BY <2>1
      <4>3. \A u \in Threads : Holding(u) /\ z[u] = i => Holding(u)' /\ z'[u] = i
        BY <2>1
      <4> QED
        BY <2>4, <4>1, <4>2, <4>3
    <3> QED
      BY <3>1, <3>2
  <2>. QED
    BY <2>6, <2>7 DEF DoneInv
<1>14. ASSUME NEW t \in Threads, Get(t) PROVE DoneInv'
  <2>1. \A u \in Threads : /\ Holding(u)' <=> Holding(u)
                           /\ Holding(u) => z'[u] = z[u] /\ x'[u] = x[u]
    BY <1>14 DEF Get, GetIndex
  <2>. QED
    BY <1>14, <2>1, DoneStable DEF Get
<1>15. ASSUME NEW t \in Threads, SetThrIdx(t) PROVE DoneInv'
  <2>1. \A u \in Threads : /\ Holding(u)' <=> Holding(u)
                           /\ Holding(u) => z'[u] = z[u] /\ x'[u] = x[u]
    BY <1>15 DEF SetThrIdx
  <2>. QED
    BY <1>15, <2>1, DoneStable DEF SetThrIdx
<1>16. ASSUME NEW t \in Threads, Claim(t) PROVE DoneInv'
  <2>1. z[t] \in Slots /\ ~Holding(t) /\ x'[t] = strIdx[z[t]] + 1
    BY <1>16 DEF Claim
  <2>2. /\ strIdx'[z[t]] = strIdx[z[t]] + 1
        /\ \A i \in Slots \ {z[t]} : strIdx'[i] = strIdx[i]
    BY <1>16, <2>1 DEF Claim
  <2>3. /\ UNCHANGED <<z, done, count>>
        /\ \A u \in Threads \ {t} : x'[u] = x[u] /\ (Holding(u)' <=> Holding(u))
    BY <1>16 DEF Claim
  <2>4. Holding(t)' <=> strIdx[z[t]] + 1 < count[z[t]]
    BY <1>16 DEF Claim
  <2>. QED
    BY ONLY IndexFacts, TypeOK, DoneInv, <2>1, <2>2, <2>3, <2>4, DoneClaim
<1>17. ASSUME NEW t \in Threads, CallHelper(t) PROVE DoneInv'
  <2>1. \A u \in Threads : /\ Holding(u)' <=> Holding(u)
                           /\ Holding(u) => z'[u] = z[u] /\ x'[u] = x[u]
    BY <1>17 DEF CallHelper
  <2>. QED
    BY <1>17, <2>1, DoneStable DEF CallHelper
<1>18. ASSUME NEW t \in Threads, ProcessLeaf(t) PROVE DoneInv'
  BY <1>18 DEF ProcessLeaf
<1>19. ASSUME NEW t \in Threads, ProcessNested(t) PROVE DoneInv'
  BY <1>19 DEF ProcessNested
<1>20. ASSUME NEW t \in Threads, NestedClaim(t) PROVE DoneInv'
  BY <1>20 DEF NestedClaim
<1>21. ASSUME NEW t \in Threads, NestedProcess(t) PROVE DoneInv'
  BY <1>21 DEF NestedProcess
<1>22. ASSUME NEW t \in Threads, AwaitHelpers(t) PROVE DoneInv'
  BY <1>22 DEF AwaitHelpers
<1>23. ASSUME NEW t \in Threads, NestedEnd(t) PROVE DoneInv'
  BY <1>23 DEF NestedEnd
<1>24. ASSUME NEW t \in Threads, MarkProcessed(t) PROVE DoneInv'
  <2>1. \A u \in Threads : /\ Holding(u)' <=> Holding(u)
                           /\ Holding(u) => z'[u] = z[u] /\ x'[u] = x[u]
    BY <1>24 DEF MarkProcessed
  <2>. QED
    BY <1>24, <2>1, DoneStable DEF MarkProcessed
<1>25. ASSUME NEW t \in Threads, Exit(t) PROVE DoneInv'
  <2>1. \A u \in Threads : /\ Holding(u)' <=> Holding(u)
                           /\ Holding(u) => z'[u] = z[u] /\ x'[u] = x[u]
    BY <1>25 DEF Exit
  <2>. QED
    BY <1>25, <2>1, DoneStable DEF Exit
<1>26. ASSUME NEW t \in Threads, HelperClaim0(t) PROVE DoneInv'
  <2>1. z[t] \in Slots /\ strIdx[z[t]] >= count[z[t]] /\ strIdx' = [strIdx EXCEPT ![z[t]] = @ + 1]
    BY <1>26 DEF HelperClaim0, Assisting, Outside, AllProcessed
  <2>2. /\ UNCHANGED <<z, done, count>>
        /\ \A u \in Threads : (Holding(u)' <=> Holding(u)) /\ (Holding(u) => x'[u] = x[u])
    BY <1>26 DEF HelperClaim0
  <2>. QED
    BY ONLY IndexFacts, TypeOK, DoneInv, <2>1, <2>2, DoneNoClaim
<1>27. ASSUME NEW t \in Threads, HelperClaim1(t) PROVE DoneInv'
  <2>1. \A u \in Threads : /\ Holding(u)' <=> Holding(u)
                           /\ Holding(u) => z'[u] = z[u] /\ x'[u] = x[u]
    BY <1>27 DEF HelperClaim1
  <2>. QED
    BY <1>27, <2>1, DoneStable DEF HelperClaim1
<1>28. ASSUME NEW t \in Threads, HelperProcess(t) PROVE DoneInv'
  BY <1>28 DEF HelperProcess
<1>29. ASSUME NEW t \in Threads, HelperEnd(t) PROVE DoneInv'
  <2>1. \A u \in Threads : /\ Holding(u)' <=> Holding(u)
                           /\ Holding(u) => z'[u] = z[u] /\ x'[u] = x[u]
    BY <1>29 DEF HelperEnd
  <2>. QED
    BY <1>29, <2>1, DoneStable DEF HelperEnd
<1>30. ASSUME NEW t \in Threads, SetErrored(t) PROVE DoneInv'
  BY <1>30 DEF SetErrored
<1>31. ASSUME NEW t \in Threads, Fail(t) PROVE DoneInv'
  <2>1. \A u \in Threads : /\ Holding(u)' <=> Holding(u)
                           /\ Holding(u) => z'[u] = z[u] /\ x'[u] = x[u]
    BY <1>31 DEF Fail
  <2>. QED
    BY <1>31, <2>1, DoneStable DEF Fail
<1>32. CASE Finished
  BY <1>32 DEF Finished, vars
<1>. QED
  BY <1>1, <1>2, <1>3, <1>4, <1>5, <1>6, <1>7, <1>8, <1>9, <1>10, <1>11, 
     <1>12, <1>13, <1>14, <1>15, <1>16, <1>17, <1>18, <1>19, <1>20, 
     <1>21, <1>22, <1>23, <1>24, <1>25, <1>26, <1>27, <1>28, <1>29, 
     <1>30, <1>31, <1>32 DEF Next, Main, Task

-----------------------------------------------------------------------------
\* The main thread goes past a slot when it has seen it processed and every
\* task's ThrIdx elsewhere: no task holds a stream of the slot then.
LEMMA MainInvMainStep ==
  ASSUME IndexFacts, TypeOK, StatusInv, PickInv, MainInv, Main
  PROVE  MainInv'
<1>0. /\ mi \in Threads /\ mj \in Threads /\ mi \in Int /\ mj \in Int
      /\ NumSlots \in Int /\ NumThreads \in Int
      /\ \A i \in Slots : i \in Int /\ i < NumSlots
  <2>1. mi \in Threads /\ mj \in Threads
    BY DEF TypeOK, IndexFacts
  <2>2. \A i \in Slots : i \in Int /\ i < NumSlots
    BY DEF IndexFacts
  <2>. QED
    BY <2>1, <2>2 DEF IndexFacts
<1>1. CASE BeginRound
  <2>1. mpc = "top" /\ mpc' = "start" /\ UNCHANGED pc /\ ~IsErrored
    BY <1>1 DEF BeginRound, taskVars
  <2>2. \A u \in Threads : pc[u] = "idle"
    BY <2>1 DEF MainInv, StatusInv, IsErrored, TypeOK
  <2>3. \A u \in Threads : ~scanned1'[u]
    BY <1>1 DEF BeginRound, IndexFacts
  <2>4. \A i \in Slots : ~Passed(i)'
    BY <2>1 DEF Passed
  <2>. QED
    BY <2>1, <2>2, <2>3, <2>4 DEF MainInv
<1>2. CASE StartTask
  <2>0. mpc = "start" /\ UNCHANGED scanned1 /\ \A u \in Threads : u # mj => pc'[u] = pc[u]
    BY <1>2 DEF StartTask, TypeOK
  <2>1. CASE mj + 1 < NumThreads
    <3>1. mpc' = "start" /\ mj' = mj + 1
      BY <1>2, <2>1 DEF StartTask
    <3>2. \A u \in Threads : u >= mj' => u >= mj /\ u # mj
      BY <1>0, <3>1 DEF IndexFacts
    <3>3. \A i \in Slots : ~Passed(i)'
      BY <3>1 DEF Passed
    <3>. QED
      BY <2>0, <3>1, <3>2, <3>3 DEF MainInv
  <2>2. CASE ~(mj + 1 < NumThreads)
    <3>1. mpc' = "waitProc" /\ mi' = 0
      BY <1>2, <2>2 DEF StartTask
    <3>2. \A i \in Slots : ~Passed(i)'
      BY <3>1 DEF Passed, IndexFacts
    <3>. QED
      BY <3>1, <3>2 DEF MainInv
  <2>. QED
    BY <2>1, <2>2
<1>3. CASE SeeProcessed
  <2>1. mpc = "waitProc" /\ mpc' = "waitIdx" /\ mj' = 0 /\ processed[mi]
    BY <1>3 DEF SeeProcessed
  <2>2. UNCHANGED <<mi, processed, pc, z>>
    BY <1>3 DEF SeeProcessed, taskVars, flagVars
  <2>3. \A u \in Threads : ~(u < mj')
    BY <2>1 DEF IndexFacts
  <2>4. \A i \in Slots : Passed(i)' <=> Passed(i)
    BY <2>1, <2>2 DEF Passed
  <2>. QED
    BY <2>1, <2>2, <2>3, <2>4 DEF MainInv, Holding
<1>4. CASE SeeThrIdx
  <2>1. mpc = "waitIdx" /\ ~(Holding(mj) /\ z[mj] = mi)
    BY <1>0, <1>4 DEF SeeThrIdx, PickInv, Picked
  <2>2. UNCHANGED <<mi, processed, pc, z>>
    BY <1>4 DEF SeeThrIdx, taskVars, flagVars
  <2>3. CASE mj + 1 < NumThreads
    <3>1. mpc' = "waitIdx" /\ mj' = mj + 1
      BY <1>4, <2>3 DEF SeeThrIdx
    <3>2. \A u \in Threads : u < mj' => u < mj \/ u = mj
      BY <1>0, <3>1 DEF IndexFacts
    <3>3. \A i \in Slots : Passed(i)' <=> Passed(i)
      BY <2>1, <2>2, <3>1 DEF Passed
    <3>. QED
      BY <2>1, <2>2, <3>1, <3>2, <3>3 DEF MainInv, Holding
  <2>4. CASE ~(mj + 1 < NumThreads)
    <3>1. mpc' = "emit"
      BY <1>4, <2>4 DEF SeeThrIdx
    <3>2. \A u \in Threads : u < mj \/ u = mj
      BY <1>0, <2>4 DEF IndexFacts
    <3>3. \A i \in Slots : Passed(i)' => Passed(i) \/ i = mi
      BY <1>0, <2>1, <2>2, <3>1 DEF Passed, IndexFacts
    <3>4. processed[mi] /\ \A u \in Threads : ~(Holding(u) /\ z[u] = mi)
      BY <2>1, <3>2 DEF MainInv
    <3>5. \A u \in Threads : (Holding(u)' <=> Holding(u)) /\ z'[u] = z[u]
      BY <2>2 DEF Holding
    <3>. QED
      BY <2>2, <3>1, <3>3, <3>4, <3>5 DEF MainInv
  <2>. QED
    BY <2>3, <2>4
<1>5. CASE RaiseError
  <2>1. mpc' = "abort"
    BY <1>5 DEF RaiseError
  <2>. QED
    BY <2>1 DEF MainInv, Passed
<1>6. CASE Emit
  <2>1. \A i \in Slots : i <= mi =>
          processed[i] /\ \A u \in Threads : ~(Holding(u) /\ z[u] = i)
    BY <1>6 DEF Emit, MainInv, Passed
  <2>2. UNCHANGED processed /\ \A u \in Threads : (Holding(u)' <=> Holding(u)) /\ z'[u] = z[u]
    BY <1>6 DEF Emit, taskVars, flagVars, Holding
  <2>3. CASE mi > 0
    <3>1. mpc' = "loadEx" /\ mi' = mi
      BY <1>6, <2>3 DEF Emit
    <3>. QED
      BY <2>1, <2>2, <3>1 DEF Passed, MainInv
  <2>4. CASE ~(mi > 0)
    <3>1. CASE mi + 1 < NumSlots
      <4>1. mpc' = "waitProc" /\ mi' = mi + 1
        BY <1>6, <2>4, <3>1 DEF Emit, NextSlot
      <4>2. ASSUME NEW i \in Slots PROVE Passed(i)' <=> i <= mi
        <5>1. i < mi + 1 <=> i <= mi
          BY ONLY <1>0, i \in Slots
        <5>. QED
          BY ONLY <4>1, <5>1 DEF Passed
      <4>. QED
        BY <2>1, <2>2, <4>1, <4>2 DEF MainInv
    <3>2. CASE ~(mi + 1 < NumSlots)
      <4>1. mpc' = "lastLoadEx"
        BY <1>6, <2>4, <3>2 DEF Emit, NextSlot
      <4>2. ASSUME NEW i \in Slots PROVE i <= mi
        BY ONLY <1>0, <3>2, i \in Slots
      <4>. QED
        BY <2>1, <2>2, <4>1, <4>2 DEF MainInv
    <3>. QED
      BY <3>1, <3>2
  <2>. QED
    BY <2>3, <2>4
<1>7. CASE LoadEx
  <2>1. \A i \in Slots : i <= mi =>
          processed[i] /\ \A u \in Threads : ~(Holding(u) /\ z[u] = i)
    BY <1>7 DEF LoadEx, MainInv, Passed
  <2>2. UNCHANGED processed /\ \A u \in Threads : (Holding(u)' <=> Holding(u)) /\ z'[u] = z[u]
    BY <1>7 DEF LoadEx, taskVars, flagVars, Holding
  <2>. QED
    <3>1. CASE mi + 1 < NumSlots
      <4>1. mpc' = "waitProc" /\ mi' = mi + 1
        BY <1>7, <3>1 DEF LoadEx, NextSlot
      <4>2. ASSUME NEW i \in Slots PROVE Passed(i)' <=> i <= mi
        <5>1. i < mi + 1 <=> i <= mi
          BY ONLY <1>0, i \in Slots
        <5>. QED
          BY ONLY <4>1, <5>1 DEF Passed
      <4>. QED
        BY <2>1, <2>2, <4>1, <4>2 DEF MainInv
    <3>2. CASE ~(mi + 1 < NumSlots)
      <4>1. mpc' = "lastLoadEx"
        BY <1>7, <3>2 DEF LoadEx, NextSlot
      <4>2. ASSUME NEW i \in Slots PROVE i <= mi
        BY ONLY <1>0, <3>2, i \in Slots
      <4>. QED
        BY <2>1, <2>2, <4>1, <4>2 DEF MainInv
    <3>. QED
      BY <3>1, <3>2
<1>8. CASE LastLoadEx
  <2>1. mpc = "lastLoadEx" /\ mpc' = "join" /\ mj' = 0
    BY <1>8 DEF LastLoadEx
  <2>2. UNCHANGED processed /\ \A u \in Threads : (Holding(u)' <=> Holding(u)) /\ z'[u] = z[u]
    BY <1>8 DEF LastLoadEx, taskVars, flagVars, Holding
  <2>3. \A u \in Threads : ~(u < mj')
    BY <2>1 DEF IndexFacts
  <2>. QED
    BY <2>1, <2>2, <2>3 DEF MainInv, Passed
<1>9. CASE Join
  <2>1. UNCHANGED <<processed, pc, z, status>> /\ status[mj] # "running"
    BY <1>9 DEF Join, taskVars, flagVars
  <2>2. CASE mj + 1 < NumThreads
    <3>1. mpc' = mpc /\ mpc \in {"join", "free", "abort"} /\ mj' = mj + 1
      BY <1>9, <2>2 DEF Join
    <3>2. \A u \in Threads : u < mj' => u < mj \/ u = mj
      BY <1>0, <3>1 DEF IndexFacts
    <3>3. \A i \in Slots : Passed(i)' <=> Passed(i)
      BY <3>1 DEF Passed
    <3>. QED
      BY <2>1, <3>1, <3>2, <3>3 DEF MainInv, Holding
  <2>3. CASE ~(mj + 1 < NumThreads) /\ mpc = "join"
    <3>1. mpc' = "top"
      BY <1>9, <2>3 DEF Join, AfterJoin
    <3>2. \A u \in Threads : u < mj \/ u = mj
      BY <1>0, <2>3 DEF IndexFacts
    <3>3. \A u \in Threads : ~Holding(u)
      BY <2>3 DEF MainInv, Passed, PickInv, Picked
    <3>. QED
      BY <2>1, <2>3, <3>1, <3>2, <3>3 DEF MainInv, Passed, Holding
  <2>4. CASE ~(mj + 1 < NumThreads) /\ mpc \in {"free", "abort"}
    <3>1. \/ mpc = "free" /\ mpc' = "freed"
          \/ mpc' = "aborted"
      BY <1>9, <2>4 DEF Join, AfterJoin
    <3>. QED
      BY <2>1, <3>1 DEF MainInv, Passed, Holding
  <2>. QED
    BY <1>9, <2>2, <2>3, <2>4 DEF Join
<1>10. CASE EndOfInput
  <2>1. mpc = "top" /\ mpc' = "free" /\ UNCHANGED <<pc, status>>
    BY <1>10 DEF EndOfInput, taskVars
  <2>. QED
    BY <2>1 DEF MainInv, Passed, Holding
<1>. QED
  BY <1>1, <1>2, <1>3, <1>4, <1>5, <1>6, <1>7, <1>8, <1>9, <1>10 DEF Main

-----------------------------------------------------------------------------
\* A claim of a stream finds its slot not yet processed.
LEMMA MainInvClaim ==
  ASSUME NEW t \in Threads, IndexFacts, TypeOK, StatusInv, ScanInv, PickInv, MainInv, Claim(t)
  PROVE  MainInv'
<1>1. /\ pc[t] = "inc" /\ z[t] \in Slots /\ scanned1[t]
      /\ \A u \in Threads \ {t} : pc'[u] = pc[u]
  BY DEF Claim, Goto, TypeOK, PickInv, Picked, ScanInv, IndexFacts
<1>2. UNCHANGED <<mpc, mi, mj, processed, status, z, scanned1>>
  BY DEF Claim, mainVars, flagVars
<1>3. \A i \in Slots : Passed(i)' <=> Passed(i)
  BY <1>2 DEF Passed
<1>4. Holding(t)' => ~processed[z[t]]
  BY <1>1 DEF Claim, Goto, TypeOK, Holding, ScanInv
<1>5. \A u \in Threads \ {t} : Holding(u)' <=> Holding(u)
  BY <1>1 DEF Holding
<1>6. mpc \notin {"top", "free", "freed"}
  BY <1>1, <1>2 DEF MainInv, StatusInv, TypeOK
<1>7. \A i \in Slots : processed[i] =>
        \A u \in Threads : Holding(u)' /\ z'[u] = i => Holding(u) /\ z[u] = i
  BY <1>2, <1>4, <1>5
<1>8. mpc' = "start" => \A u \in Threads : u >= mj' => pc'[u] = "idle" /\ ~scanned1'[u]
  BY <1>1, <1>2 DEF MainInv
<1>9. \A i \in Slots : Passed(i)' =>
        processed'[i] /\ \A u \in Threads : ~(Holding(u)' /\ z'[u] = i)
  BY <1>2, <1>3, <1>7 DEF MainInv
<1>10. mpc' = "waitIdx" =>
         processed'[mi'] /\ \A u \in Threads : u < mj' => ~(Holding(u)' /\ z'[u] = mi')
  BY <1>2, <1>7 DEF MainInv, TypeOK
<1>. QED
  BY <1>2, <1>6, <1>8, <1>9, <1>10 DEF MainInv

\* No step of a task disturbs that: a processed slot has no stream to claim.
LEMMA MainInvStep ==
  ASSUME IndexFacts, TypeOK, StatusInv, ScanInv, PickInv, ClaimInv, MainInv, Next
  PROVE  MainInv'
<1>. USE DEF TypeOK, StatusInv, ScanInv, PickInv, ClaimInv, MainInv, Picked, Holding, Passed, IndexFacts, Goto, mainVars, storeVars, taskVars, flagVars, infoVars, nestVars
<1>1. CASE Main
  BY <1>1, MainInvMainStep
<1>2. ASSUME NEW t \in Threads, Scan1(t) PROVE MainInv'
  BY <1>2 DEF Scan1, HasData
<1>3. ASSUME NEW t \in Threads, PassBarrier(t) PROVE MainInv'
  BY <1>3 DEF PassBarrier
<1>4. ASSUME NEW t \in Threads, Scan2(t) PROVE MainInv'
  BY <1>4 DEF Scan2, HasData
<1>5. ASSUME NEW t \in Threads, Get(t) PROVE MainInv'
  BY <1>5 DEF Get, GetIndex
<1>6. ASSUME NEW t \in Threads, SetThrIdx(t) PROVE MainInv'
  BY <1>6 DEF SetThrIdx
<1>7. ASSUME NEW t \in Threads, Claim(t) PROVE MainInv'
  BY <1>7, MainInvClaim
<1>8. ASSUME NEW t \in Threads, CallHelper(t) PROVE MainInv'
  BY <1>8 DEF CallHelper
<1>9. ASSUME NEW t \in Threads, ProcessLeaf(t) PROVE MainInv'
  BY <1>9 DEF ProcessLeaf
<1>10. ASSUME NEW t \in Threads, ProcessNested(t) PROVE MainInv'
  BY <1>10 DEF ProcessNested
<1>11. ASSUME NEW t \in Threads, NestedClaim(t) PROVE MainInv'
  BY <1>11 DEF NestedClaim
<1>12. ASSUME NEW t \in Threads, NestedProcess(t) PROVE MainInv'
  BY <1>12 DEF NestedProcess
<1>13. ASSUME NEW t \in Threads, AwaitHelpers(t) PROVE MainInv'
  BY <1>13 DEF AwaitHelpers
<1>14. ASSUME NEW t \in Threads, NestedEnd(t) PROVE MainInv'
  BY <1>14 DEF NestedEnd
<1>15. ASSUME NEW t \in Threads, MarkProcessed(t) PROVE MainInv'
  BY <1>15 DEF MarkProcessed
<1>16. ASSUME NEW t \in Threads, Exit(t) PROVE MainInv'
  BY <1>16 DEF Exit
<1>17. ASSUME NEW t \in Threads, HelperClaim0(t) PROVE MainInv'
  BY <1>17 DEF HelperClaim0
<1>18. ASSUME NEW t \in Threads, HelperClaim1(t) PROVE MainInv'
  BY <1>18 DEF HelperClaim1
<1>19. ASSUME NEW t \in Threads, HelperProcess(t) PROVE MainInv'
  BY <1>19 DEF HelperProcess
<1>20. ASSUME NEW t \in Threads, HelperEnd(t) PROVE MainInv'
  BY <1>20 DEF HelperEnd
<1>21. ASSUME NEW t \in Threads, SetErrored(t) PROVE MainInv'
  BY <1>21 DEF SetErrored
<1>22. ASSUME NEW t \in Threads, Fail(t) PROVE MainInv'
  BY <1>22 DEF Fail
<1>23. CASE Finished
  BY <1>23 DEF Finished, vars
<1>. QED
  BY <1>1, <1>2, 
     <1>3, <1>4, <1>5, <1>6, <1>7, <1>8, <1>9, <1>10, <1>11, 
     <1>12, <1>13, <1>14, <1>15, <1>16, <1>17, <1>18, <1>19, <1>20, 
     <1>21, <1>22, <1>23 DEF Next, Task

-----------------------------------------------------------------------------
(* The window of the data store *)

\* Where the main thread writes slot mi, that slot still holds its chunk of the
\* current round.
LEMMA SlotChunk ==
  ASSUME IndexFacts, TypeOK, StoreInv, mpc \in {"waitProc", "waitIdx", "emit"}
  PROVE  pos[mi] = Base + mi
<1>1. mi \in Slots /\ mi \in Int /\ findex = IF mi = 0 THEN 0 ELSE mi - 1
  BY DEF TypeOK, StoreInv, IndexFacts
<1>2. pos[mi] = pos[0] + mi - IF findex > 0 /\ mi >= findex THEN NumSlots ELSE 0
  BY <1>1 DEF StoreInv
<1>3. pos[0] \in Nat /\ NumSlots \in Nat
  BY DEF TypeOK, IndexFacts
<1>4. CASE mi = 0
  BY <1>1, <1>3, <1>4 DEF Base
<1>5. CASE mi = 1
  BY <1>1, <1>2, <1>3, <1>5 DEF Base
<1>6. CASE mi > 1
  BY <1>1, <1>2, <1>3, <1>6 DEF Base
<1>. QED
  BY <1>1, <1>4, <1>5, <1>6 DEF IndexFacts

\* LoadEx moves one slot on; the round ends when the last one has moved.
LEMMA RefillWindow ==
  ASSUME IndexFacts, TypeOK, StoreInv, Refill
  PROVE  /\ \A i \in Slots :
              pos'[i] = pos'[0] + i - IF findex' > 0 /\ i >= findex' THEN NumSlots ELSE 0
         /\ findex' = IF findex + 1 = NumSlots THEN 0 ELSE findex + 1
         /\ Base' = IF findex + 1 = NumSlots THEN Base + NumSlots ELSE Base
<1>1. /\ findex \in Slots /\ findex \in Nat /\ findex < NumSlots
      /\ NumSlots \in Nat /\ 0 \in Slots
      /\ \A i \in Slots : i \in Nat /\ i < NumSlots /\ pos[i] \in Nat
  BY DEF TypeOK, IndexFacts
<1>2. findex' = IF findex + 1 = NumSlots THEN 0 ELSE findex + 1
  BY DEF Refill
<1>3. \A i \in Slots : pos'[i] = IF i = findex THEN pos[i] + NumSlots ELSE pos[i]
  BY DEF Refill, TypeOK
<1>4. \A i \in Slots :
        pos[i] = pos[0] + i - IF findex > 0 /\ i >= findex THEN NumSlots ELSE 0
  BY DEF StoreInv
<1>5. ASSUME NEW i \in Slots
      PROVE  pos'[i] = pos'[0] + i - IF findex' > 0 /\ i >= findex' THEN NumSlots ELSE 0
  <2>1. CASE findex = 0
    BY <1>1, <1>2, <1>3, <1>4, <2>1
  <2>2. CASE findex > 0
    BY <1>1, <1>2, <1>3, <1>4, <2>2
  <2>. QED
    BY <1>1, <2>1, <2>2
<1>6. Base' = IF findex + 1 = NumSlots THEN Base + NumSlots ELSE Base
  BY <1>1, <1>2, <1>3 DEF Base
<1>. QED
  BY <1>2, <1>5, <1>6

\* The window slides over the input; what is written is what it has left behind.
LEMMA StoreInvStep ==
  ASSUME IndexFacts, TypeOK, StoreInv, Next
  PROVE  StoreInv'
<1>0. /\ mi \in Slots /\ mi \in Nat /\ mi < NumSlots /\ NumSlots \in Nat
      /\ findex \in Nat /\ Base \in Int /\ NumChunks \in Nat
  BY BoundsAssumption DEF TypeOK, IndexFacts, Base
<1>1. CASE UNCHANGED <<mi, written, storeVars>> /\ mpc' = mpc
  BY <1>1 DEF StoreInv, storeVars, Base, StoreDone, HasData
<1>2. CASE BeginRound
  <2>1. mpc = "top" /\ mpc' = "start" /\ UNCHANGED <<written, pos, findex>>
    BY <1>2 DEF BeginRound, storeVars
  <2>. QED
    BY <2>1 DEF StoreInv
<1>3. CASE StartTask
  <2>1. CASE mj + 1 < NumThreads
    BY <1>1, <1>3, <2>1 DEF StartTask
  <2>2. CASE ~(mj + 1 < NumThreads)
    <3>1. /\ mpc = "start" /\ mpc' = "waitProc" /\ mi' = 0
          /\ UNCHANGED <<written, pos, findex>>
      BY <1>3, <2>2 DEF StartTask, storeVars
    <3>2. findex = 0 /\ Base' = pos[0] /\ Base' + mi' = pos[0]
      BY <3>1, <1>0 DEF StoreInv, Base, TypeOK, IndexFacts
    <3>. QED
      BY <3>1, <3>2 DEF StoreInv
  <2>. QED
    BY <2>1, <2>2
<1>4. CASE SeeProcessed \/ SeeThrIdx
  <2>1. /\ mpc \in {"waitProc", "waitIdx"} /\ mpc' \in {"waitIdx", "emit"}
        /\ UNCHANGED <<mi, written, pos, findex>>
    BY <1>4 DEF SeeProcessed, SeeThrIdx, storeVars
  <2>. QED
    BY <2>1 DEF StoreInv, Base
<1>5. CASE RaiseError
  <2>1. mpc' = "abort" /\ UNCHANGED <<pos, findex>>
    BY <1>5 DEF RaiseError, storeVars
  <2>. QED
    BY <2>1 DEF StoreInv
<1>6. CASE Emit
  <2>1. mpc = "emit" /\ UNCHANGED <<pos, findex>> /\ UNCHANGED Base
    BY <1>6 DEF Emit, storeVars, Base
  <2>2. written' = Clipped(Base + mi + 1)
    <3>1. written = Clipped(Base + mi) /\ pos[mi] = Base + mi
      BY <2>1, SlotChunk DEF StoreInv
    <3>. QED
      BY <1>0, <1>6, <3>1 DEF Emit, HasData, Clipped
  <2>3. findex = IF mi = 0 THEN 0 ELSE mi - 1
    BY <2>1 DEF StoreInv
  <2>4. CASE mi > 0
    <3>1. mpc' = "loadEx" /\ mi' = mi
      BY <1>6, <2>4 DEF Emit
    <3>. QED
      BY <1>0, <2>1, <2>2, <2>3, <2>4, <3>1 DEF StoreInv
  <2>5. CASE mi = 0 /\ mi + 1 < NumSlots
    <3>1. mpc' = "waitProc" /\ mi' = 1
      BY <1>6, <2>5 DEF Emit, NextSlot
    <3>2. Base + mi + 1 = Base + mi'
      BY <1>0, <2>5, <3>1
    <3>. QED
      BY <2>1, <2>2, <2>3, <2>5, <3>1, <3>2 DEF StoreInv
  <2>6. CASE mi = 0 /\ ~(mi + 1 < NumSlots)
    <3>1. mpc' = "lastLoadEx"
      BY <1>6, <2>6 DEF Emit, NextSlot
    <3>2. NumSlots = 1 /\ Base + mi + 1 = Base + NumSlots
      BY <1>0, <2>6
    <3>. QED
      BY <2>1, <2>2, <2>3, <2>6, <3>1, <3>2 DEF StoreInv
  <2>. QED
    BY <1>0, <2>4, <2>5, <2>6
<1>7. CASE LoadEx
  <2>1. mpc = "loadEx" /\ UNCHANGED written /\ Refill
    BY <1>7 DEF LoadEx
  <2>2. mi > 0 /\ findex = mi - 1 /\ written = Clipped(Base + mi + 1)
    BY <2>1 DEF StoreInv
  <2>3. findex' = mi /\ Base' = Base
    BY <1>0, <2>1, <2>2, RefillWindow
  <2>4. CASE mi + 1 < NumSlots
    <3>1. mpc' = "waitProc" /\ mi' = mi + 1
      BY <1>7, <2>4 DEF LoadEx, NextSlot
    <3>2. Base + mi + 1 = Base' + mi' /\ findex' = IF mi' = 0 THEN 0 ELSE mi' - 1
      BY <1>0, <2>3, <3>1
    <3>. QED
      BY <2>1, <2>2, <3>1, <3>2, RefillWindow DEF StoreInv
  <2>5. CASE ~(mi + 1 < NumSlots)
    <3>1. mpc' = "lastLoadEx"
      BY <1>7, <2>5 DEF LoadEx, NextSlot
    <3>2. Base + mi + 1 = Base' + NumSlots /\ findex' = NumSlots - 1
      BY <1>0, <2>3, <2>5
    <3>. QED
      BY <2>1, <2>2, <3>1, <3>2, RefillWindow DEF StoreInv
  <2>. QED
    BY <2>4, <2>5
<1>8. CASE LastLoadEx
  <2>1. mpc = "lastLoadEx" /\ mpc' = "join" /\ UNCHANGED written /\ Refill
    BY <1>8 DEF LastLoadEx
  <2>2. findex + 1 = NumSlots /\ written = Clipped(Base + NumSlots)
    BY <1>0, <2>1 DEF StoreInv
  <2>3. findex' = 0 /\ Base' = Base + NumSlots /\ Base' = pos'[0]
    BY <2>1, <2>2, RefillWindow DEF Base
  <2>. QED
    BY <2>1, <2>2, <2>3, RefillWindow DEF StoreInv
<1>9. CASE Join
  <2>1. /\ \/ mpc' = mpc
           \/ mpc = "join" /\ mpc' = "top"
           \/ mpc = "free" /\ mpc' = "freed"
           \/ mpc' = "aborted"
        /\ UNCHANGED <<mi, written, pos, findex>>
    BY <1>9 DEF Join, AfterJoin, storeVars
  <2>. QED
    BY <2>1 DEF StoreInv, Base, StoreDone, HasData
<1>10. CASE EndOfInput
  <2>1. mpc = "top" /\ mpc' = "free" /\ StoreDone /\ UNCHANGED <<written, pos, findex>>
    BY <1>10 DEF EndOfInput, storeVars
  <2>. QED
    BY <2>1 DEF StoreInv, StoreDone, HasData
<1>11. ASSUME NEW t \in Threads, Task(t) \/ Fail(t) PROVE UNCHANGED <<mainVars, storeVars>>
  BY <1>11 DEF Task, Scan1, PassBarrier, Scan2, Get, SetThrIdx, Claim, CallHelper,
       ProcessLeaf, ProcessNested, NestedClaim, NestedProcess, AwaitHelpers, NestedEnd,
       MarkProcessed, Exit, HelperClaim0, HelperClaim1, HelperProcess, HelperEnd,
       SetErrored, Fail
<1>12. CASE Finished
  BY <1>1, <1>12 DEF Finished, vars, mainVars
<1>. QED
  BY <1>1, <1>2, <1>3, <1>4, <1>5, <1>6, <1>7, <1>8, <1>9, <1>10, <1>11, <1>12
     DEF Next, Main, mainVars

-----------------------------------------------------------------------------
(* The theorems *)

LEMMA InitInv == ASSUME ~LowMem, Init PROVE IInv
<1>. IndexFacts
  BY Indices
<1>1. TypeOK
  BY BoundsAssumption DEF Init, TypeOK, IndexFacts, MainPCs, PCs
<1>2. StatusInv /\ ScanInv /\ PickInv
  BY DEF Init, StatusInv, ScanInv, PickInv, IndexFacts, Picked, Holding, Assisting, Outside
<1>3. ClaimInv /\ MainInv
  BY DEF Init, ClaimInv, MainInv, IndexFacts, Holding, Passed
<1>4. DoneInv
  <2>1. \A i \in Slots : count[i] = 0 /\ done[i] = {}
    BY DEF Init
  <2>2. \A i \in Slots : Streams(i) = {}
    BY <2>1 DEF Streams
  <2>. QED
    BY <2>1, <2>2 DEF DoneInv
<1>5. StoreInv
  <2>1. mpc = "top" /\ findex = 0 /\ written = 0 /\ 0 \in Slots /\ \A i \in Slots : i \in Nat
    BY DEF Init, IndexFacts
  <2>2. \A i \in Slots : pos[i] = i
    BY DEF Init
  <2>. QED
    BY <2>1, <2>2, BoundsAssumption DEF StoreInv, Clipped
<1>. QED
  BY <1>1, <1>2, <1>3, <1>4, <1>5 DEF IInv

LEMMA Stutter == ASSUME IInv, UNCHANGED vars PROVE IInv'
  BY DEF IInv, vars, mainVars, storeVars, taskVars, flagVars, infoVars, nestVars, TypeOK,
     StatusInv, ScanInv, PickInv, ClaimInv, DoneInv, MainInv, StoreInv, Picked, Holding,
     Assisting, Outside, AllProcessed, Streams, Passed, Base, Clipped, StoreDone, HasData

\* The inductive invariant, for any number of tasks.
THEOREM Inductive == ASSUME ~LowMem PROVE Spec => []IInv
<1>1. Init => IInv
  BY InitInv
<1>2. IInv /\ [Next]_vars => IInv'
  <2>. SUFFICES ASSUME IInv, [Next]_vars PROVE IInv'
    OBVIOUS
  <2>1. IndexFacts
    BY Indices
  <2>2. CASE Next
    BY <2>1, <2>2, DepthAssumption, TypeOKStep, StatusInvStep, ScanInvStep, PickInvStep,
       ClaimInvStep, DoneInvStep, MainInvStep, StoreInvStep DEF IInv
  <2>3. CASE UNCHANGED vars
    BY <2>3, Stutter
  <2>. QED
    BY <2>2, <2>3
<1>. QED
  BY <1>1, <1>2, PTL DEF Spec

\* Every index, flag and counter keeps its type: no slot outside the arrays.
THEOREM TypeCorrect == ASSUME ~LowMem PROVE Spec => []TypeOK
<1>1. IInv => TypeOK
  BY DEF IInv
<1>. QED
  BY <1>1, Inductive, PTL

\* The main thread reads a slot without a lock only when no task works on it.
THEOREM SlotIsQuiet == ASSUME ~LowMem PROVE Spec => []SlotQuiet
<1>1. IInv => SlotQuiet
  <2>. SUFFICES ASSUME IInv, NEW i \in Slots,
                       (mpc \in {"emit", "loadEx"} /\ i <= mi) \/ mpc \in {"lastLoadEx", "join"}
                PROVE  /\ \A t \in Threads : ~(Holding(t) /\ z[t] = i)
                       /\ done[i] = Streams(i)
    BY DEF SlotQuiet
  <2>1. processed[i] /\ \A t \in Threads : ~(Holding(t) /\ z[t] = i)
    BY DEF IInv, MainInv, Passed
  <2>2. \A s \in Streams(i) : s <= strIdx[i]
    BY <2>1 DEF IInv, TypeOK, ScanInv, Streams
  <2>3. done[i] = Streams(i)
    BY <2>1, <2>2 DEF IInv, DoneInv
  <2>. QED
    BY <2>1, <2>3
<1>. QED
  BY <1>1, Inductive, PTL

\* No stream is worked on by two tasks, or twice.
THEOREM StreamsProcessedOnce == ASSUME ~LowMem PROVE Spec => []ProcessedOnce
<1>1. IInv => ProcessedOnce
  <2>. SUFFICES ASSUME IInv, NEW t \in Threads, Holding(t)
                PROVE  /\ x[t] \in Streams(z[t]) \ done[z[t]]
                       /\ \A u \in Threads \ {t} : Holding(u) => z[u] # z[t] \/ x[u] # x[t]
    BY DEF ProcessedOnce
  <2>1. z[t] \in Slots
    BY DEF IInv, PickInv, Picked
  <2>2. x[t] \in Streams(z[t])
    BY <2>1 DEF IInv, ClaimInv, TypeOK, Streams
  <2>3. x[t] \notin done[z[t]]
    BY <2>1, <2>2 DEF IInv, DoneInv
  <2>. QED
    BY <2>2, <2>3 DEF IInv, ClaimInv
<1>. QED
  BY <1>1, Inductive, PTL

\* The chunks are written in order, whatever the number of rounds and phantoms.
THEOREM ChunksInOrder == ASSUME ~LowMem PROVE Spec => []InOrder
<1>1. IInv => InOrder
  <2>. SUFFICES ASSUME IInv, mpc = "emit", HasData(mi) PROVE written = pos[mi]
    BY DEF InOrder
  <2>1. pos[mi] = Base + mi
    BY Indices, SlotChunk DEF IInv
  <2>2. written = Clipped(Base + mi)
    BY DEF IInv, StoreInv
  <2>. QED
    BY <2>1, <2>2 DEF HasData, Clipped
<1>. QED
  BY <1>1, Inductive, PTL

\* A successful encode has written all of the input and left no task behind.
THEOREM EncodeEndsSafely == ASSUME ~LowMem PROVE Spec => []SafeEnd
<1>1. IInv => SafeEnd
  <2>. SUFFICES ASSUME IInv, mpc = "freed"
                PROVE  /\ written = NumChunks
                       /\ \A t \in Threads : pc[t] # "dead" /\ status[t] # "running"
    BY DEF SafeEnd
  <2>1. written = Clipped(pos[0]) /\ ~(pos[0] < NumChunks)
    BY DEF IInv, StoreInv, StoreDone, HasData
  <2>2. \A t \in Threads : pc[t] # "dead" /\ status[t] # "running"
    BY DEF IInv, MainInv, Holding
  <2>. QED
    BY <2>1, <2>2 DEF Clipped
<1>. QED
  BY <1>1, Inductive, PTL

\* The main thread starts a task only when it has nothing left to do.
THEOREM NoStartIsLost == ASSUME ~LowMem PROVE Spec => NoLostStart
<1>1. IInv /\ [Next]_vars => [StartTask => pc[mj] = "idle" /\ status[mj] = "ready"]_vars
  <2>. SUFFICES ASSUME IInv, StartTask PROVE pc[mj] = "idle" /\ status[mj] = "ready"
    OBVIOUS
  <2>1. mj \in Threads
    BY DEF IInv, TypeOK
  <2>2. mj >= mj
    BY <2>1 DEF Threads
  <2>. QED
    BY <2>1, <2>2 DEF IInv, MainInv, StatusInv, StartTask
<1>. QED
  BY <1>1, Inductive, PTL DEF Spec, NoLostStart

-----------------------------------------------------------------------------
(***************************************************************************)
(* A deferred stream is tried in time, however far ahead a scan defers, if *)
(* its list is that of its chunk's slot; which list it gets is intArray1's *)
(* affair.                                                                 *)
(*                                                                         *)
(* The lists are indexed by slot, and the window moves on slot by slot     *)
(* while other tasks still run.  FutureInv says why no stream is deferred  *)
(* to a chunk that has gone: all scans run before the first LoadEx, and    *)
(* two chunks of one slot are a whole window apart.                        *)
(***************************************************************************)

\* Steps that touch neither the window nor the lists nor the scan flags.
LEMMA FutureStable ==
  ASSUME FutureInv, UNCHANGED <<pos, findex, intArray1, scanned1, scanned2, future>>,
         mpc' \in RoundPCs => mpc \in RoundPCs,
         \A t \in Threads : pc'[t] = "scan1" => pc[t] = "scan1" \/ ~scanned1[t]
  PROVE  FutureInv'
  BY DEF FutureInv, Listed, InTime, Confirmed

\* A chunk that is in a slot's list but not before the slot's chunk is a whole
\* number of windows ahead of it.
LEMMA NextWindow ==
  ASSUME IndexFacts, NEW p \in Nat, NEW c \in Nat, p % NumSlots = c % NumSlots, c > p
  PROVE  c >= p + NumSlots
<1>1. NumSlots \in Nat \ {0}
  BY DEF IndexFacts
<1>2. ~(c - p < NumSlots)
  BY <1>1, CellsApart
<1> QED
  BY <1>1, <1>2

\* A scan defers to a chunk that its slot has not left behind: no slot has been
\* refilled yet, so that the chunks of all the slots are one window.
LEMMA FutureScan1 ==
  ASSUME IndexFacts, IInv, FutureInv, NEW t \in Threads, Scan1(t)
  PROVE  FutureInv'
<1>1. /\ pc[t] = "scan1" /\ ~scanned1[t]
      /\ scanned1' = [scanned1 EXCEPT ![t] = TRUE]
      /\ pc' = [pc EXCEPT ![t] = "barrier"]
      /\ UNCHANGED <<mpc, pos, findex, intArray1, scanned2>>
  BY DEF Scan1, FutureInv, Goto, mainVars, storeVars
<1>2. TypeOK /\ Slots = Threads
  BY DEF IInv, IndexFacts
<1>3. \A i \in Slots : ~scanned2[i]
  BY <1>1, <1>2 DEF IInv, ScanInv
<1>4. findex = 0
  <2>1. ~(findex > 0)
    BY <1>1, <1>2 DEF FutureInv
  <2>2. findex \in Slots
    BY <1>2 DEF TypeOK
  <2>3. findex \in Nat
    BY <1>2, <2>2 DEF IndexFacts
  <2> QED
    BY <2>1, <2>3
<1>5. \A i \in Slots : pos[i] = pos[0] + i
  BY <1>2, <1>4 DEF IInv, StoreInv, IndexFacts, TypeOK
<1>6. ASSUME NEW i \in Slots, NEW c \in Chunks, future'[i][c] # 0
      PROVE  Listed(c, i) /\ (c % NumSlots = i => c >= pos[i])
  <2>1. CASE future[i][c] # 0
    BY <2>1 DEF FutureInv, InTime
  <2>2. CASE future[i][c] = 0
    <3>0. PICK d \in Deferrals(t) :
            future' = [j \in Slots |-> [b \in Chunks |->
                         future[j][b] + IF Listed(b, j) THEN d[b] ELSE 0]]
      BY DEF Scan1
    <3>1. Listed(c, i) /\ d[c] # 0
      BY <1>6, <2>2, <3>0
    <3>2. c >= pos[t]
      <4>1. d[c] \in 0 .. MaxDeferred /\ (d[c] > 0 => pos[t] <= c)
        BY DEF Deferrals
      <4>2. d[c] > 0
        BY <3>1, <4>1, BoundsAssumption
      <4> QED
        BY <1>2, <4>1, <4>2, BoundsAssumption DEF TypeOK, Chunks
    <3> SUFFICES ASSUME c % NumSlots = i PROVE c >= pos[i]
      BY <3>1
    <3>3. pos[i] % NumSlots = i
      BY DEF FutureInv
    <3>4. /\ c \in Nat /\ i \in Nat /\ t \in Nat
          /\ i < NumSlots /\ NumSlots \in Nat \ {0}
      BY <1>2, BoundsAssumption DEF Chunks, IndexFacts
    <3>5. pos[i] \in Nat /\ pos[0] \in Nat
      BY <1>2 DEF TypeOK, IndexFacts
    <3>6. pos[i] = pos[0] + i /\ pos[t] = pos[0] + t
      BY <1>2, <1>5
    <3>7. ~(c < pos[i])
      <4>1. SUFFICES ASSUME c < pos[i] PROVE FALSE
        OBVIOUS
      <4>2. pos[i] - c < NumSlots
        BY <3>2, <3>4, <3>5, <3>6
      <4> QED
        BY <3>3, <3>4, <3>5, <4>1, <4>2, CellsApart
    <3> QED
      BY <3>4, <3>5, <3>7
  <2> QED
    BY <2>1, <2>2
<1>7. \A u \in Threads : pc'[u] = "scan1" => ~scanned1'[u]
  BY <1>1, <1>2 DEF FutureInv, TypeOK
<1>8. \A i \in Slots : ~Confirmed(i)'
  BY <1>1, <1>3 DEF Confirmed
<1>9. findex' > 0 => \A i \in Slots : scanned1'[i]
  BY <1>1, <1>2, <1>4
<1>10. \A i \in Slots : pos'[i] % NumSlots = i
  BY <1>1 DEF FutureInv
<1>11. \A i \in Slots, c \in Chunks : future'[i][c] # 0 =>
         Listed(c, i)' /\ InTime(i, c)'
  BY <1>1, <1>6, <1>8 DEF Listed, InTime
<1> QED
  BY <1>7, <1>9, <1>10, <1>11 DEF FutureInv

\* Scan2 clears the slot's list of its own chunk; a phantom slot has none.
LEMMA FutureScan2 ==
  ASSUME IndexFacts, IInv, FutureInv, NEW t \in Threads, Scan2(t)
  PROVE  FutureInv'
<1>1. /\ pc' = [pc EXCEPT ![t] = "get"]
      /\ scanned2' = [scanned2 EXCEPT ![t] = TRUE]
      /\ UNCHANGED <<mpc, pos, findex, intArray1, scanned1>>
  BY DEF Scan2, Goto, mainVars, storeVars
<1>2. TypeOK /\ Slots = Threads
  BY DEF IInv, IndexFacts
<1>3. \A i \in Slots : pos[i] \in Nat
  BY <1>2 DEF TypeOK
<1>4. \A c \in Chunks : c \in Int /\ c < NumChunks
  BY BoundsAssumption DEF Chunks
<1>5. ASSUME NEW i \in Slots, NEW c \in Chunks, future'[i][c] # 0
      PROVE  Listed(c, i) /\ InTime(i, c)'
  <2>1. future[i][c] # 0 /\ (i = t => c # pos[t])
    <3>1. CASE HasData(t)
      <4>1. future' = [future EXCEPT ![t][pos[t]] = 0]
        BY <3>1 DEF Scan2
      <4>2. pos[t] \in Chunks
        BY <1>2, <1>3, <3>1, ChunkOfSlot DEF TypeOK
      <4>3. ~(i = t /\ c = pos[t])
        BY <1>2, <1>5, <4>1, <4>2 DEF TypeOK
      <4>4. future'[i][c] = future[i][c]
        BY <1>2, <4>1, <4>2, <4>3 DEF TypeOK
      <4> QED
        BY <1>5, <4>3, <4>4
    <3>2. CASE ~HasData(t)
      BY <1>2, <1>3, <1>4, <1>5, <3>2 DEF Scan2, HasData
    <3> QED
      BY <3>1, <3>2
  <2>2. Listed(c, i) /\ InTime(i, c)
    BY <2>1 DEF FutureInv
  <2>3. CASE i = t
    BY <1>1, <1>3, <1>4, <2>1, <2>2, <2>3 DEF InTime
  <2>4. CASE i # t
    BY <1>1, <1>2, <2>2, <2>4 DEF InTime, Confirmed, TypeOK
  <2> QED
    BY <2>3, <2>4
<1>6. \A u \in Threads : pc'[u] = "scan1" => ~scanned1'[u]
  BY <1>1, <1>2 DEF FutureInv, TypeOK
<1>7. \A i \in Slots, c \in Chunks : future'[i][c] # 0 =>
        Listed(c, i)' /\ InTime(i, c)'
  BY <1>1, <1>5 DEF Listed
<1> QED
  BY <1>1, <1>6, <1>7 DEF FutureInv

\* A slot is refilled after it has been written, when nothing is left in the
\* list of its chunk: the next chunk in its lists is the one it moves on to.
LEMMA FutureRefill ==
  ASSUME IndexFacts, IInv, FutureInv, LoadEx \/ LastLoadEx
  PROVE  FutureInv'
<1>1. /\ Refill /\ UNCHANGED <<pc, intArray1, scanned1, scanned2, future>>
      /\ mpc \in {"loadEx", "lastLoadEx"}
      /\ mpc = "lastLoadEx" => mpc' = "join"
  BY DEF LoadEx, LastLoadEx, Refill, taskVars, flagVars, infoVars
<1>2. /\ TypeOK /\ findex \in Slots /\ findex \in Nat /\ findex < NumSlots
      /\ NumSlots \in Nat \ {0} /\ mi \in Nat /\ mi < NumSlots
      /\ \A i \in Slots : i \in Nat /\ pos[i] \in Nat
  BY DEF IInv, TypeOK, IndexFacts
<1>3. mpc = "loadEx" => findex = mi - 1
  BY DEF IInv, StoreInv
<1>4. scanned2[findex] /\ \A i \in Slots : scanned1[i]
  <2>1. Passed(findex)
    BY <1>1, <1>2, <1>3 DEF Passed
  <2>2. processed[findex]
    BY <1>2, <2>1 DEF IInv, MainInv
  <2> QED
    BY <1>2, <2>2 DEF IInv, ScanInv
<1>5. Confirmed(findex)
  BY <1>1, <1>2, <1>4 DEF Confirmed, RoundPCs
<1>6. \A i \in Slots : pos'[i] = IF i = findex THEN pos[i] + NumSlots ELSE pos[i]
  BY <1>1, <1>2 DEF Refill, TypeOK
<1>7. ASSUME NEW i \in Slots PROVE pos'[i] % NumSlots = i
  <2>1. pos[i] % NumSlots = i
    BY DEF FutureInv
  <2>2. (pos[i] + NumSlots) % NumSlots = pos[i] % NumSlots
    BY <1>2, SameCell
  <2> QED
    BY <1>6, <2>1, <2>2
<1>8. ASSUME NEW i \in Slots, Confirmed(i)' PROVE i # findex /\ Confirmed(i)
  <2>1. mpc = "loadEx" /\ findex' = findex + 1 /\ findex' <= i /\ scanned2[i]
    BY <1>1, <1>2, <1>3, <1>8 DEF Confirmed, RoundPCs, Refill
  <2> QED
    BY <1>2, <2>1 DEF Confirmed, RoundPCs
<1>9. ASSUME NEW i \in Slots, NEW c \in Chunks, future'[i][c] # 0
      PROVE  Listed(c, i)' /\ InTime(i, c)'
  <2>0. Listed(c, i) /\ InTime(i, c)
    BY <1>1, <1>9 DEF FutureInv
  <2> SUFFICES ASSUME c % NumSlots = i
               PROVE  c >= pos'[i] /\ (Confirmed(i)' => c > pos'[i])
    BY <1>1, <2>0 DEF Listed, InTime
  <2>1. c % NumSlots = i /\ c >= pos[i] /\ (Confirmed(i) => c > pos[i])
    BY <2>0 DEF InTime
  <2>2. CASE i = findex
    <3>1. c > pos[i] /\ c \in Nat /\ pos[i] \in Nat
      BY <1>2, <1>5, <2>1, <2>2 DEF Chunks
    <3>2. pos[i] % NumSlots = c % NumSlots
      BY <2>1 DEF FutureInv
    <3>3. c >= pos[i] + NumSlots
      BY <3>1, <3>2, NextWindow
    <3> QED
      BY <1>6, <1>8, <2>1, <2>2, <3>3
  <2>3. CASE i # findex
    BY <1>6, <1>8, <2>1, <2>3
  <2> QED
    BY <2>2, <2>3
<1>10. (\A u \in Threads : pc'[u] = "scan1" => ~scanned1'[u])
       /\ \A i \in Slots : scanned1'[i]
  BY <1>1, <1>4 DEF FutureInv
<1> QED
  BY <1>7, <1>9, <1>10 DEF FutureInv

\* A round begins with no slot scanned and the window whole.
LEMMA FutureBeginRound ==
  ASSUME IndexFacts, IInv, FutureInv, BeginRound
  PROVE  FutureInv'
<1>1. /\ \A i \in Slots : ~scanned1'[i] /\ ~scanned2'[i]
      /\ UNCHANGED <<pos, findex, intArray1, future>> /\ mpc = "top"
  BY DEF BeginRound, storeVars
<1>2. findex = 0 /\ Slots = Threads
  BY <1>1 DEF IInv, StoreInv, IndexFacts
<1> QED
  BY <1>1, <1>2 DEF FutureInv, Listed, InTime, Confirmed

LEMMA FutureInvStep ==
  ASSUME IndexFacts, IInv, FutureInv, Next
  PROVE  FutureInv'
<1> USE DEF mainVars, storeVars, taskVars, flagVars, infoVars, RoundPCs, Goto
<1>0. TypeOK
  BY DEF IInv
<1>1. CASE BeginRound
  BY <1>1, FutureBeginRound
<1>2. CASE StartTask
  <2>1. mpc = "start" /\ UNCHANGED <<pos, findex, intArray1, scanned1, scanned2, future>>
    BY <1>2 DEF StartTask
  <2>2. mj \in Threads /\ mj >= mj
    BY <1>0 DEF TypeOK, Threads
  <2>3. ~scanned1[mj]
    BY <2>1, <2>2 DEF IInv, MainInv
  <2>4. \A t \in Threads : pc'[t] = "scan1" => pc[t] = "scan1" \/ ~scanned1[t]
    BY <1>0, <1>2, <2>3 DEF StartTask, TypeOK
  <2> QED
    BY <2>1, <2>4, FutureStable
<1>3. CASE SeeProcessed \/ SeeThrIdx \/ RaiseError \/ Emit \/ Join \/ EndOfInput
  <2>1. /\ UNCHANGED <<pc, pos, findex, intArray1, scanned1, scanned2, future>>
        /\ mpc' \in RoundPCs => mpc \in RoundPCs
    BY <1>3 DEF SeeProcessed, SeeThrIdx, RaiseError, Emit, NextSlot, Join, AfterJoin, EndOfInput
  <2> QED
    BY <2>1, FutureStable
<1>4. CASE LoadEx \/ LastLoadEx
  BY <1>4, FutureRefill
<1>5. ASSUME NEW t \in Threads, Scan1(t) PROVE FutureInv'
  BY <1>5, FutureScan1
<1>6. ASSUME NEW t \in Threads, Scan2(t) PROVE FutureInv'
  BY <1>6, FutureScan2
<1>7. ASSUME NEW t \in Threads,
             \/ PassBarrier(t) \/ Get(t) \/ SetThrIdx(t) \/ Claim(t) \/ CallHelper(t)
             \/ ProcessLeaf(t) \/ ProcessNested(t) \/ NestedClaim(t) \/ NestedProcess(t)
             \/ AwaitHelpers(t) \/ NestedEnd(t) \/ MarkProcessed(t) \/ Exit(t)
             \/ HelperClaim0(t) \/ HelperClaim1(t) \/ HelperProcess(t) \/ HelperEnd(t)
             \/ SetErrored(t) \/ Fail(t)
      PROVE  FutureInv'
  <2>1. UNCHANGED <<mpc, pos, findex, intArray1, scanned1, scanned2, future>>
    BY <1>7 DEF PassBarrier, Get, SetThrIdx, Claim, CallHelper, ProcessLeaf,
         ProcessNested, NestedClaim, NestedProcess, AwaitHelpers, NestedEnd,
         MarkProcessed, Exit, HelperClaim0, HelperClaim1, HelperProcess, HelperEnd,
         SetErrored, Fail
  <2>2. \A u \in Threads : pc'[u] = "scan1" => pc[u] = "scan1"
    BY <1>0, <1>7 DEF TypeOK, PassBarrier, Get, SetThrIdx, Claim, CallHelper, ProcessLeaf,
         ProcessNested, NestedClaim, NestedProcess, AwaitHelpers, NestedEnd,
         MarkProcessed, Exit, HelperClaim0, HelperClaim1, HelperProcess, HelperEnd,
         SetErrored, Fail
  <2> QED
    BY <2>1, <2>2, FutureStable
<1>8. CASE Finished
  BY <1>8, FutureStable DEF Finished, vars
<1> QED
  BY <1>1, <1>2, <1>3, <1>4, <1>5, <1>6, <1>7, <1>8 DEF Next, Main, Task

-----------------------------------------------------------------------------
(* The theorems *)

\* The lists are never behind the window, for any number of tasks.
THEOREM FutureInductive == ASSUME ~LowMem PROVE Spec => []FutureInv
<1> IndexFacts
  BY Indices
<1>1. Init => FutureInv
  <2> SUFFICES ASSUME Init PROVE FutureInv
    OBVIOUS
  <2>1. /\ findex = 0 /\ \A t \in Threads : pc[t] = "idle"
        /\ \A i \in Slots, c \in Chunks : future[i][c] = 0
        /\ \A i \in Slots : pos[i] = i
    BY DEF Init
  <2>2. ASSUME NEW i \in Slots PROVE i % NumSlots = i
    <3>1. i \in Nat /\ i < NumSlots /\ NumSlots \in Nat \ {0}
      BY DEF IndexFacts
    <3> QED
      BY <3>1
  <2> QED
    BY <2>1, <2>2 DEF FutureInv
<1>2. IInv /\ FutureInv /\ [Next]_vars => FutureInv'
  <2>1. CASE Next
    BY <2>1, FutureInvStep
  <2>2. CASE UNCHANGED vars
    BY <2>2 DEF FutureInv, Listed, InTime, Confirmed, vars, mainVars, storeVars, taskVars, flagVars, infoVars
  <2> QED
    BY <2>1, <2>2
<1> QED
  BY <1>1, <1>2, Inductive, PTL DEF Spec

\* Of the streams deferred to the chunk that is written, or to an earlier one,
\* none is left untried that lies in the list of its chunk's slot.  The chunks
\* of a list are a whole window apart, and the chunk of any slot is less than a
\* window away from the one that is written.
THEOREM NothingLeftDeferred == ASSUME ~LowMem PROVE Spec => []NoStaleFuture
<1> IndexFacts
  BY Indices
<1>1. IInv /\ FutureInv => NoStaleFuture
  <2> SUFFICES ASSUME IInv, FutureInv, mpc = "emit", NEW i \in Slots, NEW c \in Chunks,
                      c <= pos[mi], future[i][c] # 0, c % intArray1 = c % NumSlots
               PROVE  FALSE
    BY DEF NoStaleFuture
  <2>1. /\ mi \in Slots /\ mi \in Nat /\ i \in Nat /\ pos[mi] \in Nat /\ pos[i] \in Nat
        /\ c \in Nat /\ findex \in Nat /\ pos[0] \in Nat
        /\ NumSlots \in Nat \ {0} /\ i < NumSlots /\ mi < NumSlots
    <3>1. TypeOK /\ Slots = Threads
      BY DEF IInv, IndexFacts
    <3>2. mi \in Threads /\ i \in Threads /\ findex \in Threads /\ 0 \in Threads
      BY <3>1 DEF TypeOK, IndexFacts
    <3>3. pos[mi] \in Nat /\ pos[i] \in Nat /\ pos[0] \in Nat
      BY <3>1, <3>2 DEF TypeOK
    <3>4. c \in Nat
      BY BoundsAssumption DEF Chunks
    <3> QED
      BY <3>1, <3>2, <3>3, <3>4 DEF IndexFacts
  <2>2. c % NumSlots = i /\ c >= pos[i] /\ (Confirmed(i) => c > pos[i])
    BY DEF FutureInv, Listed, InTime
  <2>3. /\ findex = IF mi = 0 THEN 0 ELSE mi - 1
        /\ pos[i] = pos[0] + i - IF findex > 0 /\ i >= findex THEN NumSlots ELSE 0
        /\ pos[mi] = pos[0] + mi - IF findex > 0 /\ mi >= findex THEN NumSlots ELSE 0
    BY <2>1 DEF IInv, StoreInv
  <2>4. i <= mi
    <3>1. ~(i > mi)
      BY <2>1, <2>2, <2>3
    <3> QED
      BY <2>1, <3>1
  <2>5. findex <= i
    <3>1. ~(i < findex)
      BY <2>1, <2>2, <2>3
    <3> QED
      BY <2>1, <3>1
  <2>6. Confirmed(i)
    <3>1. processed[i]
      BY <2>4 DEF IInv, MainInv, Passed
    <3> QED
      BY <2>5, <3>1 DEF IInv, ScanInv, Confirmed, RoundPCs
  <2>7. c >= pos[i] + NumSlots
    <3>1. pos[i] % NumSlots = c % NumSlots
      BY <2>2 DEF FutureInv
    <3> QED
      BY <2>1, <2>2, <2>6, <3>1, NextWindow
  <2>8. pos[mi] < pos[i] + NumSlots
    BY <2>1, <2>3, <2>4, <2>5
  <2> QED
    BY <2>1, <2>7, <2>8
<1> QED
  BY <1>1, Inductive, FutureInductive, PTL

-----------------------------------------------------------------------------
(***************************************************************************)
(* The nested rounds are over when their task goes on.                     *)
(*                                                                         *)
(* A task waits for its helpers by reading the flags of all tasks one by   *)
(* one, while tasks whose flag it has already seen clear may become the    *)
(* helpers of others.  That is enough: only the task itself calls helpers  *)
(* for its nested round, and it does not while it waits (WaitInv).         *)
(***************************************************************************)

\* What the steps that are no part of a nested round leave alone: a task may
\* change only while it neither is in one nor helps, nor has failed at that.
Apart ==
  /\ UNCHANGED <<nstr, ncount, ndone, nx>>
  /\ \A t \in Threads :
       /\ Assisting(t) => helping'[t] = helping[t]
       /\ \/ pc'[t] = pc[t] /\ z'[t] = z[t] /\ k'[t] = k[t]
          \/ /\ ~Nested(t) /\ ~Assisting(t) /\ pc[t] # "hdead"
             /\ ~Nested(t)' /\ ~Assisting(t)' /\ pc'[t] # "hdead"
             /\ pc'[t] = "call" => MaxDepth = 1

LEMMA ApartStep == ASSUME Apart, HelpersInv PROVE HelpersInv'
<1> USE DEF Apart, HelpersInv, Nested, Assisting, Helps
<1>1. HelpInv'
  BY DEF HelpInv
<1>2. WaitInv'
  BY DEF WaitInv
<1>3. NestedInv'
  BY DEF NestedInv, InHands
<1> QED
  BY <1>1, <1>2, <1>3

\* The steps of the main thread: a round begins when no task helps.
LEMMA MainApart == ASSUME IndexFacts, IInv, Main PROVE Apart
<1> USE DEF Apart, Nested, Assisting, mainVars, storeVars, taskVars, flagVars, infoVars, nestVars
<1>0. TypeOK
  BY DEF IInv
<1>1. CASE BeginRound
  <2>1. \A t \in Threads : status[t] # "running"
    BY <1>1 DEF BeginRound, IInv, MainInv
  <2>2. \A t \in Threads : ~Assisting(t)
    BY <1>0, <2>1 DEF IInv, StatusInv, TypeOK
  <2> QED
    BY <1>1, <2>2 DEF BeginRound
<1>2. CASE StartTask
  <2>1. mj \in Threads /\ mj >= mj
    BY <1>0 DEF TypeOK, Threads
  <2>2. pc[mj] = "idle"
    BY <1>2, <2>1 DEF StartTask, IInv, MainInv
  <2>3. \A t \in Threads : pc'[t] = pc[t] \/ (t = mj /\ pc'[t] \in {"scan1", "get"})
    BY <1>0, <1>2 DEF StartTask, TypeOK
  <2> QED
    BY <1>2, <2>2, <2>3 DEF StartTask
<1>3. CASE SeeProcessed \/ SeeThrIdx \/ RaiseError \/ Emit \/ LoadEx \/ LastLoadEx \/ Join \/ EndOfInput
  BY <1>3 DEF SeeProcessed, SeeThrIdx, RaiseError, Emit, LoadEx, LastLoadEx, Join, EndOfInput
<1> QED
  BY <1>1, <1>2, <1>3 DEF Main

\* The steps of a task at depth 0.
LEMMA TaskApart ==
  ASSUME IndexFacts, TypeOK, NEW t \in Threads,
         \/ Scan1(t) \/ PassBarrier(t) \/ Scan2(t) \/ Get(t) \/ SetThrIdx(t) \/ Claim(t)
         \/ ProcessLeaf(t) \/ MarkProcessed(t) \/ Exit(t) \/ SetErrored(t)
  PROVE  Apart
<1> USE DEF TypeOK, Apart, Nested, Assisting, Goto, mainVars, storeVars, taskVars, flagVars, infoVars, nestVars
<1>1. CASE Scan1(t) \/ PassBarrier(t) \/ Scan2(t)
  BY <1>1 DEF Scan1, PassBarrier, Scan2
<1>2. CASE Get(t)
  BY <1>2 DEF Get, GetIndex
<1>3. CASE SetThrIdx(t)
  BY <1>3 DEF SetThrIdx
<1>4. CASE Claim(t)
  BY <1>4 DEF Claim
<1>5. CASE ProcessLeaf(t) \/ MarkProcessed(t) \/ Exit(t) \/ SetErrored(t)
  BY <1>5 DEF ProcessLeaf, MarkProcessed, Exit, SetErrored
<1> QED
  BY <1>1, <1>2, <1>3, <1>4, <1>5

\* A flag is set before its task helps and cleared when it stops.
LEMMA HelpInvStep ==
  ASSUME IndexFacts, TypeOK, StatusInv, HelpersInv, NEW t \in Threads,
         \/ CallHelper(t) \/ ProcessNested(t) \/ NestedClaim(t) \/ NestedProcess(t)
         \/ AwaitHelpers(t) \/ NestedEnd(t) \/ HelperClaim0(t) \/ HelperClaim1(t)
         \/ HelperProcess(t) \/ HelperEnd(t) \/ Fail(t)
  PROVE  HelpInv'
<1> USE DEF TypeOK, StatusInv, HelpersInv, HelpInv, Nested, Assisting, Goto, IndexFacts, mainVars, storeVars, taskVars, flagVars, infoVars, nestVars
<1>1. CASE CallHelper(t)
  BY <1>1 DEF CallHelper
<1>2. CASE ProcessNested(t)
  BY <1>2 DEF ProcessNested
<1>3. CASE NestedClaim(t)
  BY <1>3 DEF NestedClaim
<1>4. CASE NestedProcess(t)
  BY <1>4 DEF NestedProcess
<1>5. CASE AwaitHelpers(t)
  BY <1>5 DEF AwaitHelpers
<1>6. CASE NestedEnd(t)
  BY <1>6 DEF NestedEnd
<1>7. CASE HelperClaim0(t)
  BY <1>7 DEF HelperClaim0
<1>8. CASE HelperClaim1(t)
  BY <1>8 DEF HelperClaim1
<1>9. CASE HelperProcess(t)
  BY <1>9 DEF HelperProcess
<1>10. CASE HelperEnd(t)
  BY <1>10 DEF HelperEnd
<1>11. CASE Fail(t)
  BY <1>11 DEF Fail
<1> QED
  BY <1>1, <1>2, <1>3, <1>4, <1>5, <1>6, <1>7, <1>8, <1>9, <1>10, <1>11

LEMMA ThreadNumbers == ASSUME IndexFacts PROVE \A u \in Threads : u \in Nat /\ ~(u < 0)
  BY DEF IndexFacts

\* The wait begins with the first flag.
LEMMA WaitInvClaim ==
  ASSUME IndexFacts, TypeOK, WaitInv, NEW t \in Threads, NestedClaim(t)
  PROVE  WaitInv'
<1>1. /\ \A u \in Threads \ {t} : pc'[u] = pc[u] /\ k'[u] = k[u]
      /\ pc'[t] \in {"nwait", "ncall", "nproc"} /\ k'[t] = 0 /\ UNCHANGED z
  BY DEF NestedClaim, Goto, TypeOK
<1>2. \A u, v \in Threads : Helps(u, v)' => Helps(u, v)
  BY <1>1 DEF Helps, Assisting
<1> QED
  BY <1>1, <1>2, ThreadNumbers DEF WaitInv

\* A flag that is clear says that its task does not help.
LEMMA WaitInvAwait ==
  ASSUME IndexFacts, TypeOK, HelpInv, WaitInv, NEW t \in Threads, AwaitHelpers(t)
  PROVE  WaitInv'
<1>1. /\ \A u \in Threads \ {t} : pc'[u] = pc[u] /\ k'[u] = k[u]
      /\ UNCHANGED z /\ pc[t] \in {"nwait", "tail", "drain"}
      /\ pc'[t] \in {"nwait", "nend", "tail", "mark", "drain", "exit"}
  BY DEF AwaitHelpers, Goto, TypeOK
<1>2. \A u, v \in Threads : Helps(u, v)' => Helps(u, v)
  BY <1>1 DEF Helps, Assisting
<1>3. SUFFICES ASSUME NEW u \in Threads
               PROVE  /\ pc'[t] = "nwait" /\ u < k'[t] => ~Helps(u, t)
                      /\ pc'[t] = "nend" => ~Helps(u, t)
  BY <1>1, <1>2 DEF WaitInv
<1>4. CASE pc[t] # "nwait"
  BY <1>4 DEF AwaitHelpers, Goto, TypeOK
<1>5. CASE pc[t] = "nwait" /\ helping[k[t]]
  <2>1. pc'[t] = "nwait" /\ k'[t] = 0
    BY <1>5 DEF AwaitHelpers, TypeOK
  <2> QED
    BY <2>1, ThreadNumbers
<1>6. CASE pc[t] = "nwait" /\ ~helping[k[t]]
  <2>1. k[t] \in Threads /\ k[t] \in Nat /\ u \in Nat
    BY ThreadNumbers DEF TypeOK
  <2>2. u <= k[t] => ~Helps(u, t)
    <3>1. CASE u < k[t]
      BY <1>6, <3>1 DEF WaitInv
    <3>2. CASE u = k[t]
      BY <1>6, <3>2 DEF HelpInv, Helps
    <3> QED
      BY <2>1, <3>1, <3>2
  <2>3. CASE k[t] + 1 < NumSlots
    <3>1. pc'[t] = "nwait" /\ k'[t] = k[t] + 1
      BY <1>6, <2>3 DEF AwaitHelpers, TypeOK
    <3> QED
      BY <2>1, <2>2, <3>1
  <2>4. CASE ~(k[t] + 1 < NumSlots)
    <3>1. pc'[t] = "nend"
      BY <1>6, <2>4 DEF AwaitHelpers, Goto, TypeOK
    <3>2. u <= k[t]
      BY <2>1, <2>4 DEF IndexFacts
    <3> QED
      BY <2>2, <3>1, <3>2
  <2> QED
    BY <2>3, <2>4
<1> QED
  BY <1>4, <1>5, <1>6

\* No task is made a helper of one that waits.
LEMMA WaitInvStep ==
  ASSUME IndexFacts, TypeOK, StatusInv, HelpersInv, NEW t \in Threads,
         \/ CallHelper(t) \/ ProcessNested(t) \/ NestedClaim(t) \/ NestedProcess(t)
         \/ AwaitHelpers(t) \/ NestedEnd(t) \/ HelperClaim0(t) \/ HelperClaim1(t)
         \/ HelperProcess(t) \/ HelperEnd(t) \/ Fail(t)
  PROVE  WaitInv'
<1> USE DEF TypeOK, StatusInv, HelpersInv, HelpInv, Nested, Assisting, Goto, IndexFacts, mainVars, storeVars, taskVars, flagVars, infoVars, nestVars, WaitInv, Helps
<1>1. CASE CallHelper(t)
  BY <1>1 DEF CallHelper
<1>2. CASE ProcessNested(t)
  BY <1>2 DEF ProcessNested
<1>3. CASE NestedClaim(t)
  BY <1>3, WaitInvClaim
<1>4. CASE NestedProcess(t)
  BY <1>4 DEF NestedProcess
<1>5. CASE AwaitHelpers(t)
  BY <1>5, WaitInvAwait
<1>6. CASE NestedEnd(t)
  BY <1>6 DEF NestedEnd
<1>7. CASE HelperClaim0(t)
  BY <1>7 DEF HelperClaim0
<1>8. CASE HelperClaim1(t)
  BY <1>8 DEF HelperClaim1
<1>9. CASE HelperProcess(t)
  BY <1>9 DEF HelperProcess
<1>10. CASE HelperEnd(t)
  BY <1>10 DEF HelperEnd
<1>11. CASE Fail(t)
  BY <1>11 DEF Fail
<1> QED
  BY <1>1, <1>2, <1>3, <1>4, <1>5, <1>6, <1>7, <1>8, <1>9, <1>10, <1>11

\* A nested stream stays in someone's hands until it is processed.
LEMMA NestedKept ==
  ASSUME NestedInv, UNCHANGED <<nstr, ncount>>,
         \A v \in Threads :
           /\ Nested(v)' => Nested(v)
           /\ pc'[v] \in {"nwait", "nend"} => pc[v] \in {"nwait", "nend"}
           /\ ndone[v] \subseteq ndone'[v]
           /\ Nested(v)' /\ pc[v] \in {"ncall", "nproc"} =>
                \/ pc'[v] \in {"ncall", "nproc"} /\ nx'[v] = nx[v]
                \/ nx[v] \in ndone'[v]
           /\ pc[v] \in {"hproc", "hfail", "hdead"} =>
                \/ /\ pc'[v] \in {"hproc", "hfail", "hdead"}
                   /\ z'[v] = z[v] /\ nx'[v] = nx[v]
                \/ nx[v] \in ndone'[z[v]]
  PROVE  NestedInv'
  BY DEF NestedInv, InHands

\* A nested round begins with no stream claimed.
LEMMA NestedInvBegin ==
  ASSUME TypeOK, NestedInv, NEW t \in Threads, ProcessNested(t)
  PROVE  NestedInv'
<1>1. /\ nstr'[t] = -1 /\ pc'[t] = "ninc" /\ pc[t] = "proc" /\ ncount'[t] \in Int
      /\ \A v \in Threads \ {t} : /\ nstr'[v] = nstr[v] /\ ndone'[v] = ndone[v]
                                  /\ pc'[v] = pc[v] /\ ncount'[v] = ncount[v]
      /\ UNCHANGED <<z, nx>>
  BY DEF ProcessNested, Goto, TypeOK
<1>2. ASSUME NEW v \in Threads \ {t}, NEW s PROVE InHands(s, v) => InHands(s, v)'
  BY <1>1 DEF InHands
<1>3. \A s \in 0 .. ncount'[t] - 1 : ~(s <= nstr'[t])
  BY <1>1
<1> QED
  BY <1>1, <1>2, <1>3 DEF NestedInv, Nested

\* The task claims a stream, or finds that the last one is claimed.
LEMMA NestedInvClaim ==
  ASSUME TypeOK, NestedInv, NEW t \in Threads, NestedClaim(t)
  PROVE  NestedInv'
<1>1. /\ nstr'[t] = nstr[t] + 1 /\ nx'[t] = nstr[t] + 1 /\ pc[t] = "ninc"
      /\ nstr[t] \in Int /\ ncount[t] \in Nat
      /\ \A v \in Threads \ {t} : pc'[v] = pc[v] /\ nstr'[v] = nstr[v] /\ nx'[v] = nx[v]
      /\ nstr[t] + 1 >= ncount[t] => pc'[t] = "nwait"
      /\ nstr[t] + 1 < ncount[t] => pc'[t] \in {"ncall", "nproc"}
      /\ UNCHANGED <<z, ndone, ncount>>
  BY DEF NestedClaim, Goto, TypeOK
<1>2. ASSUME NEW v \in Threads, NEW s PROVE InHands(s, v) => InHands(s, v)'
  BY <1>1 DEF InHands
<1>3. ASSUME NEW s \in 0 .. ncount[t] - 1, s <= nstr[t] + 1
      PROVE  s \in ndone[t] \/ InHands(s, t)'
  <2>1. CASE s <= nstr[t]
    BY <1>1, <1>2, <2>1 DEF NestedInv, Nested
  <2>2. CASE s = nstr[t] + 1
    BY <1>1, <2>2 DEF InHands
  <2> QED
    BY <1>1, <1>3, <2>1, <2>2
<1>4. pc'[t] \in {"nwait", "nend"} => nstr'[t] >= ncount'[t]
  BY <1>1
<1> QED
  BY <1>1, <1>2, <1>3, <1>4 DEF NestedInv, Nested

\* So does a helper.
LEMMA NestedInvHelper ==
  ASSUME TypeOK, PickInv, NestedInv, NEW t \in Threads, HelperClaim1(t)
  PROVE  NestedInv'
<1>1. /\ pc[t] = "hinc" /\ pc'[t] \in {"hproc", "hend"} /\ nx'[t] = nstr[z[t]] + 1
      /\ nstr[z[t]] + 1 < ncount[z[t]] => pc'[t] = "hproc"
      /\ \A v \in Threads \ {t} : pc'[v] = pc[v] /\ nx'[v] = nx[v]
      /\ UNCHANGED <<z, ndone, ncount>>
  BY DEF HelperClaim1, Goto, TypeOK
<1>2. \A v \in Threads : /\ nstr[v] \in Int /\ ncount[v] \in Nat
                        /\ nstr'[v] = IF v = z[t] THEN nstr[v] + 1 ELSE nstr[v]
  BY DEF HelperClaim1, TypeOK
<1>3. ASSUME NEW v \in Threads, NEW s PROVE InHands(s, v) => InHands(s, v)'
  BY <1>1 DEF InHands
<1>4. \A v \in Threads : (Nested(v)' <=> Nested(v))
                        /\ (pc'[v] \in {"nwait", "nend"} <=> pc[v] \in {"nwait", "nend"})
  BY <1>1 DEF Nested
<1>5. ASSUME NEW v \in Threads, Nested(v), NEW s \in 0 .. ncount[v] - 1, s <= nstr'[v]
      PROVE  s \in ndone[v] \/ InHands(s, v)'
  <2>1. CASE s <= nstr[v]
    <3>1. s \in ndone[v] \/ InHands(s, v)
      BY <1>5, <2>1 DEF NestedInv
    <3> QED
      BY <3>1, <1>3
  <2>2. CASE ~(s <= nstr[v])
    <3>1. v = z[t] /\ s = nstr[v] + 1 /\ s < ncount[v]
      BY <1>2, <1>5, <2>2
    <3>2. pc'[t] = "hproc" /\ z'[t] = v /\ nx'[t] = s
      BY <1>1, <3>1
    <3> QED
      BY <3>2 DEF InHands
  <2> QED
    BY <2>1, <2>2
<1>6. ASSUME NEW v \in Threads, pc'[v] \in {"nwait", "nend"} PROVE nstr'[v] >= ncount'[v]
  <2>1. nstr[v] >= ncount[v]
    BY <1>4, <1>6 DEF NestedInv
  <2> QED
    BY <1>1, <1>2, <2>1
<1> QED
  BY <1>1, <1>4, <1>5, <1>6 DEF NestedInv

\* A claim hands the stream to the one who made it; processing or failing gives
\* it up.
LEMMA NestedInvStep ==
  ASSUME IndexFacts, TypeOK, StatusInv, PickInv, HelpersInv, NEW t \in Threads,
         \/ CallHelper(t) \/ ProcessNested(t) \/ NestedClaim(t) \/ NestedProcess(t)
         \/ AwaitHelpers(t) \/ NestedEnd(t) \/ HelperClaim0(t) \/ HelperClaim1(t)
         \/ HelperProcess(t) \/ HelperEnd(t) \/ Fail(t)
  PROVE  NestedInv'
<1> USE DEF TypeOK, StatusInv, HelpersInv, HelpInv, Nested, Assisting, Goto, IndexFacts, mainVars, storeVars, taskVars, flagVars, infoVars, nestVars, NestedInv
<1>1. CASE CallHelper(t)
  BY <1>1, NestedKept DEF CallHelper
<1>2. CASE ProcessNested(t)
  BY <1>2, NestedInvBegin
<1>3. CASE NestedClaim(t)
  BY <1>3, NestedInvClaim
<1>4. CASE NestedProcess(t)
  BY <1>4, NestedKept DEF NestedProcess
<1>5. CASE AwaitHelpers(t)
  BY <1>5, NestedKept DEF AwaitHelpers
<1>6. CASE NestedEnd(t)
  BY <1>6, NestedKept DEF NestedEnd
<1>7. CASE HelperClaim0(t)
  BY <1>7, NestedKept DEF HelperClaim0
<1>8. CASE HelperClaim1(t)
  BY <1>8, NestedInvHelper
<1>9. CASE HelperProcess(t)
  <2>1. CASE MaxDepth = 1
    <3>1. \A v \in Threads : pc'[v] \in {"ninc", "ncall", "nproc", "nwait", "nend"} =>
                            pc[v] \in {"ninc", "ncall", "nproc", "nwait", "nend"}
      BY <1>9 DEF HelperProcess
    <3>2. \A v \in Threads : ~Nested(v)'
      BY <2>1, <3>1
    <3> QED
      BY <3>2 DEF NestedInv
  <2>2. CASE MaxDepth # 1
    <3>1. /\ \A v \in Threads \ {t} : pc'[v] = pc[v]
          /\ pc[t] = "hproc" /\ pc'[t] = "hinc" /\ UNCHANGED <<z, nx, nstr, ncount>>
          /\ ndone' = [ndone EXCEPT ![z[t]] = @ \cup {nx[t]}]
      BY <1>9, <2>2 DEF HelperProcess
    <3>2. z[t] \in Threads
      BY <3>1 DEF PickInv
    <3>3. nx[t] \in ndone'[z[t]] /\ \A v \in Threads : ndone[v] \subseteq ndone'[v]
      BY <3>1, <3>2
    <3> QED
      BY <3>1, <3>3, NestedKept
  <2> QED
    BY <2>1, <2>2
<1>10. CASE HelperEnd(t)
  BY <1>10, NestedKept DEF HelperEnd
<1>11. CASE Fail(t)
  BY <1>11, NestedKept DEF Fail
<1> QED
  BY <1>1, <1>2, <1>3, <1>4, <1>5, <1>6, <1>7, <1>8, <1>9, <1>10, <1>11

-----------------------------------------------------------------------------
LEMMA HelpersInvStep ==
  ASSUME IndexFacts, IInv, HelpersInv, Next
  PROVE  HelpersInv'
<1>0. TypeOK /\ StatusInv /\ PickInv
  BY DEF IInv
<1>1. CASE Main
  BY <1>1, MainApart, ApartStep
<1>2. ASSUME NEW t \in Threads,
             \/ CallHelper(t) \/ ProcessNested(t) \/ NestedClaim(t) \/ NestedProcess(t)
             \/ AwaitHelpers(t) \/ NestedEnd(t) \/ HelperClaim0(t) \/ HelperClaim1(t)
             \/ HelperProcess(t) \/ HelperEnd(t) \/ Fail(t)
      PROVE  HelpersInv'
  <2>1. HelpInv'
    BY <1>0, <1>2, HelpInvStep
  <2>2. WaitInv'
    BY <1>0, <1>2, WaitInvStep
  <2>3. NestedInv'
    BY <1>0, <1>2, NestedInvStep
  <2> QED
    BY <2>1, <2>2, <2>3 DEF HelpersInv
<1>3. ASSUME NEW t \in Threads,
             \/ Scan1(t) \/ PassBarrier(t) \/ Scan2(t) \/ Get(t) \/ SetThrIdx(t) \/ Claim(t)
             \/ ProcessLeaf(t) \/ MarkProcessed(t) \/ Exit(t) \/ SetErrored(t)
      PROVE  HelpersInv'
  BY <1>0, <1>3, TaskApart, ApartStep
<1>4. CASE Finished
  <2>1. Apart
    BY <1>4 DEF Finished, Apart, vars, taskVars, flagVars, nestVars
  <2> QED
    BY <2>1, ApartStep
<1> QED
  BY <1>1, <1>2, <1>3, <1>4 DEF Next, Task

-----------------------------------------------------------------------------
(* The theorems *)

\* What the nested rounds keep, for any number of tasks.
THEOREM HelpersInductive == ASSUME ~LowMem PROVE Spec => []HelpersInv
<1> IndexFacts
  BY Indices
<1>1. Init => HelpersInv
  BY DEF Init, HelpersInv, HelpInv, WaitInv, NestedInv, Nested, Helps, Assisting
<1>2. IInv /\ HelpersInv /\ [Next]_vars => HelpersInv'
  <2>1. CASE Next
    BY <2>1, HelpersInvStep
  <2>2. CASE UNCHANGED vars
    <3>1. Apart
      BY <2>2 DEF Apart, vars, taskVars, flagVars, nestVars
    <3> QED
      BY <3>1, ApartStep
  <2> QED
    BY <2>1, <2>2
<1> QED
  BY <1>1, <1>2, Inductive, PTL DEF Spec

\* All of the encoder's invariant, for any number of tasks, streams and failures.
THEOREM EncoderInvariant == ASSUME ~LowMem PROVE Spec => []EncoderInv
<1>1. IInv /\ FutureInv /\ HelpersInv => EncoderInv
  BY DEF EncoderInv
<1> QED
  BY <1>1, Inductive, FutureInductive, HelpersInductive, PTL

\* A task that goes on after its nested round has no helper left in it, and
\* every nested stream is processed, or lost to a helper that has failed.
THEOREM NestedRoundsAreQuiet == ASSUME ~LowMem PROVE Spec => []NestedQuiet
<1>1. IInv /\ HelpersInv => NestedQuiet
  <2> SUFFICES ASSUME IInv, HelpersInv, NEW t \in Threads, pc[t] = "nend"
               PROVE  /\ \A u \in Threads : ~(Assisting(u) /\ z[u] = t)
                      /\ \A s \in 0 .. ncount[t] - 1 :
                           \/ s \in ndone[t]
                           \/ \E u \in Threads : pc[u] = "hdead" /\ z[u] = t /\ nx[u] = s
    BY DEF NestedQuiet
  <2>1. \A u \in Threads : ~(Assisting(u) /\ z[u] = t)
    BY DEF HelpersInv, WaitInv, Helps
  <2>2. ASSUME NEW s \in 0 .. ncount[t] - 1
        PROVE  \/ s \in ndone[t]
               \/ \E u \in Threads : pc[u] = "hdead" /\ z[u] = t /\ nx[u] = s
    <3>1. nstr[t] \in Int /\ ncount[t] \in Nat /\ nstr[t] >= ncount[t]
      BY DEF IInv, TypeOK, HelpersInv, NestedInv
    <3>2. s <= nstr[t]
      BY <3>1
    <3>3. s \in ndone[t] \/ InHands(s, t)
      BY <3>2 DEF HelpersInv, NestedInv, Nested
    <3> QED
      BY <2>1, <3>3 DEF InHands, Assisting
  <2> QED
    BY <2>1, <2>2
<1> QED
  BY <1>1, Inductive, HelpersInductive, PTL
=============================================================================
