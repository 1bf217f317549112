---------------------------- MODULE EncodeRound ----------------------------
(***************************************************************************)
(* The multi-threaded encoder of precompressor/PrecompMain.pas, depth 0.   *)
(*                                                                         *)
(* The main thread (EncData) works in rounds.  In a round every slot of    *)
(* the data store holds one chunk of the input.  Task Y scans slot Y, the  *)
(* tasks meet at a barrier, confirm the streams that other chunks deferred *)
(* to their own, and then share the streams of all the slots: a stream is  *)
(* claimed with an atomic increment of StrIdx[Z].  A task that processes a *)
(* stream with nested streams runs a nested EncThread, and tasks that have *)
(* nothing left to do are started again as its helpers (EncCallThreads).   *)
(* Meanwhile the main thread writes out slot after slot, as soon as a slot *)
(* is Processed and no task has it as its ThrIdx, and refills the data     *)
(* store behind itself (LoadEx).                                           *)
(*                                                                         *)
(* Data is abstracted to what the protocol tells apart: a chunk is its     *)
(* number, a stream the index it has in InfoStore1[Z], and the work on a   *)
(* stream is one step that may fail, or a nested round.                    *)
(***************************************************************************)
EXTENDS Integers

CONSTANTS
  NumThreads,   \* Options.Threads
  LowMem,       \* Options.LowMem: a single slot shared by all the tasks
  MaxDepth,     \* Options.Depth: Length(ComVars1), 1 or 2 levels here
  NumChunks,    \* chunks in the input
  MaxStreams,   \* bound: streams a scan finds in one chunk
  MaxNested,    \* bound: nested streams in one stream
  Ahead,        \* bound: how many chunks ahead a scan defers a stream
  MaxDeferred,  \* bound: streams a scan defers to one chunk
  Moduli,       \* what a build of EncInit can leave in IntArray[1]
  MaxFaults     \* bound: exceptions raised while a stream is processed

ASSUME ThreadsAssumption == NumThreads \in Nat \ {0, 1}
ASSUME LowMemAssumption  == LowMem \in BOOLEAN
ASSUME DepthAssumption   == MaxDepth \in {1, 2}
ASSUME BoundsAssumption  ==
  /\ NumChunks \in Nat
  /\ MaxStreams \in Nat
  /\ MaxNested \in Nat
  /\ Ahead \in Nat
  /\ MaxDeferred \in Nat
  /\ MaxFaults \in Nat

Threads  == 0 .. NumThreads - 1
Slots    == IF LowMem THEN {0} ELSE Threads
NumSlots == IF LowMem THEN 1 ELSE NumThreads
Chunks   == 0 .. NumChunks - 1

\* IntArray[1] is assigned from the variable of a loop over the slots, after
\* the loop: its last value with Free Pascal, which builds ytool, one more with
\* Delphi; the language leaves it open.
ASSUME ModuliAssumption == Moduli \subseteq {NumSlots - 1, NumSlots}

VARIABLES
  mpc,       \* where the main thread is in EncData
  mi,        \* its loop variable over the slots
  mj,        \* its loop variable over the tasks
  written,   \* chunk records written to the output so far
  pos,       \* FPositions of the data store, in chunks
  findex,    \* FIndex of the data store: the slot LoadEx refills next
  intArray1, \* IntArray[1], the modulus that picks the list of a deferral
  status,    \* TTask.FStatus
  pc,        \* where the task is in EncThread or EncThreadEx
  z,         \* its local Z: a slot, for a helper the ThreadIndex it serves
  x,         \* its local X: the depth-0 stream index it claimed
  nx,        \* the nested stream index it claimed
  k,         \* loop variable over Tasks (EncCallThreads) and Helping
  thrIdx, scanned1, scanned2, processed, helping,
  strIdx,    \* StrIdx of ComVars1[0]
  count,     \* InfoStore1[Z].Count of ComVars1[0]
  future,    \* InfoStore2[Z]: how many of its streams start in each chunk
  nstr,      \* StrIdx of ComVars1[1], one per task
  ncount,    \* InfoStore1[Y].Count of ComVars1[1]
  done,      \* history: streams of the slot that have been processed
  ndone,     \* history: nested streams of the task that have been processed
  faults     \* exceptions raised so far

mainVars  == <<mpc, mi, mj, written>>
storeVars == <<pos, findex, intArray1>>
taskVars  == <<status, pc, z, x, nx, k>>
flagVars  == <<thrIdx, scanned1, scanned2, processed, helping>>
infoVars  == <<strIdx, count, future, done>>
nestVars  == <<nstr, ncount, ndone>>
vars == <<mainVars, storeVars, taskVars, flagVars, infoVars, nestVars, faults>>

-----------------------------------------------------------------------------
(* Derived state *)

\* DataStore.Size(i) > 0: the slot holds a real chunk, not a phantom one.
HasData(i) == pos[i] < NumChunks

\* TDataStore1.Done is keyed on slot 0 alone.
StoreDone == ~HasData(0)

\* The task owns stream x[t] of slot z[t]; "dead" raised while owning it.
Holding(t) ==
  pc[t] \in {"call", "proc", "ninc", "ncall", "nproc", "nwait", "nend", "dead"}

\* The task is a helper that has not yet cleared its Helping flag.
Assisting(t) == pc[t] \in {"hinc", "hproc", "hend", "hfail"}

Streams(i) == 0 .. count[i] - 1

IsErrored == \E t \in Threads : status[t] = "errored"

PCs == {"idle", "scan1", "barrier", "scan2", "get", "set", "getI", "setI",
        "inc", "call", "proc", "ninc", "ncall", "nproc", "nwait", "nend",
        "tail", "mark", "drain", "hinc", "hproc", "hend", "hfail", "exit",
        "dead", "hdead"}

MainPCs == {"top", "start", "waitProc", "waitIdx", "emit", "loadEx",
            "lastLoadEx", "join", "free", "freed", "abort", "aborted"}

-----------------------------------------------------------------------------
(* Initial state: EncInit and TDataStore1.Load have run.  Processed and    *)
(* Helping have one cell per slot; what follows them in memory, which is   *)
(* read when there are more tasks than slots, is arbitrary.                *)

Init ==
  /\ mpc = "top" /\ mi = 0 /\ mj = 0 /\ written = 0
  /\ pos = [i \in Slots |-> i] /\ findex = 0
  /\ intArray1 \in Moduli
  /\ status = [t \in Threads |-> "ready"]
  /\ pc = [t \in Threads |-> "idle"]
  /\ z = [t \in Threads |-> 0]
  /\ x = [t \in Threads |-> 0]
  /\ nx = [t \in Threads |-> 0]
  /\ k = [t \in Threads |-> 0]
  /\ thrIdx = [t \in Threads |-> 0]
  /\ scanned1 = [i \in Slots |-> FALSE]
  /\ scanned2 = [i \in Slots |-> FALSE]
  /\ processed \in {f \in [Threads -> BOOLEAN] : \A i \in Slots : ~f[i]}
  /\ helping \in {f \in [Threads -> BOOLEAN] : \A i \in Slots : ~f[i]}
  /\ strIdx = [i \in Slots |-> -1]
  /\ count = [i \in Slots |-> 0]
  /\ future = [i \in Slots |-> [c \in Chunks |-> 0]]
  /\ done = [i \in Slots |-> {}]
  /\ nstr = [t \in Threads |-> -1]
  /\ ncount = [t \in Threads |-> 0]
  /\ ndone = [t \in Threads |-> {}]
  /\ faults = 0

-----------------------------------------------------------------------------
(* The main thread: EncData *)

\* Top of "while not DataStore.Done": raise a task's error, or reset the
\* round and go on to start the tasks.
BeginRound ==
  /\ mpc = "top" /\ ~StoreDone /\ ~IsErrored
  /\ mpc' = "start" /\ mj' = 0
  /\ count' = [i \in Slots |-> 0]
  /\ strIdx' = [i \in Slots |-> -1]
  /\ done' = [i \in Slots |-> {}]
  /\ scanned1' = [i \in Slots |-> FALSE]
  /\ scanned2' = [i \in Slots |-> FALSE]
  /\ processed' = [i \in Threads |-> IF i \in Slots THEN FALSE ELSE processed[i]]
  /\ helping' = [i \in Threads |-> IF i \in Slots THEN FALSE ELSE helping[i]]
  /\ UNCHANGED <<mi, written, storeVars, taskVars, thrIdx, future, nestVars, faults>>

\* ThrIdx[I] := 0; Update; Perform(EncThread); Start.  A task that is already
\* running keeps running what it has begun.
StartTask ==
  /\ mpc = "start"
  /\ thrIdx' = [thrIdx EXCEPT ![mj] = 0]
  /\ status' = [status EXCEPT ![mj] = "running"]
  /\ pc' = [pc EXCEPT ![mj] =
              IF pc[mj] # "idle" THEN @
              ELSE IF mj \in Slots THEN "scan1" ELSE "get"]
  /\ IF mj + 1 < NumThreads
       THEN mj' = mj + 1 /\ UNCHANGED <<mpc, mi>>
       ELSE mj' = 0 /\ mpc' = "waitProc" /\ mi' = 0
  /\ UNCHANGED <<written, storeVars, z, x, nx, k, scanned1, scanned2, processed,
                 helping, infoVars, nestVars, faults>>

\* while Processed[I] = False do Sleep
SeeProcessed ==
  /\ mpc = "waitProc" /\ processed[mi]
  /\ mpc' = "waitIdx" /\ mj' = 0
  /\ UNCHANGED <<mi, written, storeVars, taskVars, flagVars, infoVars, nestVars, faults>>

\* Mutant: the wait for ThrIdx is left out.
SeeThrIdxAtOnce ==
  /\ mpc = "waitIdx"
  /\ mpc' = "emit" /\ mj' = 0
  /\ UNCHANGED <<mi, written, storeVars, taskVars, flagVars, infoVars, nestVars, faults>>

\* for J: while ThrIdx[J] = I do Sleep -- one task after the other.
SeeThrIdx ==
  /\ mpc = "waitIdx" /\ thrIdx[mj] # mi
  /\ IF mj + 1 < NumThreads
       THEN mj' = mj + 1 /\ UNCHANGED mpc
       ELSE mj' = 0 /\ mpc' = "emit"
  /\ UNCHANGED <<mi, written, storeVars, taskVars, flagVars, infoVars, nestVars, faults>>

\* Either wait leaves through RaiseLastError when a task has failed.
RaiseError ==
  /\ IsErrored
  /\ \/ mpc = "top" /\ ~StoreDone
     \/ mpc = "waitProc" /\ ~processed[mi]
     \/ mpc = "waitIdx" /\ thrIdx[mj] = mi
  /\ mpc' = "abort" /\ mj' = 0
  /\ UNCHANGED <<mi, written, storeVars, taskVars, flagVars, infoVars, nestVars, faults>>

NextSlot ==
  IF mi + 1 < NumSlots
    THEN mi' = mi + 1 /\ mpc' = "waitProc"
    ELSE mi' = 0 /\ mpc' = "lastLoadEx"

\* Mutant: a phantom slot writes a chunk record as well.
EmitPhantom ==
  /\ mpc = "emit"
  /\ written' = written + 1
  /\ IF mi > 0 THEN mpc' = "loadEx" /\ UNCHANGED mi ELSE NextSlot
  /\ UNCHANGED <<mj, storeVars, taskVars, flagVars, infoVars, nestVars, faults>>

\* Write the records of slot I; a phantom slot writes nothing.
Emit ==
  /\ mpc = "emit"
  /\ written' = IF HasData(mi) THEN written + 1 ELSE written
  /\ IF mi > 0 THEN mpc' = "loadEx" /\ UNCHANGED mi ELSE NextSlot
  /\ UNCHANGED <<mj, storeVars, taskVars, flagVars, infoVars, nestVars, faults>>

\* Mutant: FIndex wraps one slot too late.
RefillLateWrap ==
  /\ pos' = [pos EXCEPT ![findex] = @ + NumSlots]
  /\ findex' = IF findex + 1 > NumSlots THEN 0 ELSE findex + 1
  /\ UNCHANGED intArray1

\* Mutant: the slot moves on by a chunk, not by the window.
RefillByChunk ==
  /\ pos' = [pos EXCEPT ![findex] = @ + 1]
  /\ findex' = IF findex + 1 = NumSlots THEN 0 ELSE findex + 1
  /\ UNCHANGED intArray1

\* TDataStore1.LoadEx: the slot at FIndex moves on by a whole window.
Refill ==
  /\ pos' = [pos EXCEPT ![findex] = @ + NumSlots]
  /\ findex' = IF findex + 1 = NumSlots THEN 0 ELSE findex + 1
  /\ UNCHANGED intArray1

\* if I > 0 then LoadEx
LoadEx ==
  /\ mpc = "loadEx"
  /\ Refill /\ NextSlot
  /\ UNCHANGED <<mj, written, taskVars, flagVars, infoVars, nestVars, faults>>

\* The LoadEx after the last slot, before WaitForAll.
LastLoadEx ==
  /\ mpc = "lastLoadEx"
  /\ Refill
  /\ mpc' = "join" /\ mj' = 0
  /\ UNCHANGED <<mi, written, taskVars, flagVars, infoVars, nestVars, faults>>

AfterJoin == CASE mpc = "join"  -> "top"
               [] mpc = "free"  -> "freed"
               [] mpc = "abort" -> "aborted"

\* Mutant: the round ends without WaitForAll.
JoinAtOnce ==
  /\ mpc \in {"join", "free", "abort"}
  /\ mj' = 0 /\ mpc' = AfterJoin
  /\ UNCHANGED <<mi, written, storeVars, taskVars, flagVars, infoVars, nestVars, faults>>

\* WaitForAll(Tasks): one task after the other until it is not running.
Join ==
  /\ mpc \in {"join", "free", "abort"}
  /\ status[mj] # "running"
  /\ IF mj + 1 < NumThreads
       THEN mj' = mj + 1 /\ UNCHANGED mpc
       ELSE mj' = 0 /\ mpc' = AfterJoin
  /\ UNCHANGED <<mi, written, storeVars, taskVars, flagVars, infoVars, nestVars, faults>>

\* The loop ends; EncFree waits for the tasks before it frees their data.
EndOfInput ==
  /\ mpc = "top" /\ StoreDone
  /\ mpc' = "free" /\ mj' = 0
  /\ UNCHANGED <<mi, written, storeVars, taskVars, flagVars, infoVars, nestVars, faults>>

Main ==
  \/ BeginRound \/ StartTask \/ SeeProcessed \/ SeeThrIdx \/ RaiseError
  \/ Emit \/ LoadEx \/ LastLoadEx \/ Join \/ EndOfInput

-----------------------------------------------------------------------------
(* A task: EncThread at depth 0 *)

Goto(t, label) == pc' = [pc EXCEPT ![t] = label]

\* AddStream puts a stream that starts in chunk c off to InfoStore2[i].
Listed(c, i) == intArray1 > 0 /\ c % intArray1 = i

\* The streams, counted by chunk, that a scan of slot t can put off: those
\* that start behind its chunk, or in it but did not come out whole.  With a
\* modulus of 0 the division raises, which ends the codec's scan.
Deferrals(t) ==
  {d \in [Chunks -> 0 .. MaxDeferred] : \A c \in Chunks : d[c] > 0 =>
     intArray1 > 0 /\ HasData(t) /\ pos[t] <= c /\ c <= pos[t] + Ahead}

\* Scan1 on the task's own slot, with AddStream: streams accepted at once,
\* and streams deferred, under ThreadSync, to the list that intArray1 gives.
Scan1(t) ==
  /\ pc[t] = "scan1"
  /\ \E n \in 0 .. IF HasData(t) THEN MaxStreams ELSE 0 :
       count' = [count EXCEPT ![t] = n]
  /\ \E d \in Deferrals(t) :
       future' = [i \in Slots |-> [c \in Chunks |->
                    future[i][c] + IF Listed(c, i) THEN d[c] ELSE 0]]
  /\ scanned1' = [scanned1 EXCEPT ![t] = TRUE]
  /\ Goto(t, "barrier")
  /\ UNCHANGED <<mainVars, storeVars, status, z, x, nx, k, thrIdx, scanned2,
                 processed, helping, strIdx, done, nestVars, faults>>

\* Mutant: no barrier between the scans and the deferred streams.
PassBarrierAtOnce(t) ==
  /\ pc[t] = "barrier"
  /\ Goto(t, "scan2")
  /\ UNCHANGED <<mainVars, storeVars, status, z, x, nx, k, flagVars, infoVars,
                 nestVars, faults>>

\* while not BoolArray(Scanned1, True) do Sleep
PassBarrier(t) ==
  /\ pc[t] = "barrier" /\ \A i \in Slots : scanned1[i]
  /\ Goto(t, "scan2")
  /\ UNCHANGED <<mainVars, storeVars, status, z, x, nx, k, flagVars, infoVars,
                 nestVars, faults>>

\* Scan2 tries the streams of the slot's list that start in its chunk, takes
\* those the codec confirms, drops the others, and keeps the rest of the list
\* for a later round; then InfoStore1[Y].Sort and Scanned2[Y] := True.
Scan2(t) ==
  /\ pc[t] = "scan2"
  /\ IF HasData(t)
       THEN /\ \E n \in 0 .. future[t][pos[t]] :
                 count' = [count EXCEPT ![t] = @ + n]
            /\ future' = [future EXCEPT ![t][pos[t]] = 0]
       ELSE UNCHANGED <<count, future>>
  /\ scanned2' = [scanned2 EXCEPT ![t] = TRUE]
  /\ Goto(t, "get")
  /\ UNCHANGED <<mainVars, storeVars, status, z, x, nx, k, thrIdx, scanned1,
                 processed, helping, strIdx, done, nestVars, faults>>

\* GetIndex: a slot that is scanned and not processed, or -2 when all are
\* processed.  It reads the flags one by one, so the slot it returns need not
\* be the first any more; when it returns -1 the caller sleeps and retries.
GetIndex(t) ==
  \/ /\ \A i \in Slots : processed[i]
     /\ z' = [z EXCEPT ![t] = -2]
  \/ \E i \in Slots :
       /\ scanned2[i] /\ ~processed[i]
       /\ z' = [z EXCEPT ![t] = i]

\* Z := GetIndex at the top of the outer loop ("get") and after a stream
\* has been processed ("getI").
Get(t) ==
  /\ pc[t] \in {"get", "getI"}
  /\ GetIndex(t)
  /\ Goto(t, IF pc[t] = "get" THEN "set" ELSE "setI")
  /\ UNCHANGED <<mainVars, storeVars, status, x, nx, k, flagVars, infoVars,
                 nestVars, faults>>

\* ThrIdx[Y] := Z.  With Z = -2 the outer loop ends at once, the inner one
\* after the helpers are seen to be idle.
SetThrIdx(t) ==
  /\ pc[t] \in {"set", "setI"}
  /\ thrIdx' = [thrIdx EXCEPT ![t] = z[t]]
  /\ k' = [k EXCEPT ![t] = 0]
  /\ Goto(t, IF z[t] >= 0 THEN "inc" ELSE IF pc[t] = "set" THEN "exit" ELSE "drain")
  /\ UNCHANGED <<mainVars, storeVars, status, z, x, nx, scanned1, scanned2,
                 processed, helping, infoVars, nestVars, faults>>

\* Mutant: Inc instead of AtomicIncrement, so that an increment can be lost.
ClaimNotAtomic(t) ==
  /\ pc[t] = "inc"
  /\ \/ strIdx' = [strIdx EXCEPT ![z[t]] = @ + 1]
     \/ UNCHANGED strIdx
  /\ x' = [x EXCEPT ![t] = strIdx[z[t]] + 1]
  /\ k' = [k EXCEPT ![t] = 0]
  /\ Goto(t, IF strIdx[z[t]] + 1 >= count[z[t]] THEN "tail"
             ELSE IF MaxDepth = 1 /\ NumThreads > 1 THEN "call" ELSE "proc")
  /\ UNCHANGED <<mainVars, storeVars, status, z, nx, flagVars, count, future,
                 done, nestVars, faults>>

\* X := AtomicIncrement(StrIdx[Z]); while X < InfoStore1[Z].Count
Claim(t) ==
  /\ pc[t] = "inc"
  /\ strIdx' = [strIdx EXCEPT ![z[t]] = @ + 1]
  /\ x' = [x EXCEPT ![t] = strIdx[z[t]] + 1]
  /\ k' = [k EXCEPT ![t] = 0]
  /\ Goto(t, IF strIdx[z[t]] + 1 >= count[z[t]] THEN "tail"
             ELSE IF MaxDepth = 1 /\ NumThreads > 1 THEN "call" ELSE "proc")
  /\ UNCHANGED <<mainVars, storeVars, status, z, nx, flagVars, count, future,
                 done, nestVars, faults>>

\* EncCallThreads(Z, Y, W), one task I = k[t] at a time under ThreadSync[I]:
\* an idle task that has no slot left to process becomes a helper.
CallHelper(t) ==
  /\ pc[t] \in {"call", "ncall"}
  /\ LET i == k[t]
         free == i # t /\ status[i] = "ready" /\ processed[i] /\ ~helping[i]
         next == IF i + 1 < NumThreads THEN pc[t]
                 ELSE IF pc[t] = "call" THEN "proc" ELSE "nproc"
     IN /\ helping' = IF free THEN [helping EXCEPT ![i] = TRUE] ELSE helping
        /\ status' = IF free THEN [status EXCEPT ![i] = "running"] ELSE status
        /\ z' = IF free THEN [z EXCEPT ![i] = IF pc[t] = "call" THEN z[t] ELSE t]
                  ELSE z
        /\ pc' = [j \in Threads |->
                    IF j = t THEN next ELSE IF free /\ j = i THEN "hinc" ELSE pc[j]]
        /\ k' = [k EXCEPT ![t] = IF i + 1 < NumThreads THEN i + 1 ELSE 0]
  /\ UNCHANGED <<mainVars, storeVars, x, nx, thrIdx, scanned1, scanned2,
                 processed, infoVars, nestVars, faults>>

\* Process(Z, X, Y, 0) without a nested round: at the last depth, or when
\* the codec does not restore the stream (Result = False).
ProcessLeaf(t) ==
  /\ pc[t] = "proc"
  /\ done' = [done EXCEPT ![z[t]] = @ \cup {x[t]}]
  /\ Goto(t, "getI")
  /\ UNCHANGED <<mainVars, storeVars, status, z, x, nx, k, flagVars, strIdx,
                 count, future, nestVars, faults>>

\* Process(Z, X, Y, 0) of a stream that is restored: EncData(Y, 1) resets
\* the task's nested round and calls EncThread(Y, 1), which finds n nested
\* streams, none as well, and in any case waits for the helpers.
ProcessNested(t) ==
  /\ pc[t] = "proc" /\ MaxDepth = 2
  /\ \E n \in 0 .. MaxNested : ncount' = [ncount EXCEPT ![t] = n]
  /\ nstr' = [nstr EXCEPT ![t] = -1]
  /\ ndone' = [ndone EXCEPT ![t] = {}]
  /\ Goto(t, "ninc")
  /\ UNCHANGED <<mainVars, storeVars, status, z, x, nx, k, flagVars, infoVars, faults>>

\* Mutant: the task does not wait for its helpers.
NestedClaimNoWait(t) ==
  /\ pc[t] = "ninc"
  /\ nstr' = [nstr EXCEPT ![t] = @ + 1]
  /\ nx' = [nx EXCEPT ![t] = nstr[t] + 1]
  /\ k' = [k EXCEPT ![t] = 0]
  /\ Goto(t, IF nstr[t] + 1 >= ncount[t] THEN "nend"
             ELSE IF NumThreads > 1 THEN "ncall" ELSE "nproc")
  /\ UNCHANGED <<mainVars, storeVars, status, z, x, flagVars, infoVars, ncount,
                 ndone, faults>>

\* X := AtomicIncrement(StrIdx[Y]); while X < InfoStore1[Y].Count, at depth 1
NestedClaim(t) ==
  /\ pc[t] = "ninc"
  /\ nstr' = [nstr EXCEPT ![t] = @ + 1]
  /\ nx' = [nx EXCEPT ![t] = nstr[t] + 1]
  /\ k' = [k EXCEPT ![t] = 0]
  /\ Goto(t, IF nstr[t] + 1 >= ncount[t] THEN "nwait"
             ELSE IF NumThreads > 1 THEN "ncall" ELSE "nproc")
  /\ UNCHANGED <<mainVars, storeVars, status, z, x, flagVars, infoVars, ncount,
                 ndone, faults>>

\* Process(Y, X, Y, 1)
NestedProcess(t) ==
  /\ pc[t] = "nproc"
  /\ ndone' = [ndone EXCEPT ![t] = @ \cup {nx[t]}]
  /\ Goto(t, "ninc")
  /\ UNCHANGED <<mainVars, storeVars, status, z, x, nx, k, flagVars, infoVars,
                 nstr, ncount, faults>>

\* while not BoolArray(Helping, False) do Sleep: the flags are read one by
\* one, from the first again when one of them is set.
AwaitHelpers(t) ==
  /\ pc[t] \in {"nwait", "tail", "drain"}
  /\ IF helping[k[t]] THEN k' = [k EXCEPT ![t] = 0] /\ UNCHANGED pc
     ELSE IF k[t] + 1 < NumSlots THEN k' = [k EXCEPT ![t] = @ + 1] /\ UNCHANGED pc
     ELSE /\ k' = [k EXCEPT ![t] = 0]
          /\ Goto(t, IF pc[t] = "nwait" THEN "nend"
                     ELSE IF pc[t] = "tail" THEN "mark" ELSE "exit")
  /\ UNCHANGED <<mainVars, storeVars, status, z, x, nx, flagVars, infoVars,
                 nestVars, faults>>

\* The rest of the nested EncData: it writes out the nested streams.
NestedEnd(t) ==
  /\ pc[t] = "nend"
  /\ done' = [done EXCEPT ![z[t]] = @ \cup {x[t]}]
  /\ Goto(t, "getI")
  /\ UNCHANGED <<mainVars, storeVars, status, z, x, nx, k, flagVars, strIdx,
                 count, future, nestVars, faults>>

\* Mutant: Processed is set for the task's own slot.
MarkOwnSlot(t) ==
  /\ pc[t] = "mark"
  /\ processed' = IF x[t] >= count[z[t]] THEN [processed EXCEPT ![t] = TRUE]
                  ELSE processed
  /\ Goto(t, "get")
  /\ UNCHANGED <<mainVars, storeVars, status, z, x, nx, k, thrIdx, scanned1,
                 scanned2, helping, infoVars, nestVars, faults>>

\* if X >= InfoStore1[Z].Count then Processed[Z] := True
MarkProcessed(t) ==
  /\ pc[t] = "mark"
  /\ processed' = IF x[t] >= count[z[t]] THEN [processed EXCEPT ![z[t]] = TRUE]
                  ELSE processed
  /\ Goto(t, "get")
  /\ UNCHANGED <<mainVars, storeVars, status, z, x, nx, k, thrIdx, scanned1,
                 scanned2, helping, infoVars, nestVars, faults>>

\* The procedure returns and Execute sets tsReady.
Exit(t) ==
  /\ pc[t] = "exit"
  /\ status' = [status EXCEPT ![t] = "ready"]
  /\ Goto(t, "idle")
  /\ UNCHANGED <<mainVars, storeVars, z, x, nx, k, flagVars, infoVars, nestVars, faults>>

-----------------------------------------------------------------------------
(* A task: EncThreadEx, the helper of task z[t] (MaxDepth = 2) or on slot  *)
(* z[t] (MaxDepth = 1)                                                     *)

HelperClaim0(t) ==
  /\ pc[t] = "hinc" /\ MaxDepth = 1
  /\ strIdx' = [strIdx EXCEPT ![z[t]] = @ + 1]
  /\ x' = [x EXCEPT ![t] = strIdx[z[t]] + 1]
  /\ Goto(t, IF strIdx[z[t]] + 1 < count[z[t]] THEN "hproc" ELSE "hend")
  /\ UNCHANGED <<mainVars, storeVars, status, z, nx, k, flagVars, count, future,
                 done, nestVars, faults>>

HelperClaim1(t) ==
  /\ pc[t] = "hinc" /\ MaxDepth = 2
  /\ nstr' = [nstr EXCEPT ![z[t]] = @ + 1]
  /\ nx' = [nx EXCEPT ![t] = nstr[z[t]] + 1]
  /\ Goto(t, IF nstr[z[t]] + 1 < ncount[z[t]] THEN "hproc" ELSE "hend")
  /\ UNCHANGED <<mainVars, storeVars, status, z, x, k, flagVars, infoVars, ncount,
                 ndone, faults>>

HelperProcess(t) ==
  /\ pc[t] = "hproc"
  /\ IF MaxDepth = 1
       THEN done' = [done EXCEPT ![z[t]] = @ \cup {x[t]}] /\ UNCHANGED ndone
       ELSE ndone' = [ndone EXCEPT ![z[t]] = @ \cup {nx[t]}] /\ UNCHANGED done
  /\ Goto(t, "hinc")
  /\ UNCHANGED <<mainVars, storeVars, status, z, x, nx, k, flagVars, strIdx,
                 count, future, nstr, ncount, faults>>

\* Mutant: the flag is not cleared when the helper failed.
HelperEndNoFinally(t) ==
  /\ pc[t] \in {"hend", "hfail"}
  /\ helping' = [helping EXCEPT ![t] = pc[t] = "hfail"]
  /\ Goto(t, IF pc[t] = "hend" THEN "exit" ELSE "hdead")
  /\ UNCHANGED <<mainVars, storeVars, status, z, x, nx, k, thrIdx, scanned1,
                 scanned2, processed, infoVars, nestVars, faults>>

\* finally: Helping[Index] := False under ThreadSync[Index]
HelperEnd(t) ==
  /\ pc[t] \in {"hend", "hfail"}
  /\ helping' = [helping EXCEPT ![t] = FALSE]
  /\ Goto(t, IF pc[t] = "hend" THEN "exit" ELSE "hdead")
  /\ UNCHANGED <<mainVars, storeVars, status, z, x, nx, k, thrIdx, scanned1,
                 scanned2, processed, infoVars, nestVars, faults>>

-----------------------------------------------------------------------------
(* Failure of a task *)

\* An exception leaves Process: EncThread does not catch it, EncThreadEx
\* runs its finally part.
Fail(t) ==
  /\ pc[t] \in {"proc", "nproc", "hproc"} /\ faults < MaxFaults
  /\ faults' = faults + 1
  /\ Goto(t, IF pc[t] = "hproc" THEN "hfail" ELSE "dead")
  /\ UNCHANGED <<mainVars, storeVars, status, z, x, nx, k, flagVars, infoVars, nestVars>>

\* Execute's except part: FErrorMsg is set, then tsErrored.
SetErrored(t) ==
  /\ pc[t] \in {"dead", "hdead"} /\ status[t] = "running"
  /\ status' = [status EXCEPT ![t] = "errored"]
  /\ UNCHANGED <<mainVars, storeVars, pc, z, x, nx, k, flagVars, infoVars,
                 nestVars, faults>>

Task(t) ==
  \/ Scan1(t) \/ PassBarrier(t) \/ Scan2(t) \/ Get(t) \/ SetThrIdx(t)
  \/ Claim(t) \/ CallHelper(t) \/ ProcessLeaf(t) \/ ProcessNested(t)
  \/ NestedClaim(t) \/ NestedProcess(t) \/ AwaitHelpers(t) \/ NestedEnd(t)
  \/ MarkProcessed(t) \/ Exit(t) \/ HelperClaim0(t) \/ HelperClaim1(t)
  \/ HelperProcess(t) \/ HelperEnd(t) \/ SetErrored(t)

\* Encode has returned or raised; the program stops.
Finished == mpc \in {"freed", "aborted"} /\ UNCHANGED vars

Next == Main \/ (\E t \in Threads : Task(t) \/ Fail(t)) \/ Finished

\* The operating system runs every thread: a thread that can take a step
\* takes one.  Nothing makes a task fail.
Fairness == WF_vars(Main) /\ \A t \in Threads : WF_vars(Task(t))

Spec == Init /\ [][Next]_vars
FairSpec == Spec /\ Fairness

-----------------------------------------------------------------------------
(* Properties *)

TypeOK ==
  /\ mpc \in MainPCs /\ mi \in Slots /\ mj \in Threads /\ written \in Nat
  /\ pos \in [Slots -> Nat] /\ findex \in Slots
  /\ intArray1 \in Moduli
  /\ status \in [Threads -> {"ready", "running", "errored"}]
  /\ pc \in [Threads -> PCs]
  /\ z \in [Threads -> Threads \cup {-2}]
  /\ x \in [Threads -> Int] /\ nx \in [Threads -> Int]
  /\ k \in [Threads -> Threads]
  /\ thrIdx \in [Threads -> Threads \cup {-2}]
  /\ scanned1 \in [Slots -> BOOLEAN] /\ scanned2 \in [Slots -> BOOLEAN]
  /\ processed \in [Threads -> BOOLEAN] /\ helping \in [Threads -> BOOLEAN]
  /\ strIdx \in [Slots -> Int] /\ count \in [Slots -> Nat]
  /\ future \in [Slots -> [Chunks -> Nat]]
  /\ nstr \in [Threads -> Int] /\ ncount \in [Threads -> Nat]
  /\ done \in [Slots -> SUBSET Int] /\ ndone \in [Threads -> SUBSET Int]
  /\ faults \in Nat

\* The main thread reads the streams, their outputs and the memory of a slot
\* without a lock while it writes the slot out (lines 2263-2443).  While it
\* does, and until the data store is refilled, no task works on a stream of
\* the slot or of an earlier one, and every stream of it has been processed.
SlotQuiet ==
  \A i \in Slots :
    (mpc \in {"emit", "loadEx"} /\ i <= mi) \/ mpc \in {"lastLoadEx", "join"} =>
      /\ \A t \in Threads : ~(Holding(t) /\ z[t] = i)
      /\ done[i] = Streams(i)

\* A stream is worked on by one task only, and never again once processed:
\* Process rewrites the stream's record and appends its data to MemOutput1.
ProcessedOnce ==
  \A t \in Threads : Holding(t) =>
    /\ x[t] \in Streams(z[t]) \ done[z[t]]
    /\ \A u \in Threads \ {t} : Holding(u) => z[u] # z[t] \/ x[u] # x[t]

\* When a task leaves the wait for its helpers, none of them is still in its
\* nested round, whose lists it reads next (EncData, depth 1) and later
\* resets; and every nested stream has been processed, but for those a helper
\* failed on.
NestedQuiet ==
  \A t \in Threads : pc[t] = "nend" =>
    /\ \A u \in Threads : ~(Assisting(u) /\ z[u] = t)
    /\ \A s \in 0 .. ncount[t] - 1 :
         \/ s \in ndone[t]
         \/ \E u \in Threads : pc[u] = "hdead" /\ z[u] = t /\ nx[u] = s

\* Chunk records are written in the order of the input, each chunk once, and
\* phantom slots write none.
InOrder == mpc = "emit" /\ HasData(mi) => written = pos[mi]

\* When a chunk is written, every stream that a scan deferred to it or to an
\* earlier one has been tried, in time for its own chunk, but for those whose
\* list is not that of the chunk's slot, as intArray1 is not the number of
\* slots: these stay in their list untried.
NoStaleFuture ==
  mpc = "emit" =>
    \A i \in Slots, c \in Chunks :
      c <= pos[mi] /\ future[i][c] # 0 => c % intArray1 # c % NumSlots

\* Encode returns without an error only when the whole input is written, and
\* then no task has failed on a stream of its slot and none is running: EncFree
\* may free the lists and the streams of the tasks.
SafeEnd ==
  mpc = "freed" =>
    /\ written = NumChunks
    /\ \A t \in Threads : pc[t] # "dead" /\ status[t] # "running"

\* A task that is started again has finished what it was started for: no
\* start is lost and no task is given two jobs.
NoLostStart == [][StartTask => pc[mj] = "idle" /\ status[mj] = "ready"]_vars

\* Every encode ends: all the waits, for the barrier, for a slot, for the
\* helpers, for ThrIdx and for the tasks, come to an end, with a failed task
\* as well.
Terminates == <>(mpc \in {"freed", "aborted"})

-----------------------------------------------------------------------------
(* The inductive invariant, for tasks that have a slot each (~LowMem) *)

AllProcessed == \A i \in Slots : processed[i]

\* The task has picked slot z[t] and published it as its ThrIdx.
Picked(t) == Holding(t) \/ pc[t] \in {"inc", "tail", "mark"}

\* The task has found all the slots processed, or helps after that.
Outside(t) ==
  \/ Assisting(t) \/ pc[t] \in {"exit", "drain", "hdead"}
  \/ pc[t] \in {"set", "setI"} /\ z[t] = -2

\* The main thread has waited for slot i in this round.
Passed(i) ==
  \/ mpc \in {"waitProc", "waitIdx"} /\ i < mi
  \/ mpc \in {"emit", "loadEx"} /\ i <= mi
  \/ mpc \in {"lastLoadEx", "join"}

\* Chunk of slot 0 in the current round, whatever LoadEx has refilled.
Base == IF findex = 0 THEN pos[0] ELSE pos[0] - NumSlots

\* The chunks of the input before the n-th one.
Clipped(n) == IF n < NumChunks THEN n ELSE NumChunks

StatusInv ==
  \A t \in Threads :
    /\ status[t] = "ready" <=> pc[t] = "idle"
    /\ status[t] = "errored" => pc[t] \in {"dead", "hdead"}

ScanInv ==
  /\ \A t \in Threads : pc[t] \in {"scan1", "barrier", "scan2"} => ~scanned2[t]
  /\ \A t \in Threads : pc[t] \notin {"idle", "scan1", "barrier"} =>
       \A i \in Slots : scanned1[i]
  /\ \A i \in Slots : scanned2[i] => \A j \in Slots : scanned1[j]
  /\ \A i \in Slots : ~scanned2[i] => strIdx[i] = -1
  /\ \A i \in Slots : processed[i] => scanned2[i] /\ strIdx[i] >= count[i]

PickInv ==
  \A t \in Threads :
    /\ Picked(t) => z[t] \in Slots /\ scanned2[z[t]] /\ thrIdx[t] = z[t]
    /\ pc[t] \in {"set", "setI"} /\ z[t] # -2 => scanned2[z[t]]
    /\ pc[t] \in {"tail", "mark"} => strIdx[z[t]] >= count[z[t]]
    /\ Assisting(t) => z[t] \in Threads
    /\ Outside(t) => AllProcessed
    /\ pc[t] = "idle" => AllProcessed \/ ~scanned2[t]
    /\ pc[t] \in {"hproc", "hfail"} => MaxDepth = 2

ClaimInv ==
  /\ \A t \in Threads : Holding(t) =>
       /\ 0 <= x[t] /\ x[t] < count[z[t]] /\ x[t] <= strIdx[z[t]]
       /\ \A u \in Threads \ {t} : Holding(u) => z[u] # z[t] \/ x[u] # x[t]
  /\ \A i \in Slots : strIdx[i] >= -1

\* The streams processed so far are the claimed ones that no task holds.
DoneInv ==
  \A i \in Slots :
    /\ done[i] \subseteq Streams(i)
    /\ \A s \in Streams(i) :
         s \in done[i] <=>
           /\ s <= strIdx[i]
           /\ \A t \in Threads : Holding(t) /\ z[t] = i => x[t] # s

MainInv ==
  /\ mpc = "start" => \A t \in Threads : t >= mj => pc[t] = "idle" /\ ~scanned1[t]
  /\ \A i \in Slots : Passed(i) =>
       processed[i] /\ \A t \in Threads : ~(Holding(t) /\ z[t] = i)
  /\ mpc = "waitIdx" =>
       processed[mi] /\ \A t \in Threads : t < mj => ~(Holding(t) /\ z[t] = mi)
  /\ mpc = "join" => \A t \in Threads : t < mj => status[t] # "running"
  /\ mpc \in {"top", "free", "freed"} =>
       \A t \in Threads : status[t] # "running" /\ ~Holding(t)

StoreInv ==
  /\ \A i \in Slots :
       pos[i] = pos[0] + i - IF findex > 0 /\ i >= findex THEN NumSlots ELSE 0
  /\ mpc \in {"waitProc", "waitIdx", "emit"} =>
       /\ findex = IF mi = 0 THEN 0 ELSE mi - 1
       /\ written = Clipped(Base + mi)
  /\ mpc = "loadEx" =>
       mi > 0 /\ findex = mi - 1 /\ written = Clipped(Base + mi + 1)
  /\ mpc = "lastLoadEx" =>
       findex = NumSlots - 1 /\ written = Clipped(Base + NumSlots)
  /\ mpc \in {"top", "start", "join", "free", "freed"} =>
       findex = 0 /\ written = Clipped(pos[0])
  /\ mpc \in {"free", "freed"} => StoreDone

IInv ==
  /\ TypeOK /\ StatusInv /\ ScanInv /\ PickInv /\ ClaimInv /\ DoneInv
  /\ MainInv /\ StoreInv

(* What the lists of deferred streams keep, next to IInv *)

RoundPCs == {"start", "waitProc", "waitIdx", "emit", "loadEx", "lastLoadEx"}

\* The slot holds the chunk of this round, and its Scan2 is over.
Confirmed(i) == scanned2[i] /\ findex <= i /\ mpc \in RoundPCs

\* A stream of chunk c, when its list i is that of the chunk's slot, can still
\* be tried: the slot has not left the chunk behind, and Scan2 is to come.
InTime(i, c) == c % NumSlots = i => c >= pos[i] /\ (Confirmed(i) => c > pos[i])

\* The main thread does not refill the data store before all scans are over,
\* so that a stream is never deferred to a chunk its slot has left behind; and
\* a slot moves on only when no stream of its chunk is left in its own list.
FutureInv ==
  /\ \A t \in Threads : pc[t] = "scan1" => ~scanned1[t]
  /\ findex > 0 => \A i \in Slots : scanned1[i]
  /\ \A i \in Slots : pos[i] % NumSlots = i
  /\ \A i \in Slots, c \in Chunks :
       future[i][c] # 0 => Listed(c, i) /\ InTime(i, c)

(* What the nested rounds keep, next to IInv *)

\* The task is in its nested EncThread.
Nested(t) == pc[t] \in {"ninc", "ncall", "nproc", "nwait", "nend"}

Helps(u, t) == Assisting(u) /\ z[u] = t

\* Depth tells the two kinds of helpers apart, and a helper's flag is set for
\* as long as it helps.
HelpInv ==
  \A t \in Threads :
    /\ pc[t] = "call" => MaxDepth = 1
    /\ Nested(t) => MaxDepth = 2
    /\ Assisting(t) => helping[t]

\* The flags are read one by one; those of the task's own helpers stay clear
\* once they have been seen clear, those of others may be set again.
WaitInv ==
  \A t, u \in Threads :
    /\ pc[t] = "nwait" /\ u < k[t] => ~Helps(u, t)
    /\ pc[t] = "nend" => ~Helps(u, t)

\* The task, or one of its helpers, works on the nested stream or has failed on it.
InHands(s, t) ==
  \/ pc[t] \in {"ncall", "nproc"} /\ nx[t] = s
  \/ \E u \in Threads : pc[u] \in {"hproc", "hfail", "hdead"} /\ z[u] = t /\ nx[u] = s

\* A nested stream that has been claimed is processed or in someone's hands.
NestedInv ==
  \A t \in Threads :
    /\ pc[t] \in {"nwait", "nend"} => nstr[t] >= ncount[t]
    /\ Nested(t) => \A s \in 0 .. ncount[t] - 1 :
         s <= nstr[t] => s \in ndone[t] \/ InHands(s, t)

HelpersInv == HelpInv /\ WaitInv /\ NestedInv

\* All that the encoder keeps and its properties follow from, proved for every
\* number of tasks and checked on two: what IInv says of slots and claims, the
\* deferred streams and the nested rounds.
EncoderInv == IInv /\ FutureInv /\ HelpersInv

=============================================================================
