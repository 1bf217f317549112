------------------------- MODULE DecodeBlockProofs -------------------------
(***************************************************************************)
(* The decoder of depth 0 for any number of tasks, archives of any size    *)
(* and any number of failures: no stream is restored twice, no task of a   *)
(* block is at work when the next one begins, and what is written is what  *)
(* the archive stands for, but for the last bytes when an error is raised. *)
(*                                                                         *)
(* Two assumptions about the archive and the levels stand where the code   *)
(* is known not to keep this: a block of one stream before the end, one    *)
(* level deep, and a failure two levels deep.                              *)
(***************************************************************************)
EXTENDS DecodeBlock, SequenceTheorems, TLAPS

\* A block of one stream is the last one of its archive.  One level deep its
\* helpers, started by DecCallThreads, are not waited for.
LoneBlocksLast ==
  \A a \in Archives : \A b \in DOMAIN a : a[b] = 1 => b = Len(a)

\* Where the error of every failure reaches the main thread: two levels deep a
\* nested DecChunk may raise the error of another task in its place.
NothingSwallowed == (MaxDepth = 1 /\ LoneBlocksLast) \/ (MaxDepth = 2 /\ MaxFaults = 0)

\* A task that is not in Restore: it waits for Perform, or has failed.
Idle(t) == pc[t] \in {"idle", "dead"}

\* The main thread tests IsErrored, or raises what it has found, before it goes
\* on to then.
Looking(then) == mpc \in {"look", "report"} /\ mret = then

\* The main thread is between two blocks; it writes one out; its block of
\* several streams is with the tasks.
Between == mpc \in {"setup", "reset", "claim"} \/ Looking("setup")
Writing == mpc \in {"await", "write"} \/ Looking("write")
InBlock == mpc \in {"start", "feed", "join"} \/ Writing

\* Before DecFree.
Reading == mpc \notin {"free", "freed"}

\* FStatus is what the task's place in its loop says.
StatusInv ==
  \A t \in Threads :
    /\ status[t] = "ready" <=> pc[t] = "idle"
    /\ status[t] = "errored" <=> pc[t] = "dead"

\* What DecChunk's place says of its loop variable, of StreamCount and BlockPos.
PhaseInv ==
  /\ Reading => IF block = 0 THEN count = 0 /\ mpc = "read" ELSE count = archive[block]
  /\ InBlock => count > 1
  /\ mpc \in {"claim", "call", "single"} => count = 1
  /\ mpc = "reset" => count > 0
  /\ Between => mj = 0
  /\ mpc = "claim" => idx = -1
  /\ mpc \in {"start", "join", "call", "free"} => mj \in Threads
  /\ mpc = "reset" /\ Multi => completed = {} /\ bpos = 0
  /\ mpc = "start" => bpos = 0
  /\ mpc = "feed" => mj < count /\ bpos = mj
  /\ Writing => mj < count /\ bpos = count
  /\ mpc = "join" => bpos = count
  /\ mpc = "call" \/ (\E t \in Threads : pc[t] = "call") => MaxDepth = 1

\* No task is at work from the end of a block to the start of the next one,
\* and WaitForAll has seen the first mj of them end.
QuietInv ==
  /\ \/ Between
     \/ mpc = "single" /\ MaxDepth = 2
     \/ mpc = "read" /\ ~(MaxDepth = 1 /\ count = 1)
     => \A t \in Threads : Idle(t)
  /\ mpc = "join" => \A t \in Threads : t < mj => Idle(t)

\* In a block of one stream a task can only be late: it takes a number beyond
\* the stream and leaves.
LateInv ==
  /\ mpc = "call" => idx >= 0
  /\ ~Multi => \A t \in Threads :
       /\ pc[t] \in {"idle", "dead", "inc", "test", "exit"}
       /\ pc[t] = "inc" => idx >= 0
       /\ pc[t] = "test" => x[t] >= 1

\* The task has a number of its own from StreamIdx.
Claimed(t) == Holding(t) \/ pc[t] = "test"

\* The numbers given out are distinct and none of them is of a completed
\* stream.
Claims ==
  /\ idx >= -1 /\ completed \subseteq 0 .. idx
  /\ \A t \in Threads : Claimed(t) =>
       /\ x[t] \in 0 .. idx /\ x[t] \notin completed
       /\ Holding(t) => x[t] < count
       /\ \A u \in Threads \ {t} : Claimed(u) => x[u] # x[t]

\* In a block of several streams this holds, but before it has been reset.
ClaimInv ==
  Multi => Claims \/ (~InBlock /\ \A t \in Threads : Idle(t))

\* A stream is restored only when it has been fed, and completed only when it
\* has been restored.
RestoreInv ==
  InBlock =>
    /\ completed \subseteq restored
    /\ \A t \in Threads :
         /\ pc[t] \in {"restore", "report", "nested"} => x[t] < bpos
         /\ pc[t] = "complete" => x[t] \in restored

\* A task that has failed has a message until the main thread takes it, and the
\* main thread is looking for one only when there is one ahead of it.
MsgInv ==
  NothingSwallowed =>
    /\ \A t \in Threads :
         /\ pc[t] # "report"
         /\ MaxFaults = 0 => pc[t] \notin {"raised", "messaged", "dead"}
         /\ Reading /\ pc[t] \in {"messaged", "dead"} => msg[t]
    /\ mpc = "report" => \E t \in Threads : t >= mk /\ msg[t]

\* The streams before the one the main thread writes are completed; so is that
\* one, or it has an error to raise.
DoneInv ==
  NothingSwallowed =>
    /\ Writing => \A s \in 0 .. mj - 1 : s \in completed
    /\ mpc = "write" => mj \in completed
    /\ mpc = "look" /\ mret = "write" => mj \in completed \/ IsErrored
    /\ mpc = "join" => \A s \in 0 .. count - 1 : s \in completed

\* How much of what is expected has been written.
WrittenTo ==
  IF mpc \in {"read", "join"} THEN Len(expected)
  ELSE Len(expected) - count + (IF Writing THEN mj ELSE 0)

\* The last thing written is not what is expected, and this has been reported.
Spoiled ==
  /\ ~Reading /\ result = "error" /\ ~Multi
  /\ Len(out) > 0 /\ out[Len(out)] = Wrong
  /\ \A i \in 1 .. Len(out) - 1 : out[i] = expected[i]

\* What has been written is what is expected, as far as that goes.
OutInv ==
  NothingSwallowed =>
    /\ Len(out) <= Len(expected)
    /\ (\A i \in 1 .. Len(out) : out[i] = expected[i]) \/ Spoiled
    /\ Reading => Len(out) = WrittenTo
    /\ Reading => \A s \in 1 .. count :
         expected[Len(expected) - count + s] = <<block, s - 1>>
    /\ Reading => count <= Len(expected)
    /\ result = "ok" => ~Reading /\ Len(out) = Len(expected) /\ block = Len(archive)

\* The inductive invariant.
IInv ==
  /\ TypeOK /\ StatusInv /\ PhaseInv /\ QuietInv /\ LateInv /\ ClaimInv /\ RestoreInv
  /\ MsgInv /\ DoneInv /\ OutInv

-----------------------------------------------------------------------------
(* The steps *)

\* What the main thread does without starting a task.
MainStep ==
  \/ ReadCount \/ Look \/ Report \/ Setup \/ Reset \/ Feed \/ Await \/ Write \/ Join
  \/ MainClaim \/ MainRestore \/ FeedError \/ FeedRaise \/ MainRestoreError

\* What a task does, its failure included.
TaskStep(t) == Task(t) \/ Fail(t)

\* Every step is one of the main thread or of one task.
LEMMA StepCases ==
  ASSUME [Next]_vars
  PROVE  \/ MainStep \/ StartTask \/ MainCall
         \/ \E t \in Threads : TaskStep(t)
         \/ UNCHANGED vars
BY DEF Next, Main, MainStep, TaskStep, Finished

\* The steps of the main thread that start no task leave the tasks alone.
LEMMA MainFrame ==
  ASSUME MainStep
  PROVE  UNCHANGED <<taskVars, status, archive>>
BY DEF MainStep, ReadCount, Look, Report, Setup, Reset, Feed, Await, Write, Join, MainClaim,
       MainRestore, FeedError, FeedRaise, MainRestoreError, mainVars, blockVars, infoVars

\* A task leaves the main thread and the block alone.
LEMMA TaskFrame ==
  ASSUME NEW t \in Threads, TaskStep(t)
  PROVE  UNCHANGED <<mainVars, blockVars>>
BY DEF TaskStep, Task, Claim, Test, Call, Wait, NestedLook, NestedReport, Restore, Complete,
       Exit, Fail, SetMessage, SetErrored

\* The threads are numbered from 0.
LEMMA ThreadNumbers ==
  /\ NumThreads \in Nat /\ NumThreads > 1 /\ 0 \in Threads
  /\ \A t \in Threads : /\ t \in Nat /\ t < NumThreads
                        /\ t + 1 < NumThreads => t + 1 \in Threads
BY ThreadsAssumption DEF Threads

\* The number of streams of a block is a number.
LEMMA Counts ==
  ASSUME TypeOK
  PROVE  /\ archive \in Seq(Nat) /\ Len(archive) \in Nat
         /\ \A b \in 1 .. Len(archive) : archive[b] \in Nat
BY BoundsAssumption DEF TypeOK, BlockTypes

-----------------------------------------------------------------------------
\* The types of the main thread's variables, of the block's, of what is written,
\* of the tasks' and of their messages, each by the steps that touch them.
LEMMA MainTypesStep ==
  ASSUME TypeOK, PhaseInv, [Next]_vars
  PROVE  MainTypes'
<1> USE ThreadNumbers DEF TypeOK, MainTypes
<1>1. CASE ReadCount \/ Look \/ Report \/ Setup \/ Reset
  BY <1>1 DEF ReadCount, Look, Report, Setup, Reset
<1>2. CASE StartTask \/ MainCall
  BY <1>2 DEF StartTask, MainCall
<1>3. CASE Feed \/ Await \/ Write \/ Join
  BY <1>3 DEF Feed, Await, Write, Join
<1>4. CASE MainClaim \/ MainRestore \/ FeedError \/ FeedRaise \/ MainRestoreError
  BY <1>4 DEF MainClaim, MainRestore, FeedError, FeedRaise, MainRestoreError
<1>5. ASSUME NEW t \in Threads, TaskStep(t) PROVE MainTypes'
  <2>1. faults' \in Nat
    BY <1>5 DEF TaskStep, Task, Claim, Test, Call, Wait, NestedLook, NestedReport, Restore,
                Complete, Exit, Fail, SetMessage, SetErrored
  <2>2. QED
    BY <1>5, <2>1, TaskFrame DEF mainVars
<1>6. CASE UNCHANGED vars
  BY <1>6 DEF vars, mainVars
<1>7. QED
  BY <1>1, <1>2, <1>3, <1>4, <1>5, <1>6, StepCases DEF MainStep

\* The block that is read is one of the archive.
LEMMA BlockTypesStep ==
  ASSUME TypeOK, PhaseInv, [Next]_vars
  PROVE  BlockTypes'
<1>1. BlockTypes /\ \A t \in Threads : x[t] \in Int
  BY DEF TypeOK, TaskTypes
<1>2. archive' = archive /\ block' \in 0 .. Len(archive)
  <2>1. CASE ReadCount
    BY <1>1, <2>1, Counts DEF ReadCount, BlockTypes
  <2>2. CASE ~ReadCount
    <3>1. UNCHANGED <<archive, block>>
      BY <2>2, StepCases, TaskFrame
         DEF MainStep, Look, Report, Setup, Reset, Feed, Await, Write, Join, MainClaim,
             MainRestore, FeedError, FeedRaise, MainRestoreError, StartTask, MainCall,
             blockVars, vars
    <3>2. QED
      BY <1>1, <3>1 DEF BlockTypes
  <2>3. QED
    BY <2>1, <2>2
<1>3. count' \in Int /\ idx' \in Int
  <2> USE <1>1 DEF BlockTypes
  <2>1. CASE ReadCount
    BY <2>1, Counts DEF ReadCount
  <2>2. CASE (MainStep /\ ~ReadCount) \/ StartTask \/ MainCall
    BY <2>2 DEF MainStep, Look, Report, Setup, Reset, Feed, Await, Write, Join, MainClaim,
                MainRestore, FeedError, FeedRaise, MainRestoreError, StartTask, MainCall,
                blockVars
  <2>3. ASSUME NEW t \in Threads, TaskStep(t) PROVE count' = count /\ idx' \in Int
    BY <2>3, TaskFrame
       DEF TaskStep, Task, Claim, Test, Call, Wait, NestedLook, NestedReport, Restore,
           Complete, Exit, Fail, SetMessage, SetErrored, blockVars
  <2>4. QED
    BY <2>1, <2>2, <2>3, StepCases DEF vars, blockVars
<1>4. bpos' \in Int
  <2> USE <1>1 DEF BlockTypes
  <2>1. CASE MainStep \/ StartTask \/ MainCall
    BY <2>1 DEF MainStep, ReadCount, Look, Report, Setup, Reset, Feed, Await, Write, Join,
                MainClaim, MainRestore, FeedError, FeedRaise, MainRestoreError, StartTask,
                MainCall, blockVars
  <2>2. QED
    BY <2>1, StepCases, TaskFrame DEF vars, blockVars
<1>5. completed' \subseteq Int /\ restored' \subseteq Int
  <2> USE <1>1 DEF BlockTypes
  <2>1. CASE MainStep \/ StartTask \/ MainCall
    BY <2>1 DEF MainStep, ReadCount, Look, Report, Setup, Reset, Feed, Await, Write, Join,
                MainClaim, MainRestore, FeedError, FeedRaise, MainRestoreError, StartTask,
                MainCall, infoVars
  <2>2. ASSUME NEW t \in Threads, TaskStep(t)
        PROVE  completed' \subseteq Int /\ restored' \subseteq Int
    BY <2>2 DEF TaskStep, Task, Claim, Test, Call, Wait, NestedLook, NestedReport, Restore,
                Complete, Exit, Fail, SetMessage, SetErrored, infoVars
  <2>3. QED
    BY <2>1, <2>2, StepCases DEF vars, infoVars
<1>6. QED
  BY <1>1, <1>2, <1>3, <1>4, <1>5 DEF BlockTypes

\* Who writes appends one place.
LEMMA WriteAdds ==
  ASSUME TypeOK, NEW p \in Places, out' = Append(out, p)
  PROVE  /\ out' \in Seq(Places) /\ Len(out') = Len(out) + 1
         /\ \A i \in 1 .. Len(out) : out'[i] = out[i]
         /\ out'[Len(out) + 1] = p
<1>1. out \in Seq(Places)
  BY DEF TypeOK, OutTypes
<1>2. QED
  BY <1>1

\* The streams of the block that is read are added to what is expected.
LEMMA ReadAdds ==
  ASSUME TypeOK, ReadCount, block < Len(archive)
  PROVE  /\ block + 1 \in 1 .. Len(archive) /\ count' \in Nat
         /\ expected' \in Seq(Places) /\ Len(expected') = Len(expected) + count'
         /\ \A i \in 1 .. Len(expected) : expected'[i] = expected[i]
         /\ \A s \in 1 .. count' : expected'[Len(expected) + s] = <<block + 1, s - 1>>
<1> DEFINE T == StreamsOf(block + 1)
<1>1. block + 1 \in 1 .. Len(archive) /\ block \in Nat
  BY Counts DEF TypeOK, BlockTypes
<1>2. count' = archive[block + 1] /\ count' \in Nat /\ expected' = expected \o T
  BY <1>1, Counts DEF ReadCount
<1>3. T = [s \in 1 .. count' |-> <<block + 1, s - 1>>]
  BY <1>2 DEF StreamsOf
<1>4. \A s \in 1 .. count' : <<block + 1, s - 1>> \in Places
  BY <1>1, <1>2 DEF Places
<1>5. T \in Seq(Places) /\ Len(T) = count' /\ \A s \in 1 .. count' : T[s] = <<block + 1, s - 1>>
  <2>1. T \in Seq(Places)
    BY <1>2, <1>3, <1>4, IsASeq
  <2>2. DOMAIN T = 1 .. count' /\ DOMAIN T = 1 .. Len(T) /\ Len(T) \in Nat
    BY <1>3, <2>1, LenProperties
  <2>3. QED
    BY <1>2, <1>3, <2>1, <2>2
<1>6. expected \in Seq(Places)
  BY DEF TypeOK, OutTypes
<1> HIDE DEF T
<1>7. expected' \in Seq(Places) /\ Len(expected') = Len(expected) + count'
  BY <1>2, <1>5, <1>6
<1>8. \A i \in 1 .. Len(expected) : expected'[i] = expected[i]
  BY <1>2, <1>5, <1>6
<1>9. \A s \in 1 .. count' : expected'[Len(expected) + s] = T[s]
  BY <1>2, <1>5, <1>6
<1>10. QED
  BY <1>1, <1>2, <1>5, <1>7, <1>8, <1>9

\* Only places of the archive are written.
LEMMA OutTypesStep ==
  ASSUME TypeOK, PhaseInv, [Next]_vars
  PROVE  OutTypes'
<1> USE DEF TypeOK, OutTypes
<1>1. CASE ReadCount
  BY <1>1, ReadAdds DEF ReadCount
<1>2. CASE Write
  <2>1. (IF mj \in restored THEN <<block, mj>> ELSE Wrong) \in Places
    BY DEF MainTypes, BlockTypes, Wrong, Places
  <2>2. QED
    BY <1>2, <2>1, WriteAdds DEF Write, blockVars
<1>3. CASE MainClaim \/ MainRestore
  <2>1. Wrong \in Places /\ <<block, 0>> \in Places
    BY DEF BlockTypes, Wrong, Places
  <2>2. QED
    BY <1>3, <2>1, WriteAdds DEF MainClaim, MainRestore, blockVars
<1>4. CASE Look \/ Report \/ Setup \/ Reset \/ StartTask \/ MainCall
  BY <1>4 DEF Look, Report, Setup, Reset, StartTask, MainCall, blockVars
<1>5. CASE Feed \/ Await \/ Join \/ FeedError \/ FeedRaise
  BY <1>5 DEF Feed, Await, Join, FeedError, FeedRaise, blockVars
<1>9. CASE MainRestoreError
  <2>1. Wrong \in Places
    BY DEF Wrong, Places
  <2>2. QED
    BY <1>9, <2>1, WriteAdds DEF MainRestoreError, blockVars
<1>6. ASSUME NEW t \in Threads, TaskStep(t) PROVE OutTypes'
  BY <1>6, TaskFrame DEF mainVars, blockVars
<1>7. CASE UNCHANGED vars
  BY <1>7 DEF vars, mainVars, blockVars
<1>8. QED
  BY <1>1, <1>2, <1>3, <1>4, <1>5, <1>6, <1>7, <1>9, StepCases DEF MainStep

\* A task's variables stay numbers.
LEMMA TaskTypesStep ==
  ASSUME TypeOK, PhaseInv, [Next]_vars
  PROVE  TaskTypes'
<1> USE ThreadNumbers DEF TypeOK, TaskTypes
<1>1. CASE MainStep
  BY <1>1, MainFrame DEF taskVars
<1>2. CASE StartTask \/ MainCall
  BY <1>2 DEF StartTask, MainCall, PhaseInv
<1>3. ASSUME NEW t \in Threads, TaskStep(t) PROVE TaskTypes'
  <2>1. CASE Call(t)
    BY <2>1 DEF Call
  <2>2. CASE Claim(t) \/ Test(t) \/ Wait(t) \/ Exit(t)
    <3>1. idx \in Int
      BY DEF BlockTypes
    <3>2. QED
      BY <2>2, <3>1 DEF Claim, Test, Wait, Exit, Goto
  <2>3. CASE NestedLook(t) \/ NestedReport(t)
    BY <2>3 DEF NestedLook, NestedReport, Goto
  <2>4. CASE Restore(t) \/ Complete(t) \/ Fail(t) \/ SetMessage(t) \/ SetErrored(t)
    BY <2>4 DEF Restore, Complete, Fail, SetMessage, SetErrored, Goto
  <2>5. QED
    BY <1>3, <2>1, <2>2, <2>3, <2>4 DEF TaskStep, Task
<1>4. CASE UNCHANGED vars
  BY <1>4 DEF vars, taskVars
<1>5. QED
  BY <1>1, <1>2, <1>3, <1>4, StepCases

\* A message is set by the task itself and taken by whoever reports it.
LEMMA MsgTypesStep ==
  ASSUME TypeOK, [Next]_vars
  PROVE  msg' \in [Threads -> BOOLEAN]
<1>1. msg' = msg \/ \E t \in Threads : \E b \in BOOLEAN : msg' = [msg EXCEPT ![t] = b]
  <2>1. CASE Report
    BY <2>1 DEF Report, TypeOK, MainTypes
  <2>2. CASE (MainStep /\ ~Report) \/ StartTask \/ MainCall
    BY <2>2 DEF MainStep, ReadCount, Look, Setup, Reset, Feed, Await, Write, Join, MainClaim,
       MainRestore, FeedError, FeedRaise, MainRestoreError, StartTask, MainCall
  <2>3. ASSUME NEW t \in Threads, NestedReport(t)
        PROVE  msg' = msg \/ \E u \in Threads : msg' = [msg EXCEPT ![u] = FALSE]
    BY <2>3 DEF NestedReport, TypeOK, TaskTypes
  <2>4. ASSUME NEW t \in Threads, TaskStep(t), ~NestedReport(t)
        PROVE  msg' = msg \/ msg' = [msg EXCEPT ![t] = TRUE]
    BY <2>4 DEF TaskStep, Task, Claim, Test, Call, Wait, NestedLook, Restore, Complete,
                Exit, Fail, SetMessage, SetErrored
  <2>5. CASE UNCHANGED vars
    BY <2>5 DEF vars
  <2>6. QED
    BY <2>1, <2>2, <2>3, <2>4, <2>5, StepCases
<1>2. msg \in [Threads -> BOOLEAN]
  BY DEF TypeOK
<1>3. QED
  BY <1>1, <1>2, Zenon

\* All types together.
LEMMA TypeStep ==
  ASSUME TypeOK, PhaseInv, [Next]_vars
  PROVE  TypeOK'
BY MainTypesStep, BlockTypesStep, OutTypesStep, TaskTypesStep, MsgTypesStep DEF TypeOK

-----------------------------------------------------------------------------
\* FStatus is set where the task's loop begins and ends, and by Perform.
LEMMA StatusStep ==
  ASSUME TypeOK, PhaseInv, StatusInv, [Next]_vars
  PROVE  StatusInv'
<1> USE DEF TypeOK, TaskTypes, StatusInv
<1>1. CASE MainStep
  BY <1>1, MainFrame DEF taskVars
<1>2. CASE StartTask \/ MainCall
  BY <1>2 DEF StartTask, MainCall, PhaseInv
<1>3. ASSUME NEW t \in Threads, TaskStep(t) PROVE StatusInv'
  <2>1. CASE Call(t)
    BY <2>1 DEF Call
  <2>2. CASE Exit(t) \/ SetErrored(t)
    BY <2>2 DEF Exit, SetErrored, Goto
  <2>3. CASE Claim(t) \/ Test(t) \/ Wait(t) \/ NestedLook(t) \/ NestedReport(t)
    BY <2>3 DEF Claim, Test, Wait, NestedLook, NestedReport, Goto
  <2>4. CASE Restore(t) \/ Complete(t) \/ Fail(t) \/ SetMessage(t)
    BY <2>4 DEF Restore, Complete, Fail, SetMessage, Goto
  <2>5. QED
    BY <1>3, <2>1, <2>2, <2>3, <2>4 DEF TaskStep, Task
<1>4. CASE UNCHANGED vars
  BY <1>4 DEF vars, taskVars
<1>5. QED
  BY <1>1, <1>2, <1>3, <1>4, StepCases

\* A task that waits for work, or has failed, takes no step.
LEMMA IdleStays ==
  ASSUME NEW t \in Threads, TaskStep(t)
  PROVE  ~Idle(t)
BY DEF TaskStep, Task, Claim, Test, Call, Wait, NestedLook, NestedReport, Restore, Complete,
       Exit, Fail, SetMessage, SetErrored, Idle

-----------------------------------------------------------------------------
\* DecChunk's loop variables at each of its places.
LEMMA PhaseStep ==
  ASSUME TypeOK, PhaseInv, QuietInv, [Next]_vars
  PROVE  PhaseInv'
<1>1. /\ count \in Int /\ block \in 0 .. Len(archive) /\ block \in Nat /\ bpos \in Int
      /\ mj \in Nat /\ (block < Len(archive) => archive[block + 1] \in Nat)
      /\ mret \in {"setup", "write"}
      /\ (block > 0 => archive[block] \in Nat)
  BY Counts DEF TypeOK, BlockTypes, MainTypes
<1>2. CASE MainStep
  <2> USE <1>1, ThreadNumbers DEF PhaseInv, Reading, Between, InBlock, Writing, Looking, Multi
  <2>1. \A t \in Threads : pc'[t] = pc[t]
    BY <1>2, MainFrame DEF taskVars
  <2>2. CASE ReadCount
    BY <2>1, <2>2 DEF ReadCount, infoVars
  <2>3. CASE Look \/ Report
    BY <2>1, <2>3 DEF Look, Report, blockVars, infoVars
  <2>4. CASE Setup
    BY <2>1, <2>4 DEF Setup
  <2>5. CASE Reset
    BY <2>1, <2>5 DEF Reset, blockVars, infoVars
  <2>6. CASE Feed \/ Await
    BY <2>1, <2>6 DEF Feed, Await, blockVars, infoVars
  <2>7. CASE Write
    BY <2>1, <2>7 DEF Write, blockVars, infoVars
  <2>8. CASE Join
    BY <2>1, <2>8 DEF Join, blockVars, infoVars
  <2>9. CASE MainClaim
    <3>1. count = 1 /\ idx = -1 /\ 1 \in Threads
      BY <2>9 DEF MainClaim
    <3>2. mj' = 1 /\ mpc' \in {"call", "single"} /\ (mpc' = "call" => MaxDepth = 1)
      BY <2>9, <3>1 DEF MainClaim
    <3>3. QED
      BY <2>1, <2>9, <3>1, <3>2 DEF MainClaim, blockVars
  <2>10. CASE MainRestore
    BY <2>1, <2>10 DEF MainRestore, blockVars
  <2>11. CASE FeedError \/ FeedRaise \/ MainRestoreError
    BY <2>1, <2>11 DEF FeedError, FeedRaise, MainRestoreError, blockVars, infoVars
  <2>12. QED
    BY <1>2, <2>2, <2>3, <2>4, <2>5, <2>6, <2>7, <2>8, <2>9, <2>10, <2>11 DEF MainStep
<1>3. CASE StartTask \/ MainCall
  <2>1. \A t \in Threads : pc'[t] = "call" => pc[t] = "call"
    BY <1>3 DEF StartTask, MainCall, TypeOK, TaskTypes, PhaseInv
  <2> USE <1>1, <2>1, ThreadNumbers DEF PhaseInv, Reading, Between, InBlock, Writing, Looking, Multi
  <2>2. CASE StartTask
    <3>1. \/ mpc' = "start" /\ mj' \in Threads
          \/ mpc' = "feed" /\ mj' = 0
      BY <2>2 DEF StartTask
    <3>2. UNCHANGED <<count, block, archive, idx, completed, bpos>> /\ mpc = "start"
      BY <2>2 DEF StartTask, blockVars, infoVars
    <3>3. QED
      BY <3>1, <3>2
  <2>3. CASE MainCall
    BY <2>3 DEF MainCall, blockVars, infoVars
  <2>4. QED
    BY <1>3, <2>2, <2>3
<1>4. ASSUME NEW t \in Threads, TaskStep(t) PROVE PhaseInv'
  <2>1. \A u \in Threads : pc'[u] = "call" => MaxDepth = 1
    <3>1. CASE Test(t)
      BY <3>1 DEF Test, Goto, PhaseInv, TypeOK, TaskTypes
    <3>2. CASE ~Test(t)
      <4>1. \A u \in Threads : pc'[u] = "call" => pc[u] = "call"
        BY <1>4, <3>2 DEF TaskStep, Task, Claim, Call, Wait, NestedLook, NestedReport,
           Restore, Complete, Exit, Fail, SetMessage, SetErrored, Goto, TypeOK, TaskTypes
      <4>2. QED
        BY <4>1 DEF PhaseInv
    <3>3. QED
      BY <3>1, <3>2
  <2>2. mpc \notin {"claim", "reset"}
    BY <1>4, IdleStays DEF QuietInv, Between
  <2>3. QED
    BY <1>4, <2>1, <2>2, TaskFrame
       DEF PhaseInv, mainVars, blockVars, Reading, Between, InBlock, Writing, Looking, Multi
<1>5. CASE UNCHANGED vars
  BY <1>5 DEF vars, mainVars, blockVars, infoVars, taskVars, PhaseInv, Reading, Between, InBlock,
              Writing, Looking, Multi
<1>6. QED
  BY <1>2, <1>3, <1>4, <1>5, StepCases

-----------------------------------------------------------------------------
\* The next block is read when no task is at work any more: only a block of one
\* stream lets tasks run on, and that is the last one.
LEMMA ReadQuiet ==
  ASSUME IInv, LoneBlocksLast \/ MaxDepth = 2, ReadCount, block < Len(archive)
  PROVE  \A t \in Threads : Idle(t)
<1>1. CASE ~(MaxDepth = 1 /\ count = 1)
  BY <1>1 DEF ReadCount, IInv, QuietInv
<1>2. CASE MaxDepth = 1 /\ count = 1
  <2>1. archive \in Archives /\ block \in 1 .. Len(archive) /\ archive[block] = 1
    BY <1>2 DEF ReadCount, IInv, PhaseInv, Reading, TypeOK, BlockTypes
  <2>2. block \in DOMAIN archive
    BY <2>1, BoundsAssumption
  <2>3. block = Len(archive)
    BY <1>2, <2>1, <2>2, DepthAssumption DEF LoneBlocksLast
  <2>4. QED
    BY <2>1, <2>3
<1>3. QED
  BY <1>1, <1>2

\* While no task is at work the main thread alone takes steps.
LEMMA QuietStep ==
  ASSUME IInv, LoneBlocksLast \/ MaxDepth = 2, [Next]_vars
  PROVE  QuietInv'
<1> USE DEF IInv
<1>1. /\ count \in Int /\ mj \in Nat /\ mret \in {"setup", "write"}
      /\ pc \in [Threads -> {"idle", "inc", "test", "call", "wait", "restore", "report",
                             "nested", "complete", "exit", "raised", "messaged", "dead"}]
  BY DEF TypeOK, BlockTypes, MainTypes, TaskTypes
<1>2. CASE MainStep
  <2>1. \A t \in Threads : Idle(t)' <=> Idle(t)
    BY <1>2, MainFrame DEF taskVars, Idle
  <2> HIDE DEF IInv
  <2> USE <2>1 DEF QuietInv, Between, Looking
  <2>2. CASE ReadCount
    <3>1. CASE block < Len(archive)
      BY <2>2, <3>1, ReadQuiet
    <3>2. CASE ~(block < Len(archive))
      BY <2>2, <3>2 DEF ReadCount
    <3>3. QED
      BY <3>1, <3>2
  <2>3. CASE Look \/ Report
    BY <1>1, <2>3 DEF Look, Report, IInv
  <2>4. CASE Setup \/ Reset
    BY <2>4 DEF Setup, Reset, IInv
  <2>5. CASE Feed \/ Await
    BY <2>5 DEF Feed, Await
  <2>6. CASE Write
    <3>1. \A t \in Threads : ~(t < 0)
      BY ThreadNumbers
    <3>2. QED
      BY <2>6, <3>1 DEF Write
  <2>7. CASE Join
    <3>1. status[mj] # "running" => Idle(mj)
      BY <2>7 DEF Join, IInv, StatusInv, PhaseInv, Idle, TypeOK, TaskTypes
    <3>2. \A t \in Threads : t < mj + 1 => t < mj \/ t = mj
      BY <1>1, ThreadNumbers
    <3>3. mj + 1 >= NumThreads => \A t \in Threads : t < mj + 1
      BY <1>1, ThreadNumbers
    <3>4. QED
      BY <1>1, <2>7, <3>1, <3>2, <3>3, ThreadNumbers DEF Join, IInv
  <2>8. CASE MainClaim \/ MainRestore
    BY <2>8, DepthAssumption DEF MainClaim, MainRestore, blockVars, IInv, PhaseInv
  <2>9. CASE FeedError \/ FeedRaise \/ MainRestoreError
    BY <2>9 DEF FeedError, FeedRaise, MainRestoreError
  <2>10. QED
    BY <1>2, <2>2, <2>3, <2>4, <2>5, <2>6, <2>7, <2>8, <2>9 DEF MainStep
<1>3. CASE StartTask \/ MainCall
  BY <1>3, ThreadNumbers, DepthAssumption
     DEF StartTask, MainCall, QuietInv, Between, Looking, PhaseInv, blockVars
<1>4. ASSUME NEW t \in Threads, TaskStep(t) PROVE QuietInv'
  <2>1. ~(mpc = "join" /\ t < mj)
    BY <1>4, IdleStays DEF QuietInv
  <2>2. CASE mpc = "join"
    \* One level deep every stream is completed by now, and nobody calls.
    <3>1. ~Call(t)
      <4>1. SUFFICES ASSUME pc[t] = "call" PROVE FALSE
        BY DEF Call
      <4>2. MaxDepth = 1 /\ NothingSwallowed
        BY <4>1, DepthAssumption DEF PhaseInv, NothingSwallowed
      <4>3. InBlock /\ Multi
        BY <2>2 DEF InBlock, PhaseInv, Multi
      <4>4. Claims
        BY <4>3 DEF ClaimInv
      <4>5. idx \in Int /\ x[t] \in 0 .. idx /\ x[t] \notin completed /\ x[t] < count
        BY <4>1, <4>4 DEF Claims, Claimed, Holding, TypeOK, BlockTypes
      <4>6. x[t] \in 0 .. count - 1
        BY <1>1, <4>5
      <4>7. QED
        BY <2>2, <4>2, <4>5, <4>6 DEF DoneInv
    <3>2. \A u \in Threads \ {t} : pc'[u] = pc[u]
      BY <1>1, <1>4, <3>1 DEF TaskStep, Task, Claim, Test, Wait, NestedLook, NestedReport,
         Restore, Complete, Exit, Fail, SetMessage, SetErrored, Goto
    <3>3. QED
      BY <1>4, <2>1, <2>2, <3>2, TaskFrame DEF mainVars, QuietInv, Idle, Between, Looking
  <2>3. CASE mpc # "join"
    <3>1. ~(\A u \in Threads : Idle(u))
      BY <1>4, IdleStays
    <3>2. QED
      BY <1>4, <2>3, <3>1, TaskFrame DEF mainVars, blockVars, QuietInv, Between, Looking
  <2>4. QED
    BY <2>2, <2>3
<1>5. CASE UNCHANGED vars
  BY <1>5 DEF vars, mainVars, blockVars, taskVars, QuietInv, Between, Looking, Idle
<1>6. QED
  BY <1>2, <1>3, <1>4, <1>5, StepCases

-----------------------------------------------------------------------------
\* A task that is late for a block of one stream finds it taken.
LEMMA LateStep ==
  ASSUME TypeOK, PhaseInv, QuietInv, LateInv, [Next]_vars
  PROVE  LateInv'
<1>1. /\ count \in Int /\ idx \in Int
      /\ pc \in [Threads -> {"idle", "inc", "test", "call", "wait", "restore", "report",
                             "nested", "complete", "exit", "raised", "messaged", "dead"}]
      /\ x \in [Threads -> Int]
  BY DEF TypeOK, BlockTypes, TaskTypes
<1>2. CASE MainStep
  <2>1. UNCHANGED <<pc, x>>
    BY <1>2, MainFrame DEF taskVars
  <2>2. CASE \A t \in Threads : Idle(t)
    <3>1. mpc' = "call" => idx' >= 0
      BY <1>1, <1>2, <2>2 DEF MainStep, ReadCount, Look, Report, Setup, Reset, Feed, Await,
         Write, Join, MainClaim, MainRestore, FeedError, FeedRaise, MainRestoreError,
         blockVars, LateInv, PhaseInv, TypeOK, MainTypes
    <3>2. QED
      BY <2>1, <2>2, <3>1 DEF LateInv, Idle
  <2>3. CASE ~ \A t \in Threads : Idle(t)
    <3>1. ~Between /\ (mpc = "read" => count = 1)
      BY <2>3 DEF QuietInv
    <3>2. idx' \in Int /\ idx' >= idx /\ mpc' # "call"
      BY <1>1, <1>2, <3>1 DEF MainStep, ReadCount, Look, Report, Setup, Reset, Feed, Await,
         Write, Join, MainClaim, MainRestore, FeedError, FeedRaise, MainRestoreError,
         blockVars, Between, Looking, TypeOK, MainTypes
    <3>3. ~Multi' => ~Multi
      BY <1>1, <1>2, <3>1 DEF MainStep, ReadCount, Look, Report, Setup, Reset, Feed, Await,
         Write, Join, MainClaim, MainRestore, FeedError, FeedRaise, MainRestoreError,
         blockVars, Multi
    <3>4. QED
      BY <1>1, <2>1, <3>2, <3>3 DEF LateInv
  <2>4. QED
    BY <2>2, <2>3
<1>3. CASE StartTask
  <2>1. Multi /\ count' = count /\ mpc' # "call"
    BY <1>3 DEF StartTask, blockVars, PhaseInv, InBlock, Multi
  <2>2. QED
    BY <2>1 DEF LateInv, Multi
<1>4. CASE MainCall
  BY <1>1, <1>4 DEF MainCall, blockVars, LateInv, Multi
<1>5. ASSUME NEW t \in Threads, TaskStep(t) PROVE LateInv'
  <2>1. count' = count /\ mpc' = mpc
    BY <1>5, TaskFrame DEF mainVars, blockVars
  <2>2. CASE ~Multi
    <3>1. Claim(t) \/ Test(t) \/ Exit(t)
      BY <1>5, <2>2 DEF LateInv, TaskStep, Task, Claim, Call, Wait, NestedLook,
         NestedReport, Restore, Complete, Exit, Fail, SetMessage, SetErrored
    <3>2. CASE Claim(t)
      BY <1>1, <2>1, <2>2, <3>2 DEF LateInv, Claim, Goto, Multi
    <3>3. CASE Test(t)
      BY <1>1, <2>1, <2>2, <3>3 DEF LateInv, Test, Goto, Multi
    <3>4. CASE Exit(t)
      BY <1>1, <2>1, <2>2, <3>4 DEF LateInv, Exit, Goto, Multi
    <3>5. QED
      BY <3>1, <3>2, <3>3, <3>4
  <2>3. CASE Multi
    <3>1. mpc # "call"
      BY <1>1, <2>3 DEF PhaseInv, Multi
    <3>2. QED
      BY <2>1, <2>3, <3>1 DEF LateInv, Multi
  <2>4. QED
    BY <2>2, <2>3
<1>6. CASE UNCHANGED vars
  BY <1>6 DEF vars, mainVars, blockVars, taskVars, LateInv, Multi
<1>7. QED
  BY <1>2, <1>3, <1>4, <1>5, <1>6, StepCases

-----------------------------------------------------------------------------
\* What the main thread does during a block leaves the claims alone.
LEMMA ClaimsFrame ==
  ASSUME Claims, UNCHANGED <<idx, completed, pc, x, count>>
  PROVE  Claims'
BY DEF Claims, Claimed, Holding

\* A task that starts has claimed nothing.
LEMMA ClaimsStart ==
  ASSUME TypeOK, Claims, UNCHANGED <<idx, completed, x, count>>, NEW t \in Threads,
         pc' = pc \/ pc' = [pc EXCEPT ![t] = "inc"]
  PROVE  Claims'
<1>1. \A u \in Threads : (Claimed(u)' => Claimed(u)) /\ (Holding(u)' => Holding(u))
  BY DEF Claimed, Holding, TypeOK, TaskTypes
<1>2. QED
  BY <1>1 DEF Claims

\* The increment of StreamIdx gives every task a number of its own.
LEMMA ClaimsTask ==
  ASSUME TypeOK, Claims, NEW t \in Threads, TaskStep(t)
  PROVE  Claims'
<1>1. /\ count \in Int /\ idx \in Int /\ completed \subseteq Int
      /\ pc \in [Threads -> {"idle", "inc", "test", "call", "wait", "restore", "report",
                             "nested", "complete", "exit", "raised", "messaged", "dead"}]
      /\ x \in [Threads -> Int]
  BY DEF TypeOK, BlockTypes, TaskTypes
<1>2. count' = count
  BY TaskFrame DEF blockVars
<1>3. CASE Claim(t)
  <2>1. /\ idx' = idx + 1 /\ completed' = completed
        /\ x' = [x EXCEPT ![t] = idx + 1] /\ pc' = [pc EXCEPT ![t] = "test"]
    BY <1>3 DEF Claim, Goto, infoVars
  <2>2. idx + 1 \notin completed /\ \A u \in Threads : Claimed(u) => x[u] # idx + 1
    BY <1>1 DEF Claims
  <2>3. \A u \in Threads \ {t} :
          x'[u] = x[u] /\ (Claimed(u)' <=> Claimed(u)) /\ (Holding(u)' <=> Holding(u))
    BY <1>1, <2>1 DEF Claimed, Holding
  <2>4. x'[t] = idx + 1 /\ ~Holding(t)'
    BY <1>1, <2>1 DEF Holding
  <2>5. QED
    BY <1>1, <1>2, <2>1, <2>2, <2>3, <2>4 DEF Claims
<1>4. CASE Test(t)
  <2>1. UNCHANGED <<idx, completed, x>>
    BY <1>4 DEF Test, infoVars
  <2>2. \A u \in Threads : (Claimed(u)' => Claimed(u)) /\ (Holding(u)' => x[u] < count)
    BY <1>1, <1>4 DEF Test, Goto, Claims, Claimed, Holding
  <2>3. QED
    BY <1>2, <2>1, <2>2 DEF Claims
<1>5. CASE Complete(t)
  <2>1. UNCHANGED <<idx, x>> /\ completed' = completed \cup {x[t]} /\ Claimed(t)
    BY <1>5 DEF Complete, Claimed, Holding
  <2>2. \A u \in Threads :
          /\ Claimed(u)' => Claimed(u) /\ u # t
          /\ Holding(u)' => Holding(u)
    BY <1>1, <1>5 DEF Complete, Goto, Claimed, Holding
  <2>3. QED
    BY <1>1, <1>2, <2>1, <2>2 DEF Claims
<1>6. CASE Exit(t)
  <2>1. UNCHANGED <<idx, completed>> /\ \A u \in Threads \ {t} : x'[u] = x[u]
    BY <1>1, <1>6 DEF Exit, infoVars
  <2>2. \A u \in Threads :
          /\ Claimed(u)' => Claimed(u) /\ u # t
          /\ Holding(u)' => Holding(u) /\ u # t
    BY <1>1, <1>6 DEF Exit, Goto, Claimed, Holding
  <2>3. QED
    BY <1>1, <1>2, <2>1, <2>2 DEF Claims
<1>7. CASE Call(t)
  <2>1. UNCHANGED <<idx, completed, x>>
    BY <1>7 DEF Call, infoVars
  <2>2. \A u \in Threads : (Claimed(u)' => Claimed(u)) /\ (Holding(u)' => Holding(u))
    BY <1>1, <1>7 DEF Call, Claimed, Holding
  <2>3. QED
    BY <1>2, <2>1, <2>2 DEF Claims
<1>8. CASE Wait(t) \/ NestedLook(t) \/ NestedReport(t) \/ Restore(t) \/ Fail(t)
           \/ SetMessage(t) \/ SetErrored(t)
  <2>1. UNCHANGED <<idx, completed, x>>
    BY <1>8 DEF Wait, NestedLook, NestedReport, Restore, Fail, SetMessage, SetErrored, infoVars
  <2>2. \A u \in Threads : (Claimed(u)' => Claimed(u)) /\ (Holding(u)' => Holding(u))
    BY <1>1, <1>8 DEF Wait, NestedLook, NestedReport, Restore, Fail, SetMessage, SetErrored,
                      Goto, Claimed, Holding
  <2>3. QED
    BY <1>2, <2>1, <2>2 DEF Claims
<1>9. QED
  BY <1>3, <1>4, <1>5, <1>6, <1>7, <1>8 DEF TaskStep, Task

\* From one block to the next no task is at work; StreamIdx begins at -1 again.
LEMMA ClaimStep ==
  ASSUME IInv, LoneBlocksLast \/ MaxDepth = 2, [Next]_vars
  PROVE  ClaimInv'
<1>1. /\ count \in Int /\ idx \in Int /\ mret \in {"setup", "write"}
      /\ PhaseInv /\ ClaimInv
  BY DEF IInv, TypeOK, BlockTypes, MainTypes
<1>2. CASE MainStep
  <2>1. UNCHANGED <<pc, x>> /\ \A t \in Threads : Idle(t)' <=> Idle(t)
    BY <1>2, MainFrame DEF taskVars, Idle
  <2>2. CASE ReadCount
    <3>1. CASE block < Len(archive)
      <4>1. ~InBlock'
        BY <2>2, <3>1 DEF ReadCount, InBlock, Writing, Looking
      <4>2. QED
        BY <2>1, <2>2, <3>1, <4>1, ReadQuiet DEF ClaimInv
    <3>2. CASE ~(block < Len(archive))
      BY <2>2, <3>2 DEF ReadCount, ClaimInv, Multi
    <3>3. QED
      BY <3>1, <3>2
  <2>3. CASE Setup
    <3>1. ~InBlock'
      BY <2>3 DEF Setup, InBlock, Writing, Looking
    <3>2. QED
      BY <2>1, <2>3, <3>1 DEF Setup, ClaimInv, IInv, QuietInv, Between
  <2>4. CASE Reset
    <3>1. (Multi' <=> Multi) /\ \A t \in Threads : Idle(t)
      BY <2>4 DEF Reset, IInv, QuietInv, Between, blockVars, Multi
    <3>2. Multi => idx' = -1 /\ completed' = {}
      BY <1>1, <2>4 DEF Reset, PhaseInv, infoVars
    <3>3. \A t \in Threads : ~Claimed(t)'
      BY <2>1, <3>1 DEF Claimed, Holding, Idle
    <3>4. Multi => Claims'
      BY <3>2, <3>3 DEF Claims
    <3>5. QED
      BY <3>1, <3>4 DEF ClaimInv
  <2>5. CASE MainClaim \/ MainRestore \/ MainRestoreError
    BY <1>1, <2>5 DEF MainClaim, MainRestore, MainRestoreError, PhaseInv, blockVars, ClaimInv,
                      Multi
  <2>6. CASE Look \/ Report \/ Feed \/ Await \/ Write \/ Join \/ FeedError \/ FeedRaise
    <3>1. UNCHANGED <<idx, completed, count>>
      BY <2>6 DEF Look, Report, Feed, Await, Write, Join, FeedError, FeedRaise, blockVars, infoVars
    <3>2. InBlock' => InBlock
      BY <1>1, <2>6 DEF Look, Report, Feed, Await, Write, Join, FeedError, FeedRaise, InBlock,
                        Writing, Looking
    <3>3. QED
      BY <1>1, <2>1, <3>1, <3>2, ClaimsFrame DEF ClaimInv, Multi
  <2>7. QED
    BY <1>2, <2>2, <2>3, <2>4, <2>5, <2>6 DEF MainStep
<1>3. CASE StartTask
  <2>1. Claims /\ mj \in Threads
    BY <1>1, <1>3 DEF StartTask, PhaseInv, InBlock, ClaimInv, Multi
  <2>2. /\ UNCHANGED <<idx, completed, x, count>>
        /\ pc' = pc \/ pc' = [pc EXCEPT ![mj] = "inc"]
    BY <1>3 DEF StartTask, blockVars, infoVars
  <2>3. QED
    BY <2>1, <2>2, ClaimsStart DEF ClaimInv, IInv
<1>4. CASE MainCall
  BY <1>1, <1>4 DEF MainCall, PhaseInv, blockVars, ClaimInv, Multi
<1>5. ASSUME NEW t \in Threads, TaskStep(t) PROVE ClaimInv'
  <2>1. Multi' <=> Multi
    BY <1>5, TaskFrame DEF blockVars, Multi
  <2>2. Multi => Claims
    BY <1>1, <1>5, IdleStays DEF ClaimInv
  <2>3. QED
    BY <1>5, <2>1, <2>2, ClaimsTask DEF ClaimInv, IInv
<1>6. CASE UNCHANGED vars
  BY <1>1, <1>6, ClaimsFrame DEF vars, mainVars, blockVars, infoVars, taskVars, ClaimInv, Multi,
     InBlock, Writing, Looking, Idle
<1>7. QED
  BY <1>2, <1>3, <1>4, <1>5, <1>6, StepCases

-----------------------------------------------------------------------------
\* A stream that a task is restoring has been fed, and a completed one restored.
LEMMA RestoreStep ==
  ASSUME IInv, [Next]_vars
  PROVE  RestoreInv'
<1>1. /\ count \in Int /\ bpos \in Int /\ mj \in Nat /\ mret \in {"setup", "write"}
      /\ pc \in [Threads -> {"idle", "inc", "test", "call", "wait", "restore", "report",
                             "nested", "complete", "exit", "raised", "messaged", "dead"}]
      /\ x \in [Threads -> Int] /\ PhaseInv /\ RestoreInv
  BY DEF IInv, TypeOK, BlockTypes, MainTypes, TaskTypes
<1>2. CASE MainStep
  <2>1. UNCHANGED <<pc, x>>
    BY <1>2, MainFrame DEF taskVars
  <2>2. CASE Reset
    <3>1. \A t \in Threads : Idle(t)
      BY <2>2 DEF Reset, IInv, QuietInv, Between
    <3>2. InBlock' => completed' = {}
      BY <1>1, <2>2 DEF Reset, PhaseInv, InBlock, Writing, Looking, infoVars
    <3>3. QED
      BY <2>1, <3>1, <3>2 DEF RestoreInv, Idle
  <2>3. CASE Feed
    <3>1. InBlock /\ bpos' = bpos + 1 /\ UNCHANGED <<completed, restored>>
      BY <2>3 DEF Feed, InBlock, infoVars
    <3>2. QED
      BY <1>1, <2>1, <3>1 DEF RestoreInv
  <2>4. CASE ReadCount \/ Setup \/ MainClaim \/ MainRestore \/ MainRestoreError
             \/ FeedError \/ FeedRaise
    <3>1. ~InBlock'
      BY <2>4 DEF ReadCount, Setup, MainClaim, MainRestore, MainRestoreError, FeedError,
                  FeedRaise, InBlock, Writing, Looking
    <3>2. QED
      BY <3>1 DEF RestoreInv
  <2>5. CASE Look \/ Report \/ Await \/ Write \/ Join
    <3>1. (InBlock' => InBlock) /\ UNCHANGED <<bpos, completed, restored>>
      BY <1>1, <2>5 DEF Look, Report, Await, Write, Join, InBlock, Writing, Looking, blockVars,
                        infoVars
    <3>2. QED
      BY <1>1, <2>1, <3>1 DEF RestoreInv
  <2>6. QED
    BY <1>2, <2>2, <2>3, <2>4, <2>5 DEF MainStep
<1>3. CASE StartTask \/ MainCall
  <2>1. (InBlock' => InBlock) /\ UNCHANGED <<bpos, completed, restored, x>>
    BY <1>3 DEF StartTask, MainCall, InBlock, Writing, Looking, blockVars, infoVars
  <2>2. \A t \in Threads : pc'[t] = pc[t] \/ pc'[t] = "inc"
    BY <1>1, <1>3 DEF StartTask, MainCall
  <2>3. QED
    BY <1>1, <2>1, <2>2 DEF RestoreInv
<1>4. ASSUME NEW t \in Threads, TaskStep(t) PROVE RestoreInv'
  <2>1. (InBlock' <=> InBlock) /\ bpos' = bpos
    BY <1>4, TaskFrame DEF mainVars, blockVars, InBlock, Writing, Looking
  <2>2. CASE Restore(t)
    <3>1. /\ UNCHANGED <<x, completed>> /\ pc' = [pc EXCEPT ![t] = "complete"]
          /\ pc[t] \in {"restore", "nested"}
      BY <2>2 DEF Restore, Goto
    <3>2. InBlock => restored' = restored \cup {x[t]}
      BY <1>1, <2>2 DEF Restore, RestoreInv
    <3>3. QED
      BY <1>1, <2>1, <3>1, <3>2 DEF RestoreInv
  <2>3. CASE Complete(t)
    BY <1>1, <2>1, <2>3 DEF Complete, Goto, RestoreInv
  <2>4. CASE Wait(t)
    BY <1>1, <2>1, <2>4 DEF Wait, Goto, RestoreInv, infoVars
  <2>5. CASE Claim(t) \/ Test(t) \/ Exit(t)
    BY <1>1, <2>1, <2>5 DEF Claim, Test, Exit, Goto, RestoreInv, infoVars
  <2>6. CASE Call(t)
    <3>1. \A u \in Threads : pc'[u] = pc[u] \/ pc'[u] \in {"inc", "call", "wait"}
      BY <1>1, <2>6 DEF Call
    <3>2. UNCHANGED <<x, infoVars>>
      BY <2>6 DEF Call
    <3>3. QED
      BY <1>1, <2>1, <3>1, <3>2 DEF RestoreInv, infoVars
  <2>7. CASE NestedLook(t) \/ NestedReport(t) \/ Fail(t) \/ SetMessage(t) \/ SetErrored(t)
    BY <1>1, <2>1, <2>7 DEF NestedLook, NestedReport, Fail, SetMessage, SetErrored, Goto,
                            RestoreInv, infoVars
  <2>8. QED
    BY <1>4, <2>2, <2>3, <2>4, <2>5, <2>6, <2>7 DEF TaskStep, Task
<1>5. CASE UNCHANGED vars
  BY <1>1, <1>5 DEF vars, mainVars, blockVars, infoVars, taskVars, RestoreInv, InBlock, Writing,
                    Looking
<1>6. QED
  BY <1>2, <1>3, <1>4, <1>5, StepCases

-----------------------------------------------------------------------------
\* An error is found by whoever looks for it: its message is there before its
\* status, and nobody but the main thread takes it away.
LEMMA MsgStep ==
  ASSUME IInv, [Next]_vars
  PROVE  MsgInv'
<1> SUFFICES ASSUME NothingSwallowed PROVE MsgInv'
  BY DEF MsgInv, NothingSwallowed
<1>1. /\ mk \in Threads /\ mk \in Nat /\ mret \in {"setup", "write"} /\ faults \in Nat
      /\ pc \in [Threads -> {"idle", "inc", "test", "call", "wait", "restore", "report",
                             "nested", "complete", "exit", "raised", "messaged", "dead"}]
      /\ msg \in [Threads -> BOOLEAN] /\ StatusInv /\ MsgInv
  BY ThreadNumbers DEF IInv, TypeOK, MainTypes, TaskTypes
<1>2. MaxDepth = 1 \/ MaxFaults = 0
  BY DEF NothingSwallowed
<1>3. \A t \in Threads : pc[t] # "report"
  BY <1>1 DEF MsgInv
<1>4. CASE Report
  <2>1. UNCHANGED <<pc>>
    BY <1>4 DEF Report, taskVars
  <2>2. PICK t \in Threads : t >= mk /\ msg[t]
    BY <1>1, <1>4 DEF Report, MsgInv
  <2>3. CASE msg[mk]
    BY <1>1, <1>4, <2>1, <2>3 DEF Report, MsgInv, Reading
  <2>4. CASE ~msg[mk]
    <3>1. t >= mk + 1 /\ mk + 1 < NumThreads
      BY <1>1, <2>2, <2>4, ThreadNumbers
    <3>2. mk' = mk + 1 /\ UNCHANGED <<mpc, msg>>
      BY <1>4, <2>4, <3>1 DEF Report
    <3>3. \E u \in Threads : u >= mk' /\ msg'[u]
      BY <2>2, <3>1, <3>2
    <3>4. QED
      BY <1>1, <2>1, <3>2, <3>3 DEF MsgInv, Reading
  <2>5. QED
    BY <2>3, <2>4
<1>5. CASE Look
  <2>1. UNCHANGED <<pc, msg>> /\ mpc = "look" /\ mk' = 0
    BY <1>5 DEF Look, taskVars
  <2>2. IsErrored => \E t \in Threads : t >= 0 /\ msg[t]
    BY <1>1, <2>1, ThreadNumbers DEF IsErrored, StatusInv, MsgInv, Reading
  <2>3. mpc' = "report" => IsErrored
    BY <1>1, <1>5 DEF Look
  <2>4. QED
    BY <1>1, <2>1, <2>2, <2>3 DEF MsgInv, Reading
<1>6. CASE MainStep /\ ~Report /\ ~Look
  <2>1. UNCHANGED <<pc, msg>>
    BY <1>6, MainFrame DEF MainStep, ReadCount, Setup, Reset, Feed, Await, Write, Join,
       MainClaim, MainRestore, FeedError, FeedRaise, MainRestoreError, taskVars
  <2>2. (Reading' => Reading) /\ mpc' # "report"
    BY <1>6 DEF MainStep, ReadCount, Setup, Reset, Feed, Await, Write, Join, MainClaim,
       MainRestore, FeedError, FeedRaise, MainRestoreError, Reading
  <2>3. QED
    BY <1>1, <2>1, <2>2 DEF MsgInv
<1>7. CASE StartTask \/ MainCall
  <2>1. \A t \in Threads : pc'[t] = pc[t] \/ pc'[t] = "inc"
    BY <1>1, <1>7 DEF StartTask, MainCall
  <2>2. UNCHANGED msg /\ (Reading' => Reading) /\ mpc' # "report"
    BY <1>7 DEF StartTask, MainCall, Reading
  <2>3. QED
    BY <1>1, <2>1, <2>2 DEF MsgInv
<1>8. ASSUME NEW t \in Threads, TaskStep(t) PROVE MsgInv'
  <2>1. UNCHANGED <<mpc, mk>>
    BY <1>8, TaskFrame DEF mainVars
  <2>2. CASE SetMessage(t)
    <3>1. msg' = [msg EXCEPT ![t] = TRUE] /\ pc' = [pc EXCEPT ![t] = "messaged"] /\ pc[t] = "raised"
      BY <2>2 DEF SetMessage, Goto
    <3>2. \A u \in Threads : msg[u] => msg'[u]
      BY <1>1, <3>1
    <3>3. msg'[t] /\ \A u \in Threads \ {t} : pc'[u] = pc[u]
      BY <1>1, <3>1
    <3>4. QED
      BY <1>1, <2>1, <3>1, <3>2, <3>3 DEF MsgInv, Reading
  <2>3. CASE ~SetMessage(t)
    <3>1. ~NestedReport(t) /\ ~NestedLook(t)
      <4>1. ~NestedReport(t)
        BY <1>3 DEF NestedReport
      <4>2. MaxFaults = 0 => ~IsErrored
        BY <1>1 DEF MsgInv, StatusInv, IsErrored
      <4>3. QED
        BY <1>2, <4>1, <4>2 DEF NestedLook
    <3>2. UNCHANGED msg
      BY <1>8, <2>3, <3>1 DEF TaskStep, Task, Claim, Test, Call, Wait, Restore, Complete,
         Exit, Fail, SetErrored
    <3>3. \A u \in Threads :
            pc'[u] \in {"messaged", "dead"} => pc[u] \in {"messaged", "dead"}
      BY <1>1, <1>8, <2>3, <3>1 DEF TaskStep, Task, Claim, Test, Call, Wait, Restore,
         Complete, Exit, Fail, SetErrored, Goto
    <3>4. \A u \in Threads :
            /\ pc'[u] # "report"
            /\ MaxFaults = 0 => pc'[u] \notin {"raised", "messaged", "dead"}
      BY <1>1, <1>8, <2>3, <3>1 DEF TaskStep, Task, Claim, Test, Call, Wait, Restore,
         Complete, Exit, Fail, SetErrored, Goto, MsgInv
    <3>5. QED
      BY <1>1, <2>1, <3>2, <3>3, <3>4 DEF MsgInv, Reading
  <2>4. QED
    BY <2>2, <2>3
<1>9. CASE UNCHANGED vars
  BY <1>1, <1>9 DEF vars, mainVars, taskVars, MsgInv, Reading
<1>10. QED
  BY <1>4, <1>5, <1>6, <1>7, <1>8, <1>9, StepCases

-----------------------------------------------------------------------------
\* What has been written was completed: the main thread goes on without that
\* only when it has an error to raise.
LEMMA DoneStep ==
  ASSUME IInv, [Next]_vars
  PROVE  DoneInv'
<1> SUFFICES ASSUME NothingSwallowed PROVE DoneInv'
  BY DEF DoneInv, NothingSwallowed
<1>1. /\ mj \in Nat /\ count \in Int /\ mret \in {"setup", "write"}
      /\ StatusInv /\ MsgInv /\ DoneInv /\ PhaseInv
  BY DEF IInv, TypeOK, MainTypes, BlockTypes
<1>2. CASE Look
  <2>1. mpc' = IF IsErrored THEN "report" ELSE mret
    BY <1>2 DEF Look
  <2>2. UNCHANGED <<mj, count, completed, mret>> /\ mpc = "look"
    BY <1>2 DEF Look, blockVars, infoVars
  <2>3. QED
    BY <1>1, <2>1, <2>2 DEF DoneInv, Writing, Looking
<1>3. CASE Report
  <2>1. PICK t \in Threads : t >= mk /\ msg[t]
    BY <1>1, <1>3 DEF Report, MsgInv
  <2>2. mpc' \in {"free", "report"}
    <3>1. ~msg[mk] => mk + 1 < NumThreads
      BY <2>1, ThreadNumbers DEF IInv, TypeOK, MainTypes
    <3>2. QED
      BY <1>3, <3>1 DEF Report
  <2>3. mpc' = "report" => mj' = mj
    BY <1>3 DEF Report
  <2>4. UNCHANGED <<count, completed, mret>> /\ mpc = "report"
    BY <1>3 DEF Report, blockVars, infoVars
  <2>5. QED
    BY <1>1, <2>2, <2>3, <2>4 DEF DoneInv, Writing, Looking
<1>4. CASE Feed
  <2>1. mpc' \in {"feed", "await"} /\ (mpc' = "await" => mj' = 0)
    BY <1>4 DEF Feed
  <2>2. QED
    BY <2>1 DEF DoneInv, Writing, Looking
<1>5. CASE Await
  <2>1. mj \in completed \/ IsErrored
    BY <1>5 DEF Await
  <2>2. /\ mpc = "await" /\ mpc' = "look" /\ mret' = "write"
        /\ UNCHANGED <<mj, count, completed, status>>
    BY <1>5 DEF Await, blockVars, infoVars
  <2>3. IsErrored' <=> IsErrored
    BY <2>2 DEF IsErrored
  <2>4. QED
    BY <1>1, <2>1, <2>2, <2>3 DEF DoneInv, Writing, Looking
<1>6. CASE Write
  <2>1. \A s \in 0 .. mj : s \in completed
    BY <1>1, <1>6 DEF Write, DoneInv, Writing
  <2>2. UNCHANGED <<completed, count>> /\ mj < count
    BY <1>1, <1>6 DEF Write, blockVars, infoVars, PhaseInv, Writing
  <2>3. \/ mpc' = "await" /\ mj' = mj + 1
        \/ mpc' = "join" /\ mj + 1 >= count
    BY <1>1, <1>6 DEF Write
  <2>4. QED
    BY <1>1, <2>1, <2>2, <2>3 DEF DoneInv, Writing, Looking
<1>7. CASE Join
  BY <1>1, <1>7 DEF Join, DoneInv, Writing, Looking, blockVars, infoVars
<1>8. CASE ReadCount \/ Setup \/ Reset \/ MainClaim \/ MainRestore \/ FeedError \/ FeedRaise
           \/ MainRestoreError \/ StartTask \/ MainCall
  <2>1. ~Writing' /\ mpc' \notin {"write", "join"} /\ ~(mpc' = "look" /\ mret' = "write")
    BY <1>8 DEF ReadCount, Setup, Reset, MainClaim, MainRestore, FeedError, FeedRaise,
                MainRestoreError, StartTask, MainCall, Writing, Looking
  <2>2. QED
    BY <2>1 DEF DoneInv
<1>9. ASSUME NEW t \in Threads, TaskStep(t) PROVE DoneInv'
  <2>1. UNCHANGED <<mpc, mret, mj, count>>
    BY <1>9, TaskFrame DEF mainVars, blockVars
  <2>2. completed \subseteq completed'
    BY <1>9 DEF TaskStep, Task, Claim, Test, Call, Wait, NestedLook, NestedReport, Restore,
       Complete, Exit, Fail, SetMessage, SetErrored, infoVars
  <2>3. IsErrored => IsErrored'
    BY <1>1, <1>9 DEF TaskStep, Task, Claim, Test, Call, Wait, NestedLook, NestedReport,
       Restore, Complete, Exit, Fail, SetMessage, SetErrored, IsErrored, StatusInv, IInv,
       TypeOK, TaskTypes
  <2>4. QED
    BY <1>1, <2>1, <2>2, <2>3 DEF DoneInv, Writing, Looking
<1>10. CASE UNCHANGED vars
  BY <1>1, <1>10 DEF vars, mainVars, blockVars, infoVars, DoneInv, Writing, Looking, IsErrored
<1>11. QED
  BY <1>2, <1>3, <1>4, <1>5, <1>6, <1>7, <1>8, <1>9, <1>10, StepCases DEF MainStep

-----------------------------------------------------------------------------
\* What is written is what is expected, stream after stream.
LEMMA OutStep ==
  ASSUME IInv, [Next]_vars
  PROVE  OutInv'
<1> SUFFICES ASSUME NothingSwallowed PROVE OutInv'
  BY DEF OutInv, NothingSwallowed
<1>1. /\ mj \in Nat /\ count \in Int /\ block \in Nat /\ mret \in {"setup", "write"}
      /\ Len(out) \in Nat /\ Len(expected) \in Nat
      /\ DoneInv /\ PhaseInv /\ OutInv /\ MsgInv /\ TypeOK
  <2>1. Len(out) \in Nat /\ Len(expected) \in Nat
    BY DEF IInv, TypeOK, OutTypes
  <2>2. QED
    BY <2>1, Counts DEF IInv, TypeOK, MainTypes, BlockTypes
<1>2. CASE ReadCount
  <2>1. mpc = "read" /\ UNCHANGED out /\ Len(out) = Len(expected)
    BY <1>1, <1>2 DEF ReadCount, OutInv, Reading, WrittenTo
  <2>2. CASE block < Len(archive)
    <3>1. mpc' = "look" /\ mret' = "setup" /\ result' = result /\ block' = block + 1
      BY <1>2, <2>2 DEF ReadCount
    <3>2. ~Writing'
      BY <3>1 DEF Writing, Looking
    <3>3. /\ count' \in Nat /\ Len(expected') = Len(expected) + count'
          /\ \A i \in 1 .. Len(expected) : expected'[i] = expected[i]
          /\ \A s \in 1 .. count' : expected'[Len(expected) + s] = <<block + 1, s - 1>>
      BY <1>1, <1>2, <2>2, ReadAdds
    <3>4. result # "ok"
      BY <1>1, <2>1 DEF OutInv, Reading
    <3>5. Len(expected') - count' = Len(expected) /\ Len(expected') >= Len(expected)
      BY <1>1, <3>3
    <3>6. \A s \in 1 .. count' : expected'[Len(expected') - count' + s] = <<block', s - 1>>
      BY <3>1, <3>3, <3>5
    <3>7. Len(out') <= Len(expected') /\ \A i \in 1 .. Len(out') : out'[i] = expected'[i]
      BY <1>1, <2>1, <3>3, <3>5 DEF OutInv, Spoiled, Reading
    <3>8. Len(out') = WrittenTo' /\ count' <= Len(expected')
      BY <1>1, <2>1, <3>1, <3>2, <3>3, <3>5 DEF WrittenTo
    <3>9. QED
      BY <3>1, <3>4, <3>6, <3>7, <3>8 DEF OutInv
  <2>3. CASE ~(block < Len(archive))
    <3>1. mpc' = "free" /\ UNCHANGED <<expected, block, archive>> /\ block = Len(archive)
      BY <1>1, <1>2, <2>3, Counts DEF ReadCount, TypeOK, BlockTypes
    <3>2. QED
      BY <1>1, <2>1, <3>1 DEF OutInv, Spoiled, Reading
  <2>4. QED
    BY <2>2, <2>3
<1>3. CASE Write
  <2>1. mpc = "write" /\ mj \in completed /\ mj \in restored
    BY <1>1, <1>3 DEF Write, DoneInv, IInv, RestoreInv, InBlock, Writing
  <2>2. out' = Append(out, <<block, mj>>) /\ UNCHANGED <<expected, count, block, result, archive>>
    BY <1>3, <2>1 DEF Write, blockVars
  <2>3. /\ Len(out') = Len(out) + 1 /\ \A i \in 1 .. Len(out) : out'[i] = out[i]
        /\ out'[Len(out) + 1] = <<block, mj>>
    <3>1. <<block, mj>> \in Places
      BY <1>1 DEF Places
    <3>2. QED
      BY <1>1, <2>2, <3>1, WriteAdds
  <2>4. Len(out) = Len(expected) - count + mj /\ mj < count /\ count <= Len(expected)
    BY <1>1, <2>1 DEF OutInv, PhaseInv, Reading, WrittenTo, Writing
  <2>5. expected[Len(out) + 1] = <<block, mj>>
    <3>1. expected[Len(expected) - count + (mj + 1)] = <<block, (mj + 1) - 1>>
      <4>1. mj + 1 \in 1 .. count
        BY <1>1, <2>4
      <4>2. \A s \in 1 .. count : expected[Len(expected) - count + s] = <<block, s - 1>>
        BY <1>1, <2>1 DEF OutInv, Reading
      <4>3. QED
        BY <4>1, <4>2
    <3>2. Len(expected) - count + (mj + 1) = Len(out) + 1 /\ (mj + 1) - 1 = mj
      BY <1>1, <2>4
    <3>3. QED
      BY <3>1, <3>2
  <2>6. Len(out') <= Len(expected) /\ \A i \in 1 .. Len(out') : out'[i] = expected[i]
    <3>1. \A i \in 1 .. Len(out) : out[i] = expected[i]
      BY <1>1, <2>1 DEF OutInv, Spoiled, Reading
    <3>2. Len(out) + 1 <= Len(expected)
      BY <1>1, <2>4
    <3>3. \A i \in 1 .. Len(out) + 1 : i \in 1 .. Len(out) \/ i = Len(out) + 1
      BY <1>1
    <3>4. QED
      BY <2>3, <2>5, <3>1, <3>2, <3>3
  <2>7. \/ mpc' = "await" /\ mj' = mj + 1
        \/ mpc' = "join" /\ mj + 1 = count
    BY <1>1, <1>3, <2>4 DEF Write
  <2>8. Len(out') = WrittenTo'
    BY <1>1, <2>2, <2>3, <2>4, <2>7 DEF WrittenTo, Writing, Looking
  <2>9. result # "ok"
    BY <1>1, <2>1 DEF OutInv, Reading
  <2>10. QED
    BY <1>1, <2>1, <2>2, <2>6, <2>7, <2>8, <2>9 DEF OutInv, Reading
<1>4. CASE MainClaim \/ MainRestore
  <2>1. count = 1 /\ Reading /\ ~Writing /\ (mpc = "claim" => idx = -1)
    BY <1>1, <1>4 DEF MainClaim, MainRestore, PhaseInv, Reading, Writing, Looking
  <2>2. Len(out) = Len(expected) - 1 /\ result # "ok"
    BY <1>1, <1>4, <2>1 DEF MainClaim, MainRestore, OutInv, WrittenTo
  <2>3. UNCHANGED <<expected, count, block, result, archive, mret>>
    BY <1>4 DEF MainClaim, MainRestore, blockVars
  <2>4. CASE MainClaim
    <3>1. UNCHANGED out /\ mpc' \in {"call", "single"}
      BY <2>1, <2>4 DEF MainClaim
    <3>2. QED
      BY <1>1, <2>1, <2>2, <2>3, <3>1 DEF OutInv, Spoiled, Reading, WrittenTo, Writing, Looking
  <2>5. CASE MainRestore
    <3>1. out' = Append(out, <<block, 0>>) /\ mpc' = "read"
      BY <2>5 DEF MainRestore
    <3>2. <<block, 0>> \in Places
      BY <1>1 DEF Places
    <3>3. /\ Len(out') = Len(out) + 1 /\ \A i \in 1 .. Len(out) : out'[i] = out[i]
          /\ out'[Len(out) + 1] = <<block, 0>>
      BY <1>1, <3>1, <3>2, WriteAdds
    <3>4. expected[Len(out) + 1] = <<block, 0>>
      <4>1. expected[Len(expected) - count + 1] = <<block, 1 - 1>>
        BY <2>1, <1>1 DEF OutInv
      <4>2. Len(expected) - count + 1 = Len(out) + 1 /\ 1 - 1 = 0
        BY <1>1, <2>1, <2>2
      <4>3. QED
        BY <4>1, <4>2
    <3>5. Len(out') = Len(expected) /\ \A i \in 1 .. Len(out') : out'[i] = expected[i]
      BY <1>1, <2>1, <2>2, <3>3, <3>4 DEF OutInv, Spoiled
    <3>6. QED
      BY <1>1, <2>1, <2>2, <2>3, <3>1, <3>5 DEF OutInv, Reading, WrittenTo
  <2>6. QED
    BY <1>4, <2>4, <2>5
<1>5. CASE FeedError \/ FeedRaise
  <2>1. /\ mpc = "feed" /\ mpc' = "free" /\ result' \in {"error", "raised"}
        /\ UNCHANGED <<out, expected>>
    BY <1>5 DEF FeedError, FeedRaise, blockVars
  <2>2. QED
    BY <1>1, <2>1 DEF OutInv, Spoiled, Reading
<1>11. CASE MainRestoreError
  <2>1. /\ mpc = "single" /\ mpc' = "free" /\ result' = "error" /\ count = 1
        /\ UNCHANGED <<expected, count>> /\ out' \in {out, Append(out, Wrong)}
    BY <1>1, <1>11 DEF MainRestoreError, blockVars, PhaseInv
  <2>2. Len(out) = Len(expected) - 1 /\ \A i \in 1 .. Len(out) : out[i] = expected[i]
    BY <1>1, <2>1 DEF OutInv, Spoiled, Reading, WrittenTo, Writing, Looking
  <2>3. CASE out' = out
    BY <1>1, <2>1, <2>2, <2>3 DEF OutInv, Reading
  <2>4. CASE out' = Append(out, Wrong)
    <3>1. Wrong \in Places
      BY DEF Wrong, Places
    <3>2. /\ Len(out') = Len(out) + 1 /\ \A i \in 1 .. Len(out) : out'[i] = out[i]
          /\ out'[Len(out) + 1] = Wrong
      BY <1>1, <2>4, <3>1, WriteAdds
    <3>3. Spoiled'
      BY <1>1, <2>1, <2>2, <3>2 DEF Spoiled, Reading, Multi
    <3>4. QED
      BY <1>1, <2>1, <2>2, <3>2, <3>3 DEF OutInv, Reading
  <2>5. QED
    BY <2>1, <2>3, <2>4
<1>6. CASE Report
  <2>1. PICK t \in Threads : t >= mk /\ msg[t]
    BY <1>1, <1>6 DEF Report, MsgInv
  <2>2. \/ mpc' = "free" /\ result' = "error"
        \/ UNCHANGED <<mpc, mj, mret, result>>
    <3>1. ~msg[mk] => mk + 1 < NumThreads
      BY <1>1, <2>1, ThreadNumbers DEF TypeOK, MainTypes
    <3>2. QED
      BY <1>6, <3>1 DEF Report
  <2>3. UNCHANGED <<out, expected, block, archive, count>> /\ mpc = "report"
    BY <1>6 DEF Report, blockVars
  <2>4. QED
    BY <1>1, <2>2, <2>3 DEF OutInv, Spoiled, Reading, WrittenTo, Writing, Looking
<1>7. CASE Look \/ Setup \/ Reset \/ StartTask \/ Feed \/ Await \/ MainCall \/ Join
  <2>1. UNCHANGED <<out, expected, block, archive, count, result>>
    BY <1>7 DEF Look, Setup, Reset, StartTask, Feed, Await, MainCall, Join, blockVars
  <2>2. Reading => WrittenTo' = WrittenTo
    <3>1. CASE Look
      BY <2>1, <3>1 DEF Look, WrittenTo, Writing, Looking, IInv, TypeOK, MainTypes
    <3>2. CASE Setup
      BY <1>1, <2>1, <3>2 DEF Setup, WrittenTo, Writing, Looking
    <3>3. CASE Reset \/ StartTask \/ MainCall
      BY <1>1, <2>1, <3>3 DEF Reset, StartTask, MainCall, WrittenTo, Writing, Looking
    <3>4. CASE Feed \/ Await
      BY <1>1, <2>1, <3>4 DEF Feed, Await, WrittenTo, Writing, Looking
    <3>5. CASE Join
      BY <1>1, <2>1, <3>5 DEF Join, WrittenTo, Writing, Looking, Reading
    <3>6. QED
      BY <1>7, <3>1, <3>2, <3>3, <3>4, <3>5
  <2>3. Reading' <=> Reading
    BY <1>1, <1>7 DEF Look, Setup, Reset, StartTask, Feed, Await, MainCall, Join, Reading
  <2>4. QED
    BY <1>1, <2>1, <2>2, <2>3 DEF OutInv, Spoiled, Multi
<1>8. ASSUME NEW t \in Threads, TaskStep(t) PROVE OutInv'
  BY <1>1, <1>8, TaskFrame DEF mainVars, blockVars, OutInv, Spoiled, Multi, Reading,
     WrittenTo, Writing, Looking
<1>9. CASE UNCHANGED vars
  BY <1>1, <1>9 DEF vars, mainVars, blockVars, OutInv, Spoiled, Multi, Reading, WrittenTo,
     Writing, Looking
<1>10. QED
  BY <1>2, <1>3, <1>4, <1>5, <1>6, <1>7, <1>8, <1>9, <1>11, StepCases DEF MainStep

-----------------------------------------------------------------------------
\* The invariant holds in every behaviour, whatever the number of tasks, the
\* archive and the failures.
THEOREM Inductive ==
  ASSUME LoneBlocksLast \/ MaxDepth = 2
  PROVE  Spec => []IInv
<1>1. Init => IInv
  <2> SUFFICES ASSUME Init PROVE IInv
    OBVIOUS
  <2> USE DEF Init
  <2>1. TypeOK
    <3>1. MainTypes /\ OutTypes
      BY ThreadNumbers DEF MainTypes, OutTypes
    <3>2. BlockTypes
      BY BoundsAssumption DEF BlockTypes
    <3>3. TaskTypes
      BY ThreadNumbers DEF TaskTypes
    <3>4. msg \in [Threads -> BOOLEAN]
      OBVIOUS
    <3>5. QED
      BY <3>1, <3>2, <3>3, <3>4 DEF TypeOK
  <2>2. StatusInv /\ PhaseInv
    BY DEF StatusInv, PhaseInv, Between, InBlock, Writing, Looking, Reading
  <2>3. QuietInv /\ LateInv /\ ClaimInv /\ RestoreInv
    BY DEF QuietInv, LateInv, ClaimInv, RestoreInv, InBlock, Writing, Looking, Idle, Multi
  <2>4. MsgInv /\ DoneInv
    BY DEF MsgInv, DoneInv, Writing, Looking
  <2>5. OutInv
    BY DEF OutInv, WrittenTo, Reading
  <2>6. QED
    BY <2>1, <2>2, <2>3, <2>4, <2>5 DEF IInv
<1>2. IInv /\ [Next]_vars => IInv'
  BY TypeStep, StatusStep, PhaseStep, QuietStep, LateStep, ClaimStep, RestoreStep, MsgStep,
     DoneStep, OutStep DEF IInv
<1>3. QED
  BY <1>1, <1>2, PTL DEF Spec

\* Every variable of the decoder keeps its type.
THEOREM TypeCorrect ==
  ASSUME LoneBlocksLast \/ MaxDepth = 2
  PROVE  Spec => []TypeOK
BY Inductive, PTL DEF IInv

\* No stream is held by two tasks, or by one after it has been completed: the
\* increment of StreamIdx in Restore gives every stream to one task.
THEOREM StreamsRestoredOnce ==
  ASSUME LoneBlocksLast \/ MaxDepth = 2
  PROVE  Spec => []RestoredOnce
<1>1. IInv => RestoredOnce
  <2> SUFFICES ASSUME IInv, NEW t \in Threads, Holding(t)
               PROVE  /\ x[t] \notin completed
                      /\ \A u \in Threads \ {t} : Holding(u) => x[u] # x[t]
    BY DEF RestoredOnce
  <2>1. Multi /\ ~Idle(t)
    BY DEF IInv, LateInv, Holding, Idle
  <2>2. Claims
    BY <2>1 DEF IInv, ClaimInv
  <2>3. QED
    BY <2>2 DEF Claims, Claimed
<1>2. QED
  BY <1>1, Inductive, PTL

\* When DecChunk sets up the next block, no task is still in Restore with
\* the last one's StreamInfo.
THEOREM BlocksAreQuiet ==
  ASSUME LoneBlocksLast \/ MaxDepth = 2
  PROVE  Spec => []BlockQuiet
<1>1. IInv => BlockQuiet
  BY DEF IInv, QuietInv, BlockQuiet, Between, Looking, Idle
<1>2. QED
  BY <1>1, Inductive, PTL

\* Without its last place a sequence has all places before it.
LEMMA FrontOf ==
  ASSUME NEW S, NEW s \in Seq(S), s # <<>>
  PROVE  /\ Front(s) \in Seq(S) /\ Len(Front(s)) = Len(s) - 1
         /\ \A i \in 1 .. Len(s) - 1 : Front(s)[i] = s[i]
<1> DEFINE n == Len(s) - 1
<1>1. n \in Nat /\ n = Len(s) - 1
  BY EmptySeq
<1>2. \A i \in 1 .. n : s[i] \in S
  OBVIOUS
<1> HIDE DEF n
<1>3. n - 1 + 1 = n /\ \A i \in 1 .. n : 1 + i - 1 = i
  BY <1>1
<1>4. 1 <= n \/ n = 0
  BY <1>1
<1>5. /\ SubSeq(s, 1, n) \in Seq(S)
      /\ Len(SubSeq(s, 1, n)) = IF 1 <= n THEN n - 1 + 1 ELSE 0
      /\ \A i \in 1 .. n - 1 + 1 : SubSeq(s, 1, n)[i] = s[1 + i - 1]
  <2>1. 1 \in Int /\ n \in Int
    BY <1>1
  <2>2. QED
    BY <1>2, <2>1, SubSeqProperties, SMTT(30)
<1>6. \A i \in 1 .. n : SubSeq(s, 1, n)[i] = s[i]
  BY <1>3, <1>5, Zenon
<1>7. Len(SubSeq(s, 1, n)) = n
  BY <1>3, <1>4, <1>5, Zenon
<1>8. Front(s) = SubSeq(s, 1, n)
  BY <1>1 DEF Front
<1>9. QED
  BY <1>1, <1>5, <1>6, <1>7, <1>8, Zenon

\* A sequence that agrees with a longer one in all its places is a prefix of it.
LEMMA PrefixOf ==
  ASSUME NEW S, NEW s \in Seq(S), NEW t \in Seq(S), Len(s) <= Len(t),
         \A i \in 1 .. Len(s) : s[i] = t[i]
  PROVE  IsPrefix(s, t)
<1>1. SubSeq(s, 1, Len(s)) = SubSeq(t, 1, Len(s))
  OBVIOUS
<1>2. QED
  BY <1>1 DEF IsPrefix

\* What has been written is the beginning of what the blocks read so far stand
\* for: DecChunk writes a stream only when it has been completed, and completed
\* means restored.  The exception is the stream that the main thread restores
\* straight into the output: when that fails its bytes are there, the last of
\* all, and the error is raised.
THEOREM WrongOutputIsReported ==
  ASSUME NothingSwallowed
  PROVE  Spec => []WrongIsReported
<1>1. LoneBlocksLast \/ MaxDepth = 2
  BY DEF NothingSwallowed
<1>2. IInv => WrongIsReported
  <2> SUFFICES ASSUME IInv PROVE WrongIsReported
    OBVIOUS
  <2>1. out \in Seq(Places) /\ expected \in Seq(Places)
    BY DEF IInv, TypeOK, OutTypes
  <2>2. Len(out) <= Len(expected) /\ ((\A i \in 1 .. Len(out) : out[i] = expected[i]) \/ Spoiled)
    BY DEF IInv, OutInv
  <2>3. CASE \A i \in 1 .. Len(out) : out[i] = expected[i]
    <3>1. SubSeq(out, 1, Len(out)) = SubSeq(expected, 1, Len(out))
      BY <2>1, <2>2, <2>3
    <3>2. QED
      BY <2>2, <3>1 DEF IsPrefix, WrongIsReported
  <2>4. CASE Spoiled
    <3>1. /\ result = "error" /\ ~Multi /\ out[Len(out)] = Wrong
          /\ Len(out) - 1 \in Nat /\ Len(out) - 1 <= Len(expected)
          /\ \A i \in 1 .. Len(out) - 1 : out[i] = expected[i]
      BY <2>1, <2>2, <2>4 DEF Spoiled
    <3>2. out # <<>> /\ Last(out) = Wrong
      BY <2>1, <2>4, <3>1 DEF Spoiled, Last
    <3>3. /\ Front(out) \in Seq(Places) /\ Len(Front(out)) = Len(out) - 1
          /\ \A i \in 1 .. Len(out) - 1 : Front(out)[i] = out[i]
      BY <2>1, <3>2, FrontOf
    <3>4. \A i \in 1 .. Len(Front(out)) : Front(out)[i] = expected[i]
      BY <3>1, <3>3
    <3>5. Len(Front(out)) <= Len(expected)
      BY <3>1, <3>3
    <3>6. IsPrefix(Front(out), expected)
      BY <2>1, <3>3, <3>4, <3>5, PrefixOf
    <3>7. QED
      BY <3>1, <3>2, <3>6 DEF WrongIsReported
  <2>5. QED
    BY <2>2, <2>3, <2>4
<1>3. QED
  BY <1>1, <1>2, Inductive, PTL

\* When Decode ends without an error, all of the archive has been written,
\* each stream once and in order.
THEOREM DecodingIsBitExact ==
  ASSUME NothingSwallowed
  PROVE  Spec => []BitExact
<1>1. LoneBlocksLast \/ MaxDepth = 2
  BY DEF NothingSwallowed
<1>2. IInv => BitExact
  <2> SUFFICES ASSUME IInv, result = "ok" PROVE out = expected /\ block = Len(archive)
    BY DEF BitExact
  <2>1. out \in Seq(Places) /\ expected \in Seq(Places)
    BY DEF IInv, TypeOK, OutTypes
  <2>2. /\ Len(out) = Len(expected) /\ \A i \in 1 .. Len(out) : out[i] = expected[i]
        /\ block = Len(archive)
    BY DEF IInv, OutInv, Spoiled
  <2>3. QED
    BY <2>1, <2>2, SeqEqual
<1>3. QED
  BY <1>1, <1>2, Inductive, PTL
=============================================================================
