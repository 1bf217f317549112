---------------------------- MODULE DecodeBlock ----------------------------
(***************************************************************************)
(* The multi-threaded decoder of precompressor/PrecompMain.pas, depth 0.   *)
(*                                                                         *)
(* The main thread (DecChunk) reads block after block.  For a block of     *)
(* several streams it starts the tasks and feeds the streams into MemInput *)
(* (BlockPos says how far it is); the tasks share the streams by atomic    *)
(* increments of StreamIdx (Restore), and the main thread writes them out  *)
(* in order as they are Completed.  A block of one stream is restored by   *)
(* the main thread itself.  Only one level deep, whoever has claimed a     *)
(* stream also starts the tasks that are ready (DecCallThreads).           *)
(*                                                                         *)
(* A stream is its number in the block, and its bytes in MemInput are      *)
(* either those read from the archive or the restored ones.  BlockPos      *)
(* counts streams.  With two levels the nested DecChunk of a stream only   *)
(* appears with what it does to the tasks: it may raise the error of       *)
(* another task.                                                           *)
(***************************************************************************)
EXTENDS Integers, SequencesExt

CONSTANTS
  NumThreads,  \* Options.Threads: Length(Tasks)
  MaxDepth,    \* Options.Depth: Length(ComVars2), 1 or 2 levels here
  Archives,    \* the archives looked at: the StreamCount of each block
  MaxFaults,   \* bound: exceptions and short reads
  InputRaises  \* DecInput.Read may raise, not only return less

ASSUME ThreadsAssumption == NumThreads \in Nat \ {0, 1}
ASSUME DepthAssumption   == MaxDepth \in {1, 2}
ASSUME BoundsAssumption  ==
  Archives \subseteq Seq(Nat) /\ MaxFaults \in Nat /\ InputRaises \in BOOLEAN

Threads == 0 .. NumThreads - 1

VARIABLES
  mpc,       \* where the main thread is in DecChunk
  mj,        \* its loop variable: J over the streams, I over the tasks
  mk,        \* its loop variable I over the tasks in RaiseLastError
  mret,      \* where it goes on after RaiseLastError of every task
  archive,   \* the StreamCount of each block of the archive
  block,     \* how many blocks have been read
  count,     \* StreamCount[0]^
  idx,       \* StreamIdx[0]^
  bpos,      \* BlockPos[0]^
  completed, \* StreamInfo[0]^.Completed
  restored,  \* streams whose restored bytes are in MemInput
  out,       \* what has been written: <<block, stream>>, or Wrong for bytes
             \* that are not a restored stream, a part of one for instance
  expected,  \* history: what must be written for the blocks read so far
  result,    \* how Decode ends: "none" so far, "ok", "error" or, when the input
             \* has raised, "raised"
  status,    \* TTask.FStatus
  msg,       \* TTask.FErrorMsg is not empty
  pc,        \* where the task is in Restore
  index1,    \* the Index1 it was started with
  x,         \* its local X
  k,         \* its loop variable in DecCallThreads
  faults     \* exceptions and short reads so far

mainVars == <<mpc, mj, mk, mret, out, result>>
blockVars == <<archive, block, count, bpos, expected>>
infoVars == <<completed, restored>>
taskVars == <<pc, index1, x, k>>
vars == <<mainVars, blockVars, idx, infoVars, taskVars, status, msg, faults>>

Wrong == <<-1, -1>>

Multi == count > 1
IsErrored == \E t \in Threads : status[t] = "errored"

\* What block b must become: each of its streams, in order.
StreamsOf(b) == [s \in 1 .. archive[b] |-> <<b, s - 1>>]

Init ==
  /\ mpc = "read" /\ mj = 0 /\ mk = 0 /\ mret = "setup"
  /\ archive \in Archives /\ block = 0 /\ count = 0 /\ idx = 0 /\ bpos = 0
  /\ completed = {} /\ restored = {}
  /\ out = <<>> /\ expected = <<>> /\ result = "none"
  /\ status = [t \in Threads |-> "ready"]
  /\ msg = [t \in Threads |-> FALSE]
  /\ pc = [t \in Threads |-> "idle"]
  /\ index1 = [t \in Threads |-> t]
  /\ x = [t \in Threads |-> 0]
  /\ k = [t \in Threads |-> 0]
  /\ faults = 0

-----------------------------------------------------------------------------
(* The main thread: DecChunk at depth 0, and DecFree *)

\* ReadBuffer of StreamCount; -1 ends the loop.
ReadCount ==
  /\ mpc = "read"
  /\ IF block < Len(archive)
       THEN /\ block' = block + 1 /\ count' = archive[block + 1]
            /\ expected' = expected \o StreamsOf(block + 1)
            /\ mpc' = "look" /\ mret' = "setup"
            /\ UNCHANGED result
       ELSE /\ count' = -1
            /\ mpc' = "free" /\ result' = "ok"
            /\ UNCHANGED <<block, expected, mret>>
  /\ mj' = 0
  /\ UNCHANGED <<mk, out, archive, bpos, idx, infoVars, taskVars, status, msg, faults>>

\* if IsErrored(Tasks) then RaiseLastError of each task
Look ==
  /\ mpc = "look"
  /\ mpc' = IF IsErrored THEN "report" ELSE mret
  /\ mk' = 0
  /\ UNCHANGED <<mj, mret, out, result, blockVars, idx, infoVars, taskVars, status,
                 msg, faults>>

\* RaiseLastError of one task after the other: the first message found is
\* cleared and raised; when there is none, the main thread goes on.
Report ==
  /\ mpc = "report"
  /\ IF msg[mk]
       THEN /\ msg' = [msg EXCEPT ![mk] = FALSE]
            /\ mpc' = "free" /\ mj' = 0 /\ result' = "error"
            /\ UNCHANGED mk
       ELSE /\ IF mk + 1 < NumThreads THEN mk' = mk + 1 /\ UNCHANGED mpc
               ELSE mk' = 0 /\ mpc' = mret
            /\ UNCHANGED <<mj, msg, result>>
  /\ UNCHANGED <<mret, out, blockVars, idx, infoVars, taskVars, status, faults>>

\* The headers of the block are read; a block of several streams resets
\* BlockPos and the Completed flags.
Setup ==
  /\ mpc = "setup"
  /\ mpc' = IF count = 0 THEN "read" ELSE "reset"
  /\ IF count > 0 THEN restored' = {} ELSE UNCHANGED restored
  /\ IF Multi THEN bpos' = 0 /\ completed' = {} ELSE UNCHANGED <<bpos, completed>>
  /\ UNCHANGED <<mj, mk, mret, out, result, archive, block, count, expected, idx, taskVars, status,
                 msg, faults>>

\* Mutant: StreamIdx is not reset for the next block.
ResetForgotten ==
  /\ mpc = "reset"
  /\ idx' = IF block = 1 THEN -1 ELSE idx
  /\ mpc' = IF Multi THEN "start" ELSE "claim"
  /\ UNCHANGED <<mj, mk, mret, out, result, blockVars, infoVars, taskVars, status, msg,
                 faults>>

\* StreamIdx[Index]^ := -1
Reset ==
  /\ mpc = "reset"
  /\ idx' = -1
  /\ mpc' = IF Multi THEN "start" ELSE "claim"
  /\ UNCHANGED <<mj, mk, mret, out, result, blockVars, infoVars, taskVars, status, msg,
                 faults>>

\* Update, Perform and Start of a task.  One that another task has started
\* meanwhile goes on with that.
StartTask ==
  /\ mpc = "start"
  /\ status' = [status EXCEPT ![mj] = "running"]
  /\ IF pc[mj] \in {"idle", "dead"}
       THEN pc' = [pc EXCEPT ![mj] = "inc"] /\ index1' = [index1 EXCEPT ![mj] = mj]
       ELSE UNCHANGED <<pc, index1>>
  /\ IF mj + 1 < NumThreads THEN mj' = mj + 1 /\ UNCHANGED mpc
     ELSE mj' = 0 /\ mpc' = "feed"
  /\ UNCHANGED <<mk, mret, out, result, blockVars, idx, infoVars, x, k, msg, faults>>

\* CopyStream of stream J into MemInput, then Inc(BlockPos).
Feed ==
  /\ mpc = "feed"
  /\ bpos' = bpos + 1
  /\ IF mj + 1 < count THEN mj' = mj + 1 /\ UNCHANGED mpc
     ELSE mj' = 0 /\ mpc' = "await"
  /\ UNCHANGED <<mk, mret, out, result, archive, block, count, expected, idx, infoVars, taskVars,
                 status, msg, faults>>

\* The archive is too short: BlockPos := -1, and EReadError.
FeedError ==
  /\ mpc = "feed" /\ faults < MaxFaults
  /\ bpos' = -1
  /\ faults' = faults + 1
  /\ mpc' = "free" /\ mj' = 0 /\ result' = "error"
  /\ UNCHANGED <<mk, mret, out, archive, block, count, expected, idx, infoVars, taskVars,
                 status, msg>>

\* DecInput.Read itself raises: BlockPos stays as it is.
FeedRaise ==
  /\ mpc = "feed" /\ faults < MaxFaults /\ InputRaises
  /\ faults' = faults + 1
  /\ mpc' = "free" /\ mj' = 0 /\ result' = "raised"
  /\ UNCHANGED <<mk, mret, out, blockVars, idx, infoVars, taskVars, status, msg>>

\* Mutant: the main thread does not wait for the stream.
AwaitNothing ==
  /\ mpc = "await"
  /\ mpc' = "look" /\ mret' = "write"
  /\ UNCHANGED <<mj, mk, out, result, blockVars, idx, infoVars, taskVars, status, msg,
                 faults>>

\* while not Completed[J] and not IsErrored(Tasks) do Sleep
Await ==
  /\ mpc = "await" /\ (mj \in completed \/ IsErrored)
  /\ mpc' = "look" /\ mret' = "write"
  /\ UNCHANGED <<mj, mk, out, result, blockVars, idx, infoVars, taskVars, status, msg,
                 faults>>

\* WriteBuffer of the stream's place in MemInput, whatever is in it.
Write ==
  /\ mpc = "write"
  /\ out' = Append(out, IF mj \in restored THEN <<block, mj>> ELSE Wrong)
  /\ IF mj + 1 < count THEN mj' = mj + 1 /\ mpc' = "await"
     ELSE mj' = 0 /\ mpc' = "join"
  /\ UNCHANGED <<mk, mret, result, blockVars, idx, infoVars, taskVars, status, msg, faults>>

\* Mutant: no WaitForAll after a block.
NoJoin ==
  /\ mpc \in {"join", "free"}
  /\ mj' = 0 /\ mpc' = IF mpc = "join" THEN "read" ELSE "freed"
  /\ UNCHANGED <<mk, mret, out, result, blockVars, idx, infoVars, taskVars, status, msg,
                 faults>>

\* WaitForAll(Tasks), after a block of several streams and in DecFree.
Join ==
  /\ mpc \in {"join", "free"} /\ status[mj] # "running"
  /\ IF mj + 1 < NumThreads THEN mj' = mj + 1 /\ UNCHANGED mpc
     ELSE mj' = 0 /\ mpc' = IF mpc = "join" THEN "read" ELSE "freed"
  /\ UNCHANGED <<mk, mret, out, result, blockVars, idx, infoVars, taskVars, status, msg,
                 faults>>

\* Restore(False): X := AtomicIncrement(StreamIdx); while X < StreamCount.
\* When somebody else has taken the stream the main thread does not read it
\* from the archive: what it reads next is not what it takes it for.
MainClaim ==
  /\ mpc = "claim"
  /\ idx' = idx + 1
  /\ mj' = 1
  /\ IF idx + 1 < count
       THEN /\ mpc' = IF MaxDepth = 1 THEN "call" ELSE "single"
            /\ UNCHANGED out
       ELSE mpc' = "read" /\ out' = Append(out, Wrong)
  /\ UNCHANGED <<mk, mret, result, blockVars, infoVars, taskVars, status, msg, faults>>

\* DecCallThreads(0, 0): every other task that is ready is started.
MainCall ==
  /\ mpc = "call"
  /\ IF status[mj] = "ready"
       THEN /\ status' = [status EXCEPT ![mj] = "running"]
            /\ pc' = [pc EXCEPT ![mj] = "inc"] /\ index1' = [index1 EXCEPT ![mj] = 0]
       ELSE UNCHANGED <<status, pc, index1>>
  /\ IF mj + 1 < NumThreads THEN mj' = mj + 1 /\ UNCHANGED mpc
     ELSE mj' = 0 /\ mpc' = "single"
  /\ UNCHANGED <<mk, mret, out, result, blockVars, idx, infoVars, x, k, msg, faults>>

\* The stream is restored straight to the output; then the next increment of
\* StreamIdx, which ends the loop.
MainRestore ==
  /\ mpc = "single"
  /\ out' = Append(out, <<block, 0>>)
  /\ idx' = idx + 1
  /\ mpc' = "read" /\ mj' = 0
  /\ UNCHANGED <<mk, mret, result, blockVars, infoVars, taskVars, status, msg, faults>>

\* Restore raises: the codec fails or the digest differs, after it has written
\* nothing, or bytes that are in the output by then (PrecompOutput2).
MainRestoreError ==
  /\ mpc = "single" /\ faults < MaxFaults
  /\ faults' = faults + 1
  /\ out' \in {out, Append(out, Wrong)}
  /\ mpc' = "free" /\ mj' = 0 /\ result' = "error"
  /\ UNCHANGED <<mk, mret, blockVars, idx, infoVars, taskVars, status, msg>>

Main ==
  \/ ReadCount \/ Look \/ Report \/ Setup \/ Reset \/ StartTask \/ Feed \/ Await
  \/ Write \/ Join \/ MainClaim \/ MainCall \/ MainRestore

-----------------------------------------------------------------------------
(* A task: Restore(True, ...) *)

Goto(t, label) == pc' = [pc EXCEPT ![t] = label]

\* Mutant: the increment is not atomic, so that it can be lost.
ClaimNotAtomic(t) ==
  /\ pc[t] = "inc"
  /\ x' = [x EXCEPT ![t] = idx + 1]
  /\ idx' = idx + 1 \/ UNCHANGED idx
  /\ Goto(t, "test")
  /\ UNCHANGED <<mainVars, blockVars, infoVars, index1, k, status, msg, faults>>

\* X := AtomicIncrement(StreamIdx[Index1]^)
Claim(t) ==
  /\ pc[t] = "inc"
  /\ idx' = idx + 1 /\ x' = [x EXCEPT ![t] = idx + 1]
  /\ Goto(t, "test")
  /\ UNCHANGED <<mainVars, blockVars, infoVars, index1, k, status, msg, faults>>

\* while X < StreamCount[Index1]^
Test(t) ==
  /\ pc[t] = "test"
  /\ Goto(t, IF x[t] >= count THEN "exit" ELSE IF MaxDepth = 1 THEN "call" ELSE "wait")
  /\ k' = [k EXCEPT ![t] = 0]
  /\ UNCHANGED <<mainVars, blockVars, idx, infoVars, index1, x, status, msg, faults>>

\* DecCallThreads(Index1, Depth), one task at a time under ThreadSync.
Call(t) ==
  /\ pc[t] = "call"
  /\ LET i == k[t]
         free == i # index1[t] /\ status[i] = "ready"
     IN /\ status' = IF free THEN [status EXCEPT ![i] = "running"] ELSE status
        /\ index1' = IF free THEN [index1 EXCEPT ![i] = index1[t]] ELSE index1
        /\ pc' = [u \in Threads |->
                    IF u = t THEN IF i + 1 < NumThreads THEN "call" ELSE "wait"
                    ELSE IF free /\ u = i THEN "inc" ELSE pc[u]]
        /\ k' = [k EXCEPT ![t] = IF i + 1 < NumThreads THEN i + 1 ELSE 0]
  /\ UNCHANGED <<mainVars, blockVars, idx, infoVars, x, msg, faults>>

\* Mutant: the stream is restored before it has been fed.
WaitNothing(t) ==
  /\ pc[t] = "wait"
  /\ Goto(t, "restore")
  /\ UNCHANGED <<mainVars, blockVars, idx, infoVars, index1, x, k, status, msg, faults>>

\* while BlockPos < X64: leave when a task has failed or the feeding has.
Wait(t) ==
  /\ pc[t] = "wait"
  /\ \/ bpos > x[t] /\ Goto(t, "restore")
     \/ bpos <= x[t] /\ (IsErrored \/ bpos < 0) /\ Goto(t, "exit")
  /\ UNCHANGED <<mainVars, blockVars, idx, infoVars, index1, x, k, status, msg, faults>>

\* The nested DecChunk (MaxDepth = 2) finds that a task has failed.
NestedLook(t) ==
  /\ pc[t] = "restore" /\ MaxDepth = 2 /\ IsErrored
  /\ k' = [k EXCEPT ![t] = 0]
  /\ Goto(t, "report")
  /\ UNCHANGED <<mainVars, blockVars, idx, infoVars, index1, x, status, msg, faults>>

\* RaiseLastError of one task after the other, in the nested DecChunk.
NestedReport(t) ==
  /\ pc[t] = "report"
  /\ IF msg[k[t]]
       THEN msg' = [msg EXCEPT ![k[t]] = FALSE] /\ Goto(t, "raised") /\ UNCHANGED k
       ELSE /\ IF k[t] + 1 < NumThreads
                  THEN k' = [k EXCEPT ![t] = @ + 1] /\ UNCHANGED pc
                  ELSE k' = [k EXCEPT ![t] = 0] /\ Goto(t, "nested")
            /\ UNCHANGED msg
  /\ UNCHANGED <<mainVars, blockVars, idx, infoVars, index1, x, status, faults>>

\* The codec restores the stream into MemOutput1 and Move puts it in place;
\* bytes that have not been fed yet give nothing of use.
Restore(t) ==
  /\ pc[t] \in {"restore", "nested"}
  /\ restored' = IF bpos > x[t] THEN restored \cup {x[t]} ELSE restored
  /\ Goto(t, "complete")
  /\ UNCHANGED <<mainVars, blockVars, idx, completed, index1, x, k, status, msg, faults>>

\* Completed[X] := True, and the next round of the loop.
Complete(t) ==
  /\ pc[t] = "complete"
  /\ completed' = completed \cup {x[t]}
  /\ Goto(t, "inc")
  /\ UNCHANGED <<mainVars, blockVars, idx, restored, index1, x, k, status, msg, faults>>

\* Restore returns, its locals are gone, and Execute sets tsReady, whatever the
\* status is by now.
Exit(t) ==
  /\ pc[t] = "exit"
  /\ status' = [status EXCEPT ![t] = "ready"]
  /\ index1' = [index1 EXCEPT ![t] = t] /\ x' = [x EXCEPT ![t] = 0]
  /\ Goto(t, "idle")
  /\ UNCHANGED <<mainVars, blockVars, idx, infoVars, k, msg, faults>>

\* The codec fails or the digest differs: Restore raises.
Fail(t) ==
  /\ pc[t] \in {"restore", "nested"} /\ faults < MaxFaults
  /\ faults' = faults + 1
  /\ Goto(t, "raised")
  /\ UNCHANGED <<mainVars, blockVars, idx, infoVars, index1, x, k, status, msg>>

\* Execute's except part: FErrorMsg first, then tsErrored.
SetMessage(t) ==
  /\ pc[t] = "raised"
  /\ msg' = [msg EXCEPT ![t] = TRUE]
  /\ Goto(t, "messaged")
  /\ UNCHANGED <<mainVars, blockVars, idx, infoVars, index1, x, k, status, faults>>

SetErrored(t) ==
  /\ pc[t] = "messaged"
  /\ status' = [status EXCEPT ![t] = "errored"]
  /\ Goto(t, "dead")
  /\ UNCHANGED <<mainVars, blockVars, idx, infoVars, index1, x, k, msg, faults>>

Task(t) ==
  \/ Claim(t) \/ Test(t) \/ Call(t) \/ Wait(t) \/ NestedLook(t) \/ NestedReport(t)
  \/ Restore(t) \/ Complete(t) \/ Exit(t) \/ SetMessage(t) \/ SetErrored(t)

\* Decode has returned or raised.
Finished == mpc = "freed" /\ UNCHANGED vars

Next ==
  \/ Main \/ FeedError \/ FeedRaise \/ MainRestoreError
  \/ \E t \in Threads : Task(t) \/ Fail(t)
  \/ Finished

\* Every thread is run; nothing makes a read or a codec fail.
Fairness == WF_vars(Main) /\ \A t \in Threads : WF_vars(Task(t))

Spec == Init /\ [][Next]_vars
FairSpec == Spec /\ Fairness

-----------------------------------------------------------------------------
(* Properties *)

MainTypes ==
  /\ mpc \in {"read", "look", "report", "setup", "reset", "start", "feed", "await",
              "write", "join", "claim", "call", "single", "free", "freed"}
  /\ mret \in {"setup", "write"} /\ mj \in Nat /\ mk \in Threads
  /\ result \in {"none", "ok", "error", "raised"} /\ faults \in Nat

BlockTypes ==
  /\ archive \in Archives /\ block \in 0 .. Len(archive) /\ count \in Int
  /\ idx \in Int /\ bpos \in Int
  /\ completed \subseteq Int /\ restored \subseteq Int

\* A stream is given by its block and its number in it.
Places == Int \X Int
OutTypes == out \in Seq(Places) /\ expected \in Seq(Places)

TaskTypes ==
  /\ status \in [Threads -> {"ready", "running", "errored"}]
  /\ pc \in [Threads -> {"idle", "inc", "test", "call", "wait", "restore", "report",
                         "nested", "complete", "exit", "raised", "messaged", "dead"}]
  /\ index1 \in [Threads -> Threads] /\ x \in [Threads -> Int] /\ k \in [Threads -> Threads]

TypeOK == MainTypes /\ BlockTypes /\ OutTypes /\ TaskTypes /\ msg \in [Threads -> BOOLEAN]

\* The task is at work on stream x[t] of the block.
Holding(t) == pc[t] \in {"call", "wait", "restore", "report", "nested", "complete"}

\* A Decode that ends without an error has written every stream of every
\* block, restored, once and in the order of the archive.
BitExact == result = "ok" => out = expected /\ block = Len(archive)

\* Whatever is written is right, even when Decode raises later on, but for
\* what a block of one stream has written when its own restoring fails: that
\* is the last thing written, and Decode reports it with an error.
WrongIsReported ==
  \/ IsPrefix(out, expected)
  \/ /\ result = "error" /\ ~Multi /\ out # <<>>
     /\ Last(out) = Wrong /\ IsPrefix(Front(out), expected)

\* Two tasks never restore the same stream, and a stream that the main thread
\* may be writing out is not restored again.
RestoredOnce ==
  \A t \in Threads : Holding(t) =>
    /\ x[t] \notin completed
    /\ \A u \in Threads \ {t} : Holding(u) => x[u] # x[t]

\* While the main thread reads the next block's header and resets what is shared
\* (StreamCount, MemStream1, MemInput, Completed, StreamIdx), no task is at
\* work with it.
BlockQuiet ==
  mpc \in {"setup", "reset"} \/ (mpc = "look" /\ mret = "setup") =>
    \A t \in Threads : pc[t] \in {"idle", "dead"}

\* Every decode ends, and DecFree with it: no task waits for ever for bytes
\* that are not fed any more, unless it is the input that has raised.
Terminates == <>(mpc = "freed" \/ result = "raised")

=============================================================================
