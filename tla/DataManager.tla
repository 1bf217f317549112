----------------------------- MODULE DataManager -----------------------------
(***************************************************************************)
(* TDataManager of common/Utils.pas: the decoder's store of the streams    *)
(* that are written again later.  A block belongs to an ID until it has    *)
(* been copied count times; then it may be given to another stream that    *)
(* fits.  An operation returns the manager after it; ok turns FALSE where  *)
(* the code raises an exception.                                           *)
(***************************************************************************)
EXTENDS ArrayStream

\* total is FStreamSize; FStreamPos is 0.
NewManager(maxes) == [blocks |-> <<>>, total |-> 0, array |-> NewArray(maxes), ok |-> TRUE]

\* The first block of the list for which Fits, or 0.
FirstBlock(m, Fits(_)) == SelectInSeq(m.blocks, Fits)

FreeBlock(m, n) == FirstBlock(m, LAMBDA b : b.count <= 0 /\ n <= b.full)
BlockOf(m, id) == FirstBlock(m, LAMBDA b : b.id = id /\ b.count > 0)

AddBlock(m, id, n, count) ==
  LET i == FreeBlock(m, n)
      new == [id |-> id, at |-> m.total, used |-> 0, full |-> n, count |-> count]
  IN IF count <= 0 THEN m
     ELSE IF i > 0
     THEN [m EXCEPT !.blocks[i] = [@ EXCEPT !.id = id, !.used = 0, !.count = count]]
     ELSE [m EXCEPT !.blocks = Append(@, new), !.total = @ + n]

WriteToBlock(m, id, bytes) ==
  LET i == BlockOf(m, id)
      b == m.blocks[i]
  IN IF bytes = <<>> THEN m
     ELSE IF i = 0 \/ b.used + Len(bytes) > b.full THEN [m EXCEPT !.ok = FALSE]
     ELSE [m EXCEPT !.array = WriteArray(SetPosition(@, b.at + b.used), bytes),
                    !.blocks[i].used = @ + Len(bytes)]

\* The bytes of a block, and the manager afterwards.
CopyData(m, id) ==
  LET i == BlockOf(m, id)
      b == m.blocks[i]
      r == ReadArray(SetPosition(m.array, b.at), b.used)
  IN IF i = 0 THEN [bytes |-> <<>>, manager |-> [m EXCEPT !.ok = FALSE]]
     ELSE [bytes |-> r.bytes,
           manager |-> [m EXCEPT !.array = r.array, !.blocks[i].count = @ - 1]]
==============================================================================
