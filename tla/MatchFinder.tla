----------------------------- MODULE MatchFinder -----------------------------
(***************************************************************************)
(* The two indexes of the token predictor over one input (constructor and  *)
(* commitToken of PreflateTokenPredictor): every token moves the hash      *)
(* chains and the chains of runs by its length.                            *)
(***************************************************************************)
EXTENDS HashChain

\* What a move keeps of the array of runs, 0x81f8 entries of 0x10000, is more
\* than a run needs to be one and no more than lies behind a position at which
\* a move is due, 0xfe00.
ASSUME KeptAssumption ==
  /\ Cap - (Delta + Low) >= 3
  /\ Cap - (Delta + Low) <= Delta + Window - 2
  /\ Window >= 3

VARIABLES runs, heads, seqShift, seqPos, built

Runs == INSTANCE SeqChain

finderVars == <<vars, runs, heads, seqShift, seqPos, built>>

\* The data before the first block is entered at once: it is context only.
FinderInit == HashInit /\ Runs!SeqInit

CommitToken(l) == UpdateHash(l) /\ Runs!UpdateSeq(l)

\* A long match of a fast compressor.
CommitSkipped(l) == SkipHash(l) /\ Runs!UpdateSeq(l)

FinderNext ==
  \/ \E l \in Calls : CommitToken(l)
  \/ \E l \in Skips : CommitSkipped(l)
  \/ HashStep /\ UNCHANGED <<runs, heads, seqShift, seqPos, built>>

FinderSpec == input \in Seq(Byte) /\ FinderInit /\ [][FinderNext]_finderVars

RunsRight == Runs!RunsRight

ReachRight == Runs!ReachRight
=============================================================================
