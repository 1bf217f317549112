------------------------------ MODULE MCMatch ------------------------------
EXTENDS MatchFinder
CONSTANTS N, a, b
HashDef == [t \in Byte \X Byte \X Byte |-> IF t[1] = t[3] THEN 0 ELSE 1]
MCInit == input \in {<<a>> \o s : s \in [1..(N - 1) -> Byte]} /\ FinderInit
MCSpec == MCInit /\ [][FinderNext]_finderVars
=============================================================================
