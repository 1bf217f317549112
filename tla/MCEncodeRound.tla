--------------------------- MODULE MCEncodeRound ---------------------------
(* EncodeRound on small instances. *)
EXTENDS EncodeRound
=============================================================================
