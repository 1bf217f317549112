--------------------------- MODULE MCDecodeBlock ---------------------------
(* DecodeBlock on small archives. *)
EXTENDS DecodeBlock

ArchivesUpTo(blockMax, streamMax) ==
  UNION {[1 .. n -> 0 .. streamMax] : n \in 0 .. blockMax}

\* A block of one stream only at the end: what follows one is another run's.
\* Of two large blocks the second one is the larger: what is left over from a
\* block does the more harm.
SingleAtEnd ==
  {a \in ArchivesUpTo(2, 3) :
     /\ \A b \in DOMAIN a : a[b] = 1 => b = Len(a)
     /\ a \notin {<<3, 2>>, <<3, 3>>}}

Small == ArchivesUpTo(2, 2)
=============================================================================
