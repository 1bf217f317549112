----------------------------- MODULE CacheRing -----------------------------
(***************************************************************************)
(* The ring FCache that TCacheReadStream and TCacheWriteStream share with  *)
(* their task.  Both sides keep a position that only grows; the byte at    *)
(* position p lies in cell p mod FMaxSize.  FOnFull and CacheMemory (Read) *)
(* never let a portion cross the end of the ring.                          *)
(***************************************************************************)
EXTENDS Integers, FiniteSetsExt

EmptyRing(size) == [c \in 0 .. size - 1 |-> -1]

\* FCache.WriteBuffer at pos mod FMaxSize: n bytes numbered from first on.
PutBytes(ring, size, pos, first, n) ==
  [c \in DOMAIN ring |->
     LET j == c - (pos % size) IN IF j \in 0 .. n - 1 THEN first + j ELSE ring[c]]

\* FCache.ReadBuffer at pos mod FMaxSize.
GetBytes(ring, size, pos, n) == [j \in 1 .. n |-> ring[(pos % size) + j - 1]]

\* Min(Stream.Size - X, Min(FMaxSize - I, FMaxSize - (FPosition mod FMaxSize)))
PutPortion(size, pos, left, used) == Min({left, size - used, size - (pos % size)})

\* Min(FBufferSize, Min(I, FMaxSize - (FPosition mod FMaxSize)))
GetPortion(size, pos, buffer, used) == Min({buffer, used, size - (pos % size)})

=============================================================================
