----------------------------- MODULE ArrayStream -----------------------------
(***************************************************************************)
(* TArrayStream of common/Utils.pas: several streams, each with a size it  *)
(* may not exceed, used as one.  The decoder keeps what is written again   *)
(* later in one, of memory and of a file behind it.                        *)
(*                                                                         *)
(* parts[i]: data is what stream i holds, pos where it stands, max its     *)
(* MaxSize; index is FIndex, the stream that is read or written next.      *)
(***************************************************************************)
EXTENDS Integers, Sequences, SequencesExt, FiniteSetsExt

NewArray(maxes) ==
  [index |-> 1, parts |-> [i \in DOMAIN maxes |-> [data |-> <<>>, pos |-> 0, max |-> maxes[i]]]]

\* How much the first i streams hold.
SizeUpTo(a, i) ==
  LET upTo[j \in 0 .. Len(a.parts)] ==
        IF j = 0 THEN 0 ELSE upTo[j - 1] + Len(a.parts[j].data)
  IN upTo[i]

\* FSetPos: every stream is moved to where position p is in it, or to its end;
\* FIndex is the first one that p is not behind.
SetPosition(a, p) ==
  LET reached == {i \in DOMAIN a.parts : p <= SizeUpTo(a, i)}
      PosIn(i) == Min({Len(a.parts[i].data), Max({0, p - SizeUpTo(a, i - 1)})})
  IN [index |-> IF reached = {} THEN 1 ELSE Min(reached),
      parts |-> [i \in DOMAIN a.parts |-> [a.parts[i] EXCEPT !.pos = PosIn(i)]]]

\* FUpdateRead and FUpdateWrite: at its end the stream gives way to the next
\* one that has room, Room(i) being its size or its MaxSize.
GiveWay(a, Room(_)) ==
  LET later == a.index + 1 .. Len(a.parts)
      next == Min({i \in later : Room(i) > 0 \/ i = Len(a.parts)})
  IN IF a.parts[a.index].pos # Room(a.index) \/ later = {} THEN a
     ELSE [index |-> next,
           parts |-> [i \in DOMAIN a.parts |->
                        IF i \in a.index + 1 .. next THEN [a.parts[i] EXCEPT !.pos = 0]
                        ELSE a.parts[i]]]

ForRead(a) == GiveWay(a, LAMBDA i : Len(a.parts[i].data))

ForWrite(a) == GiveWay(a, LAMBDA i : a.parts[i].max)

Overwritten(data, p, bytes) ==
  SubSeq(data, 1, p) \o bytes \o SubSeq(data, p + Len(bytes) + 1, Len(data))

\* Write: the stream that is written next takes what it has room for.
\* s is the array and the bytes that are left to write.
Write(s) ==
  LET a == ForWrite(s.array)
      part == a.parts[a.index]
      n == Min({part.max - part.pos, Len(s.bytes)})
  IN IF n = 0 THEN s
     ELSE [array |-> [a EXCEPT !.parts[a.index] =
                        [part EXCEPT !.data = Overwritten(@, part.pos, SubSeq(s.bytes, 1, n)),
                                     !.pos = @ + n]],
           bytes |-> SubSeq(s.bytes, n + 1, Len(s.bytes))]

\* Read of at most n bytes in all.  s is the array and the bytes got so far.
Read(s, n) ==
  LET a == ForRead(s.array)
      part == a.parts[a.index]
      k == Min({Len(part.data) - part.pos, n - Len(s.bytes)})
  IN IF k = 0 THEN s
     ELSE [array |-> [a EXCEPT !.parts[a.index].pos = @ + k],
           bytes |-> s.bytes \o SubSeq(part.data, part.pos + 1, part.pos + k)]

\* WriteBuffer, or CopyStreamEx from the array, repeats the call until all the
\* bytes are there or a call finds no more: every stream is come to once.
WriteArray(array, bytes) ==
  LET calls[i \in 0 .. Len(array.parts)] ==
        IF i = 0 THEN [array |-> array, bytes |-> bytes] ELSE Write(calls[i - 1])
  IN calls[Len(array.parts)].array

ReadArray(array, n) ==
  LET calls[i \in 0 .. Len(array.parts)] ==
        IF i = 0 THEN [array |-> array, bytes |-> <<>>] ELSE Read(calls[i - 1], n)
  IN calls[Len(array.parts)]
==============================================================================
