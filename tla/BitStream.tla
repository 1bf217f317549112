------------------------------ MODULE BitStream ------------------------------
(***************************************************************************)
(* preflate's bit streams (src/contrib/preflate/support/bitstream).  A     *)
(* reader or a writer is a record; an operation on a reader returns the    *)
(* value read and the reader after it.  Bits are sequences, the lowest     *)
(* first; reading beyond the end of the input yields zeroes.               *)
(***************************************************************************)
EXTENDS Integers, Sequences, SequencesExt, FiniteSetsExt

CONSTANTS
  ByteBits,   \* the bits of a byte (8)
  BufSize,    \* the bytes read or written at a time (1024)
  PreExtra,   \* how many of them may be left over at a refill (16)
  WordBits    \* the bits a reader or writer holds (64, or 32)

\* F(v), for a value that F needs several times: written so, it is worked out once.
With(v, F(_)) == CHOOSE y \in {F(x) : x \in {v}} : TRUE

BitsOf(v, n) == [i \in 1..n |-> (v \div 2^(i - 1)) % 2]

NumberOf(bits) == FoldRight(LAMBDA b, v : b + 2 * v, bits, 0)

BytesToBits(bytes) == FlattenSeq([i \in DOMAIN bytes |-> BitsOf(bytes[i], ByteBits)])

Prefix(s, n) == SubSeq(s, 1, n)
Drop(s, n) == SubSeq(s, n + 1, Len(s))

Lesser(x, y) == IF x < y THEN x ELSE y
Greater(x, y) == IF x > y THEN x ELSE y

\* bitLength, and bitReverse: the number with the lowest n bits turned round.
BitLength(v) == IF v = 0 THEN 0 ELSE Max({n \in 1..31 : v \div 2^(n - 1) > 0})
BitReverse(v, n) == NumberOf(Reverse(BitsOf(v, n)))

-----------------------------------------------------------------------------
(***************************************************************************)
(* BitInputStream.  source: what the stream below has left; buffer: the    *)
(* bytes read from it that are not in the word yet; fast: how many of them *)
(* can be taken without looking at the end (up to bufFastLimit); word: the *)
(* bits; total: the bits consumed.                                         *)
(***************************************************************************)
Reader(bytes) ==
  [source |-> bytes, buffer |-> <<>>, fast |-> 0, eof |-> FALSE, word |-> <<>>, total |-> 0]

AtEnd(r) == r.eof /\ r.buffer = <<>> /\ r.word = <<>>

\* Takes the next bytes; what is left over of the last ones, less than
\* PreExtra bytes, is moved in front of them.
FillBytes(r) ==
  LET n == Lesser(BufSize, Len(r.source))
      bytes == r.buffer \o Prefix(r.source, n)
  IN IF r.fast > 0 \/ r.eof THEN r
     ELSE [r EXCEPT !.source = Drop(@, n), !.buffer = bytes,
                    !.fast = Greater(0, Len(bytes) - PreExtra),
                    !.eof = n # BufSize]

\* As many bytes as the word has room for.
Moved(s, n) ==
  [s EXCEPT !.word = @ \o BytesToBits(Prefix(s.buffer, n)),
            !.buffer = Drop(@, n), !.fast = Greater(0, @ - n)]
Room(s) == (WordBits - Len(s.word)) \div ByteBits
Fill(r) ==
  With(FillBytes(r),
       LAMBDA s : Moved(s, IF r.fast > 0 THEN Room(s) ELSE Lesser(Room(s), Len(s.buffer))))

Filled(r, n) == IF Len(r.word) < n THEN Fill(r) ELSE r

Peek(r, n) == NumberOf(Prefix(r.word, Lesser(n, Len(r.word))))

Skip(r, n) == [r EXCEPT !.word = Drop(@, Lesser(n, Len(@))), !.total = @ + n]

Get(r, n) == With(Filled(r, n), LAMBDA s : [value |-> Peek(s, n), reader |-> Skip(s, n)])

GetReverse(r, n) == [Get(r, n) EXCEPT !.value = BitReverse(@, n)]

SkipToByte(r) == Skip(r, Len(r.word) % ByteBits)

\* Several numbers of the given widths, one after the other.
GetAll(r, widths) ==
  FoldLeft(LAMBDA s, n : With(Get(s.reader, n),
                              LAMBDA g : [value |-> Append(s.value, g.value), reader |-> g.reader]),
           [value |-> <<>>, reader |-> r], widths)

\* copyBytesTo: the bytes in the word first, then those of the buffer.
RECURSIVE CopyFrom(_, _, _)
CopyFrom(r, len, got) ==
  LET n == Lesser(len - Len(got), Len(r.buffer))
      s == [r EXCEPT !.buffer = Drop(@, n), !.fast = Greater(0, @ - n), !.total = @ + n * ByteBits]
  IN IF Len(got) >= len THEN [value |-> got, reader |-> r]
     ELSE With(got \o Prefix(r.buffer, n), LAMBDA bytes :
            IF AtEnd(s) THEN [value |-> bytes, reader |-> s]
            ELSE CopyFrom(FillBytes(s), len, bytes))

CopyBytes(r, len) ==
  LET n == Lesser(len, Len(r.word) \div ByteBits)
      bytes == [i \in 1..n |-> NumberOf(SubSeq(r.word, (i - 1) * ByteBits + 1, i * ByteBits))]
  IN IF Len(r.word) % ByteBits # 0 THEN [value |-> <<>>, reader |-> r]
     ELSE CopyFrom(Skip(r, n * ByteBits), len, bytes)

\* A number of any size: the rest of the byte and whole bytes, each with a
\* bit that tells whether another one follows.
RECURSIVE VLIFrom(_, _, _)
VLIFrom(r, bits, s) ==
  LET limit == 2^(bits - 1)
  IN With(Get(r, bits), LAMBDA g :
       IF g.value < limit
       THEN [value |-> s.sum + s.offset + g.value * 2^s.shift, reader |-> g.reader]
       ELSE VLIFrom(g.reader, ByteBits,
                    [sum |-> s.sum + (g.value % limit) * 2^s.shift,
                     shift |-> s.shift + bits - 1,
                     offset |-> (s.offset + 1) * limit]))

GetVLI(r) ==
  VLIFrom(r, ((Len(r.word) - 1) % ByteBits) + 1, [sum |-> 0, shift |-> 0, offset |-> 0])

-----------------------------------------------------------------------------
(***************************************************************************)
(* BitOutputStream.  written: the bytes handed on; buffer: those of the    *)
(* buffer; word: the bits that are no byte yet.                            *)
(***************************************************************************)
Writer == [written |-> <<>>, buffer |-> <<>>, word |-> <<>>]

WordBytes(word, n) ==
  [i \in 1..n |-> NumberOf(SubSeq(word, (i - 1) * ByteBits + 1, Lesser(i * ByteBits, Len(word))))]

FlushWord(w) ==
  LET n == Len(w.word) \div ByteBits
      m(bytes) == IF Len(bytes) >= BufSize THEN BufSize ELSE 0
  IN With(w.buffer \o WordBytes(w.word, n), LAMBDA bytes :
       [written |-> w.written \o Prefix(bytes, m(bytes)), buffer |-> Drop(bytes, m(bytes)),
        word |-> Drop(w.word, n * ByteBits)])

Put(w, value, n) ==
  [(IF Len(w.word) + n >= WordBits THEN FlushWord(w) ELSE w)
     EXCEPT !.word = @ \o BitsOf(value, n)]

PutAll(w, values, widths) ==
  FoldLeft(LAMBDA s, i : Put(s, values[i], widths[i]), w, [i \in 1..Len(values) |-> i])

FillByte(w) == [w EXCEPT !.word = @ \o [i \in 1..((-Len(@)) % ByteBits) |-> 0]]

Flush(w) ==
  With(FlushWord(w), LAMBDA s :
    [written |-> s.written \o s.buffer \o (IF s.word = <<>> THEN <<>> ELSE WordBytes(s.word, 1)),
     buffer |-> <<>>, word |-> <<>>])

PutBytes(w, bytes) == [Flush(w) EXCEPT !.written = @ \o bytes]

RECURSIVE PutVLIFrom(_, _, _)
PutVLIFrom(w, size, bits) ==
  LET limit == 2^(bits - 1)
  IN IF size < limit THEN Put(w, size, bits)
     ELSE PutVLIFrom(Put(w, limit + (size % limit), bits), size \div limit - 1, ByteBits)

PutVLI(w, size) == PutVLIFrom(w, size, ByteBits - (Len(w.word) % ByteBits))
=============================================================================
