----------------------------- MODULE ArithCoder ------------------------------
(***************************************************************************)
(* preflate's arithmetic coder (support/arithmetic_coder).  The interval   *)
(* low..high of CoderBits bits is divided in proportion to the bounds of   *)
(* the symbols; what both ends agree on is written, and when they only     *)
(* differ around the middle the bits are counted in e3 and written later.  *)
(* An operation returns the coder after it, or that and the value.         *)
(***************************************************************************)
EXTENDS BitStream

CONSTANT CoderBits    \* the bits of the interval (31)

Half == 2^(CoderBits - 1)
Quarter == 2^(CoderBits - 2)
Whole == 2^CoderBits

\* bit i of a number, counted from the top of the interval
TopBit(v, i) == (v \div 2^(CoderBits - i)) % 2

\* How many bits both ends begin with, and how many bits after the first
\* are 1 in low and 0 in high.
Agreed(c) == Max({m \in 0..CoderBits : \A i \in 1..m : TopBit(c.low, i) = TopBit(c.high, i)})
Straddled(c) ==
  Max({m \in 0..CoderBits - 1 : \A i \in 2..m + 1 : TopBit(c.low, i) = 1 /\ TopBit(c.high, i) = 0})

Shifted(c, m) == [c EXCEPT !.low = (@ * 2^m) % Whole, !.high = ((@ + 1) * 2^m - 1) % Whole]
Widened(c, m) == [c EXCEPT !.low = (@ * 2^m) % Half, !.high = ((((@ + 1) * 2^m) - 1) % Half) + Half]

\* The part of the interval that belongs to the bounds from..to - 1 of scale.
Narrowed(c, step, from, to) ==
  [c EXCEPT !.low = @ + step * from, !.high = c.low + step * to - 1]
Step(c, bits) == (c.high - c.low + 1) \div 2^bits

-----------------------------------------------------------------------------
Encoder == [low |-> 0, high |-> Whole - 1, e3 |-> 0, out |-> Writer]

PutSame(w, bit, n) == PutAll(w, [i \in 1..n |-> bit], [i \in 1..n |-> 1])

\* The m bits that are certain; those of e3 follow the first of them.
PutAgreed(out, c, m) ==
  LET w == TopBit(c.low, 1)
      rest == [i \in 1..m - 1 |-> TopBit(c.low, i + 1)]
  IN PutAll(PutSame(Put(out, w, 1), 1 - w, c.e3), rest, [i \in 1..m - 1 |-> 1])

WrittenAgreed(c, m) ==
  IF m = 0 THEN c ELSE [Shifted(c, m) EXCEPT !.e3 = 0, !.out = PutAgreed(@, c, m)]
CountedE3(c, k) == IF k = 0 THEN c ELSE [Widened(c, k) EXCEPT !.e3 = @ + k]

NormalizeEncoder(c) ==
  With(WrittenAgreed(c, Agreed(c)), LAMBDA s : CountedE3(s, Straddled(s)))

\* A share that is the whole interval changes nothing.
EncodeScaled(c, bits, from, to) ==
  With(Narrowed(c, Step(c, bits), from, to), LAMBDA n : IF n = c THEN c ELSE NormalizeEncoder(n))

EncodeBits(c, value, bits) == EncodeScaled(c, bits, value, value + 1)

\* Enough bits for a number inside the interval; zeroes follow.
FlushEncoder(c) ==
  [c EXCEPT !.low = 0, !.high = Whole - 1,
            !.out = IF c.low < Quarter THEN PutSame(Put(@, 2, 2), 1, c.e3) ELSE Put(@, 1, 1)]

\* The bytes that the coder has written.
CoderBytes(c) == Flush(FlushEncoder(c).out).written

-----------------------------------------------------------------------------
Decoder(bytes) ==
  With(GetReverse(Reader(bytes), CoderBits),
       LAMBDA g : [low |-> 0, high |-> Whole - 1, value |-> g.value, in |-> g.reader])

NextBits(c, n) ==
  With(GetReverse(c.in, n),
       LAMBDA g : [c EXCEPT !.value = ((@ * 2^n) + g.value) % Whole, !.in = g.reader])

ReadAgreed(c, m) == IF m = 0 THEN c ELSE Shifted(NextBits(c, m), m)
ReadStraddled(c, k) ==
  IF k = 0 THEN c ELSE [Widened(NextBits(c, k), k) EXCEPT !.value = (@ + Half) % Whole]

NormalizeDecoder(c) == With(ReadAgreed(c, Agreed(c)), LAMBDA s : ReadStraddled(s, Straddled(s)))

\* bounds[i]..bounds[i + 1] - 1 is the share of the i-th of the symbols.
DecodeScaled(c, bits, bounds) ==
  LET v == (c.value - c.low) \div Step(c, bits)
  IN With(Max({1} \cup {j \in 1..Len(bounds) - 1 : v >= bounds[j]}), LAMBDA i :
       [value |-> i,
        coder |-> NormalizeDecoder(Narrowed(c, Step(c, bits), bounds[i], bounds[i + 1]))])

DecodeBits(c, bits) ==
  With((c.value - c.low) \div Step(c, bits), LAMBDA v :
    [value |-> v, coder |-> NormalizeDecoder(Narrowed(c, Step(c, bits), v, v + 1))])
=============================================================================
