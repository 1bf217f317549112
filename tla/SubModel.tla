------------------------------ MODULE SubModel -------------------------------
(***************************************************************************)
(* The models of one kind of prediction (preflate_statistical_codec): the  *)
(* symbols 0..n - 1 ordered by how often they were counted, and bounds     *)
(* that give each its share of 2^ScaleBits, rounded so that a share has    *)
(* few significant bits and is never empty.  A model with one symbol is    *)
(* fixed: nothing is written for it.                                       *)
(***************************************************************************)
EXTENDS ArithCoder

CONSTANTS
  ScaleBits,    \* 16
  ShareBits     \* the significant bits of a share (5)

Scale == 2^ScaleBits
Total(arr) == FoldLeft(LAMBDA a, b : a + b, 0, arr)

\* The symbols in the order of their counts.
Ordered(arr) ==
  LET before(i, j) == arr[i + 1] < arr[j + 1] \/ (arr[i + 1] = arr[j + 1] /\ i < j)
      place(i) == Cardinality({j \in 0..Len(arr) - 1 : before(j, i)}) + 1
  IN [k \in 1..Len(arr) |-> CHOOSE i \in 0..Len(arr) - 1 : place(i) = k]

\* A slip: a share keeps bits that are not sent.
RoundedNot(diff) == diff

\* A share is cut to its highest bits.
Rounded(diff) ==
  LET unit == 2^(BitLength(diff) - ShareBits)
  IN IF BitLength(diff) <= ShareBits THEN diff ELSE (diff \div unit) * unit

BoundsOf(counts) ==
  LET n == Len(counts)
      sum == Total(counts)
      upTo(i) == Total(SubSeq(counts, 1, i))
      b[i \in 0..n] ==
        IF i = 0 THEN 0
        ELSE IF counts[i] = 0 THEN b[i - 1]
        ELSE b[i - 1] + Greater(1, Rounded(Greater(0, (upTo(i) * Scale) \div sum - b[i - 1])))
  IN [i \in 1..n + 1 |-> IF i = n + 1 /\ b[n] > 0 THEN Scale ELSE b[i - 1]]

\* Junk is the zeroes that all bounds end with: they are not needed to code.
Junk(bounds) ==
  Max({z \in 0..ScaleBits : \A i \in DOMAIN bounds : bounds[i] % 2^z = 0})

Scaled(bounds, ids, default) ==
  With(Junk(bounds), LAMBDA z :
    [bounds |-> bounds, ids |-> ids, default |-> default,
     fixed |-> bounds[Len(ids)] = 0,
     bits |-> ScaleBits - z, scaled |-> [i \in DOMAIN bounds |-> bounds[i] \div 2^z]])

\* A model of no symbols (one side of a correction that cannot occur).
NoModel == [bounds |-> <<0>>, ids |-> <<>>, default |-> TRUE, fixed |-> TRUE, bits |-> 0, scaled |-> <<0>>]

Build(arr, defval) ==
  LET n == Len(arr)
      Model(ids, bounds) ==
        Scaled(bounds, ids, bounds[n + 1] = 0 \/ (bounds[n] = 0 /\ ids[n] = defval))
  IN IF n = 0 THEN NoModel
     ELSE With(Ordered(arr),
               LAMBDA ids : Model(ids, BoundsOf([i \in 1..n |-> arr[ids[i] + 1]])))

BuildDefault(n, defval) ==
  IF n = 0 THEN NoModel
  ELSE Scaled([i \in 1..n + 1 |-> IF i = n + 1 THEN Scale ELSE 0],
              [i \in 1..n |-> IF i = n THEN defval ELSE (defval + i) % n], TRUE)

\* The share of each symbol.
Extract(m) ==
  [s \in 1..Len(m.ids) |->
     LET i == CHOOSE i \in 1..Len(m.ids) : m.ids[i] = s - 1 IN m.bounds[i + 1] - m.bounds[i]]

\* isEqualTo: a model that counted nothing equals any other.
SameModel(m, of) ==
  LET n == Len(of.ids)
  IN n = 0 \/ of.bounds[n + 1] = 0 \/
     /\ m.bounds = of.bounds
     /\ \A i \in 1..n : m.bounds[i + 1] > 0 => m.ids[i] = of.ids[i]

-----------------------------------------------------------------------------
EncodeItem(c, m, item) ==
  LET i == CHOOSE i \in 1..Len(m.ids) : m.ids[i] = item
  IN IF m.fixed THEN c ELSE EncodeScaled(c, m.bits, m.scaled[i], m.scaled[i + 1])

DecodeItem(c, m) ==
  IF m.fixed THEN [value |-> IF m.ids = <<>> THEN 0 ELSE Last(m.ids), coder |-> c]
  ELSE [DecodeScaled(c, m.bits, m.scaled) EXCEPT !.value = m.ids[@]]

\* A share is written as its length and its significant bits.
LengthBits == BitLength(ScaleBits - 1)

EncodeShare(c, v) ==
  LET bits == BitLength(v)
      k == Lesser(bits, ShareBits) - 1
      short == IF bits >= ShareBits THEN v \div 2^(bits - ShareBits) ELSE v
  IN EncodeBits(EncodeBits(c, bits - 1, LengthBits), short % 2^k, k)

DecodeShareOf(c, bits) ==
  LET k == Lesser(bits, ShareBits) - 1
  IN [DecodeBits(c, k) EXCEPT !.value = (@ + 2^k) * 2^(bits - 1 - k)]
DecodeShare(c) == With(DecodeBits(c, LengthBits), LAMBDA g : DecodeShareOf(g.coder, g.value + 1))

\* The symbols that were never counted come first and are only counted here.
WriteSubModel(c, m) ==
  LET n == Len(m.ids)
      zeros == Cardinality({i \in 2..n : m.bounds[i] = 0})
      shares == FoldLeft(LAMBDA s, i : EncodeShare(s, m.bounds[i + 1] - m.bounds[i]),
                         EncodeBits(c, zeros, BitLength(n - 1)),
                         [i \in 1..n - 1 - zeros |-> zeros + i])
  IN FoldLeft(LAMBDA s, i : EncodeBits(s, m.ids[i], BitLength(n - 1)), shares,
              [i \in 1..n - zeros |-> zeros + i])

\* The order of the symbols that were not sent does not matter.
ReadSubModel(c, n) ==
  LET Bounds(zeros, coder) ==
        FoldLeft(LAMBDA s, i : With(DecodeShare(s.coder),
                   LAMBDA g : [value |-> Append(s.value, Last(s.value) + g.value), coder |-> g.coder]),
                 [value |-> [i \in 1..zeros + 1 |-> 0], coder |-> coder],
                 [i \in 1..n - 1 - zeros |-> i])
      Symbols(zeros, coder) ==
        FoldLeft(LAMBDA s, i : With(DecodeBits(s.coder, BitLength(n - 1)),
                   LAMBDA g : [value |-> Append(s.value, g.value), coder |-> g.coder]),
                 [value |-> <<>>, coder |-> coder], [i \in 1..n - zeros |-> i])
      Others(sent) == SelectSeq([i \in 1..n |-> i - 1], LAMBDA s : s \notin ToSet(sent))
      Model(shares, sent) ==
        [value |-> Scaled(shares.value \o <<Scale>>, Others(sent.value) \o sent.value, FALSE),
         coder |-> sent.coder]
  IN With(DecodeBits(c, BitLength(n - 1)), LAMBDA head :
       With(Bounds(head.value, head.coder), LAMBDA shares :
         Model(shares, Symbols(head.value, shares.coder))))

-----------------------------------------------------------------------------
(***************************************************************************)
(* Corrections: the difference of a value to the predicted one, as its     *)
(* sign and its size; the last size stands for all larger ones and what is *)
(* above it follows as bits.                                               *)
(***************************************************************************)
Sign(d) == IF d = 0 THEN 0 ELSE IF d > 0 THEN 1 ELSE 2

\* The counts of a correction are those of -neg .. pos.
BuildCorrection(arr, neg, pos) ==
  [sign |-> Build(<<arr[neg + 1], Total([i \in 1..pos |-> arr[neg + 1 + i]]), Total([i \in 1..neg |-> arr[i]])>>, 0),
   pos |-> Build([i \in 1..pos |-> arr[neg + 1 + i]], pos - 1),
   neg |-> Build([i \in 1..neg |-> arr[neg + 1 - i]], neg - 1)]

DefaultCorrection(neg, pos) ==
  [sign |-> BuildDefault(3, 0), pos |-> BuildDefault(pos, pos - 1), neg |-> BuildDefault(neg, neg - 1)]

IsDefaultCorrection(m) == m.sign.default /\ m.pos.default /\ m.neg.default

WriteCorrection(c, m) ==
  FoldLeft(LAMBDA s, k : IF k.ids = <<>> THEN s ELSE WriteSubModel(s, k), c, <<m.sign, m.pos, m.neg>>)

ReadCorrection(c, neg, pos) ==
  LET Read(s, n) ==
        IF n = 0 THEN [value |-> Append(s.value, NoModel), coder |-> s.coder]
        ELSE With(ReadSubModel(s.coder, n),
                  LAMBDA g : [value |-> Append(s.value, g.value), coder |-> g.coder])
  IN With(FoldLeft(Read, [value |-> <<>>, coder |-> c], <<3, pos, neg>>), LAMBDA g :
       [value |-> [sign |-> g.value[1], pos |-> g.value[2], neg |-> g.value[3]], coder |-> g.coder])

\* ref is the prediction, least and most bound what the value can be.
EncodeCorrection(c, m, act, ref, least, most) ==
  LET d == act - ref
      size == IF d > 0 THEN d ELSE -d
      side == IF d > 0 THEN m.pos ELSE m.neg
      n == Len(side.ids)
      room == (IF d > 0 THEN most - ref ELSE ref - least) - n
  IN With(EncodeItem(c, m.sign, Sign(d)), LAMBDA s :
       IF d = 0 THEN s
       ELSE With(EncodeItem(s, side, Lesser(size, n) - 1), LAMBDA t :
              IF size < n THEN t ELSE EncodeBits(t, size - n, BitLength(room))))

\* A slip: the size that stands for all larger ones is not told from its own.
DecodeCorrectionShort(c, m, ref, least, most) ==
  With(DecodeItem(c, m.sign), LAMBDA g :
    IF g.value = 0 THEN [g EXCEPT !.value = ref]
    ELSE IF g.value = 1 THEN [DecodeItem(g.coder, m.pos) EXCEPT !.value = ref + (@ + 1)]
    ELSE [DecodeItem(g.coder, m.neg) EXCEPT !.value = ref - (@ + 1)])

\* The size of a difference that is at most the given one.
DecodeSize(c, side, most) ==
  LET n == Len(side.ids)
  IN With(DecodeItem(c, side), LAMBDA h :
       IF h.value >= n - 1
       THEN [DecodeBits(h.coder, BitLength(most - n)) EXCEPT !.value = n + @]
       ELSE [h EXCEPT !.value = @ + 1])

DecodeCorrection(c, m, ref, least, most) ==
  With(DecodeItem(c, m.sign), LAMBDA g :
    IF g.value = 0 THEN [g EXCEPT !.value = ref]
    ELSE IF g.value = 1 THEN [DecodeSize(g.coder, m.pos, most - ref) EXCEPT !.value = ref + @]
    ELSE [DecodeSize(g.coder, m.neg, ref - least) EXCEPT !.value = ref - @])
=============================================================================
