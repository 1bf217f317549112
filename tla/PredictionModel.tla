--------------------------- MODULE PredictionModel ---------------------------
(***************************************************************************)
(* All models of a meta block (preflate_statistical_model,                 *)
(* preflate_statistical_codec): what was counted for each kind of          *)
(* prediction, which kinds were always predicted right and need no model   *)
(* of their own, the models written to and read from a stream, and the     *)
(* codes of the predictions written with them.                             *)
(*   A code is [kind, ref, value]: the predicted value and the right one.  *)
(***************************************************************************)
EXTENDS SubModel

CONSTANTS
  Dynamic,                                  \* the number of the block type of a dynamic block (1)
  TCClamp, LDClamp, LenClamp, HopClamp,     \* the differences counted each on its own (3, 4, 6, 3)
  TCRange, LDRange, RepRange, LenRange, HopRange, \* <<least, most>> of corrected values;
                                            \* RepRange has one for each of the repeats
  DeriveShift                               \* how far the derived counts are scaled down (4)

\* The kinds of predictions with the shapes of their models, in the order of
\* the stream, in their three groups.  A type code is predicted by one of four
\* flags and, when it was wrong, by the model of the replacements.
Flag(kind) == [kind |-> kind, n |-> 2, default |-> 0]
Correct(kind, neg, pos) == [kind |-> kind, n |-> 0, neg |-> neg, pos |-> pos]

BlockKinds == <<[kind |-> "type", n |-> 3, default |-> Dynamic], Flag("eob wrong"), Flag("padding")>>
TreeKinds ==
  <<Flag("code count wrong"), Flag("literal count wrong"), Flag("distance count wrong"),
    Flag("BITS wrong"), Flag("REP wrong"), Flag("REPZS wrong"), Flag("REPZL wrong"),
    [kind |-> "replacement", n |-> 4, default |-> 0],
    Correct("code bits", TCClamp, TCClamp), Correct("length bits", LDClamp, LDClamp),
    Correct("repeat", 1, 1)>>
TokenKinds ==
  <<Flag("literal wrong"), Flag("reference wrong"), Correct("length", LenClamp, LenClamp),
    Correct("distance after length", 0, HopClamp), Correct("distance only", 0, HopClamp),
    Flag("irregular")>>

Groups == <<BlockKinds, TreeKinds, TokenKinds>>
Shapes == BlockKinds \o TreeKinds \o TokenKinds
Kinds == {Shapes[i].kind : i \in DOMAIN Shapes}
ShapeOf(kind) == Shapes[CHOOSE i \in DOMAIN Shapes : Shapes[i].kind = kind]
TypeFlags == <<"BITS wrong", "REP wrong", "REPZS wrong", "REPZL wrong">>

-----------------------------------------------------------------------------
\* The counters: how often each symbol of each kind came.
NoCounts ==
  [k \in Kinds |-> LET s == ShapeOf(k)
                   IN [i \in 1..(IF s.n > 0 THEN s.n ELSE s.neg + 1 + s.pos) |-> 0]]

\* A difference that is too large is counted as the last one of its side.
Clamped(s, d) == Greater(Lesser(d, s.pos), -s.neg) + s.neg

Counted(counts, kind, value) ==
  LET s == ShapeOf(kind)
  IN [counts EXCEPT ![kind][(IF s.n > 0 THEN value ELSE Clamped(s, value)) + 1] = @ + 1]

\* checkDefaultModels: the kinds of a group that nothing went wrong with.
Usual(counts, s) ==
  LET c == counts[s.kind]
  IN IF s.kind = "replacement" THEN Total(c) = 0
     ELSE Total(c) = c[IF s.n > 0 THEN s.default + 1 ELSE s.neg + 1]

UsualIn(counts, group) == Cardinality({i \in DOMAIN group : Usual(counts, group[i])})

\* The codec of the models: which groups are usual throughout, and how many
\* models of the other ones are.
CodecOf(full, defaulting) ==
  LET total == Total([g \in 1..3 |-> IF full[g] THEN 0 ELSE Len(Groups[g])])
  IN [full |-> full, total |-> total, defaulting |-> defaulting,
      flag |-> Build(<<defaulting, total - defaulting>>, 0)]

CodecFor(counts) ==
  LET full == [g \in 1..3 |-> UsualIn(counts, Groups[g]) = Len(Groups[g])]
  IN CodecOf(full, Total([g \in 1..3 |-> IF full[g] THEN 0 ELSE UsualIn(counts, Groups[g])]))

EncodeCodec(c, codec) ==
  LET flags == FoldLeft(LAMBDA s, g : EncodeBits(s, IF codec.full[g] THEN 1 ELSE 0, 1), c, <<1, 2, 3>>)
  IN EncodeBits(flags, codec.defaulting, BitLength(codec.total))

DecodeCodec(c) ==
  LET Full == FoldLeft(LAMBDA s, i : With(DecodeBits(s.coder, 1),
                           LAMBDA g : [value |-> Append(s.value, g.value = 1), coder |-> g.coder]),
                         [value |-> <<>>, coder |-> c], <<1, 2, 3>>)
      Codec(full, coder) ==
        [DecodeBits(coder, BitLength(CodecOf(full, 0).total)) EXCEPT !.value = CodecOf(full, @)]
  IN With(Full, LAMBDA g : Codec(g.value, g.coder))

-----------------------------------------------------------------------------
(***************************************************************************)
(* The models.  That of a type code is derived from the shares of the      *)
(* flag of the predicted type and of the replacements.                     *)
(***************************************************************************)
Derived(flag, replacement, type) ==
  LET arr == Extract(replacement)
      flags == Extract(flag)
      wrong == IF flags[1] = 0 THEN 1 ELSE flags[2]
      hits == Total([j \in 1..4 |-> IF j = type + 1 THEN 0 ELSE arr[j] * flags[1]])
      shrunk(v) == IF v > 0 /\ v < 2^DeriveShift THEN 1 ELSE v \div 2^DeriveShift
  IN IF flags[2] = 0 THEN BuildDefault(4, type)
     ELSE Build([j \in 1..4 |-> shrunk(IF j = type + 1 THEN hits ELSE arr[j] * wrong)], type)

WithDerived(models) ==
  [models |-> models,
   types |-> [t \in 0..3 |-> Derived(models[TypeFlags[t + 1]], models["replacement"], t)]]

DefaultModel(s) == IF s.n > 0 THEN BuildDefault(s.n, s.default) ELSE DefaultCorrection(s.neg, s.pos)

ModelsFor(counts) ==
  WithDerived([k \in Kinds |-> LET s == ShapeOf(k)
                               IN IF s.n > 0 THEN Build(counts[k], s.default)
                                  ELSE BuildCorrection(counts[k], s.neg, s.pos)])

IsDefault(s, m) == IF s.n > 0 THEN m.default ELSE IsDefaultCorrection(m)

\* writeToStream, readFromStream: of every group that is not usual throughout,
\* a flag for each model and the models that are not the default.
WriteModel(c, codec, s, m) ==
  With(EncodeItem(c, codec.flag, IF IsDefault(s, m) THEN 0 ELSE 1), LAMBDA v :
    IF IsDefault(s, m) THEN v
    ELSE IF s.n > 0 THEN WriteSubModel(v, m) ELSE WriteCorrection(v, m))

Sent(codec) ==
  FlattenSeq([g \in 1..3 |-> IF codec.full[g] THEN <<>> ELSE Groups[g]])

WriteModels(c, codec, models) ==
  FoldLeft(LAMBDA v, s : WriteModel(v, codec, s, models.models[s.kind]), c, Sent(codec))

ReadModel(c, codec, s) ==
  With(DecodeItem(c, codec.flag), LAMBDA g :
    IF g.value = 0 THEN [value |-> DefaultModel(s), coder |-> g.coder]
    ELSE IF s.n > 0 THEN ReadSubModel(g.coder, s.n) ELSE ReadCorrection(g.coder, s.neg, s.pos))

ReadModels(c, codec) ==
  LET defaults == [k \in Kinds |-> DefaultModel(ShapeOf(k))]
      Read(v, s) == With(ReadModel(v.coder, codec, s), LAMBDA r :
                           [value |-> [v.value EXCEPT ![s.kind] = r.value], coder |-> r.coder])
  IN [FoldLeft(Read, [value |-> defaults, coder |-> c], Sent(codec)) EXCEPT !.value = WithDerived(@)]

\* isEqual of two sets of models.
SameModels(a, b) ==
  \A k \in Kinds :
    IF ShapeOf(k).n > 0 THEN SameModel(a.models[k], b.models[k])
    ELSE \A part \in {"sign", "pos", "neg"} : SameModel(a.models[k][part], b.models[k][part])

-----------------------------------------------------------------------------
(***************************************************************************)
(* Codes: a flag or a type with one of the models, a type of a tree code   *)
(* with the model derived for the predicted type, a corrected value, or    *)
(* plain bits, as many as ref says.                                        *)
(***************************************************************************)
Code(kind, ref, value) == [kind |-> kind, ref |-> ref, value |-> value]

RangeOf(kind) ==
  CASE kind = "code bits" -> TCRange [] kind = "length bits" -> LDRange
    [] kind = "length" -> LenRange [] OTHER -> HopRange

\* The kinds that have one model, for flags and types.
IsItem(kind) == kind = "tree type" \/ (kind # "repeat" /\ ShapeOf(kind).n > 0)
ItemModel(models, kind, ref) ==
  IF kind = "tree type" THEN models.types[ref] ELSE models.models[kind]

\* The repeat that a count is for is part of its reference: <<predicted, type>>.
EncodeCode(c, models, code) ==
  LET ref == IF code.kind = "repeat" THEN code.ref[1] ELSE code.ref
      range == IF code.kind = "repeat" THEN RepRange[code.ref[2]] ELSE RangeOf(code.kind)
  IN CASE code.kind = "bits" -> EncodeBits(c, code.value, ref)
       [] IsItem(code.kind) -> EncodeItem(c, ItemModel(models, code.kind, ref), code.value)
       [] OTHER -> EncodeCorrection(c, models.models[code.kind], code.value, ref, range[1], range[2])

DecodeCode(c, models, kind, ref) ==
  LET guess == IF kind = "repeat" THEN ref[1] ELSE ref
      range == IF kind = "repeat" THEN RepRange[ref[2]] ELSE RangeOf(kind)
  IN CASE kind = "bits" -> DecodeBits(c, guess)
       [] IsItem(kind) -> DecodeItem(c, ItemModel(models, kind, guess))
       [] OTHER -> DecodeCorrection(c, models.models[kind], guess, range[1], range[2])

\* Bits that are only sent when they are not all zero.
PaddingCodes(bits) ==
  LET n == BitLength(bits)
  IN IF bits = 0 THEN <<Code("padding", 0, 0)>>
     ELSE <<Code("padding", 0, 1), Code("bits", 3, n)>>
          \o (IF n > 1 THEN <<Code("bits", n - 1, bits % 2^(n - 1))>> ELSE <<>>)

DecodePadding(c, models) ==
  LET Bits(v, n, coder) == [value |-> v, bits |-> n, coder |-> coder]
      Rest(n, coder) ==
        IF n = 0 THEN Bits(0, 0, coder)
        ELSE With(DecodeBits(coder, n - 1), LAMBDA v : Bits(2^(n - 1) + v.value, n, v.coder))
  IN With(DecodeCode(c, models, "padding", 0), LAMBDA g :
       IF g.value = 0 THEN Bits(0, 0, g.coder)
       ELSE With(DecodeBits(g.coder, 3), LAMBDA n : Rest(n.value, n.coder)))

EncodeCodes(c, models, codes) == FoldLeft(LAMBDA s, code : EncodeCode(s, models, code), c, codes)
=============================================================================
