---------------------------- MODULE TokenPredictor ----------------------------
(***************************************************************************)
(* preflate's token predictor (preflate_token_predictor): analyzeBlock     *)
(* predicts every token of a deflate stream and records how the real one   *)
(* differs, encodeBlock turns the records into codes, updateCounters       *)
(* counts the codes for the model of the coder, and decodeBlock, given the *)
(* uncompressed data and the codes, predicts again and corrects.  Here an  *)
(* arbitrary compressor writes the blocks; then the codes are made and     *)
(* counted, and the blocks are decoded one token after the other.          *)
(***************************************************************************)
EXTENDS PredictorState, Bags

CONSTANTS
  Cases,          \* the data and the parameters of the predictor considered:
                  \* the first config.offset bytes are context only
  TooFar,         \* a match of three bytes must not be further away (4096)
  MaxTokenCount,  \* the tokens of a block, by the memory level
  MaxBlocks,      \* bounds the blocks written
  MaxEmpty        \* bounds the empty blocks among them

VARIABLES
  phase,      \* "analyze"; then "header", "tokens", "eof" for a block; "done"
  input,      \* the uncompressed data
  config,     \* the parameters of the predictor
  pos,        \* the position of the predictor in it
  nodes,      \* the positions of its hash chains
  prevLen,    \* the match before a lazy one
  pending,    \* the lazy match, to be predicted next
  count,      \* the tokens of the current block
  blocks,     \* the blocks written: what has to be restored
  results,    \* analysisResults, one for each block
  failed,     \* predictionFailure
  codes,      \* what is still to be read of the coded predictions
  checkEOB,   \* the end of the block is predicted
  blocksize,  \* its tokens, when it is not
  restored    \* the blocks decoded

analysis == <<pos, nodes, prevLen, pending, count, results, failed>>

vars == <<phase, input, config, pos, nodes, prevLen, pending, count, blocks,
          results, failed, codes, checkEOB, blocksize, restored>>

StoredType == "stored"
HuffTypes == {"dynamic", "static"}
Paddings == {0, 1, 3}     \* the bits before a stored block, in three cases

Available == Len(input) - pos

NewResult(type) ==
  [type |-> type, info |-> <<>>, correctives |-> <<>>, predicted |-> TRUE,
   tokenCount |-> 0, padding |-> 0, inputEOF |-> FALSE]

\* The constructor enters the data before the stream into the chains.
Context == {q \in 0..(config.offset - 1) : Hashable(input, q)}

Init ==
  /\ phase = "analyze"
  /\ \E case \in Cases : input = case.input /\ config = case.config
  /\ pos = config.offset
  /\ nodes = Context
  /\ prevLen = 0
  /\ pending = NoMatch
  /\ count = 0
  /\ blocks = <<>>
  /\ results = <<>>
  /\ failed = FALSE
  /\ codes = <<>>
  /\ checkEOB = TRUE
  /\ blocksize = 0
  /\ restored = <<>>

-----------------------------------------------------------------------------
(***************************************************************************)
(* The predictions.                                                        *)
(***************************************************************************)
PredictEOB == Available = 0 \/ count = MaxTokenCount

Search(best, at, depth) ==
  LET maxDepth == IF config.zlib THEN 0 ELSE depth
  IN IF ~config.fast /\ InRun(input, at)
     THEN SeqMatch(input, nodes, config, best, at, maxDepth)
     ELSE Match(input, nodes, config, best, at, maxDepth)

\* The bytes after the position that repeat its byte, up to the longest match.
Rle == LET most == Least(Available - 1, MaxMatch) IN Common(input, pos, pos + 1, most)

\* The match one byte further on.  When both positions have one hash, the
\* next one will find this one in its chain: the bytes in between repeat.
MatchNext(len) ==
  LET next == Search(len, pos + 1, 2 * config.depth)
  IN IF /\ config.fast \/ ~InRun(input, pos + 1)
        /\ HashAt(input, pos) = HashAt(input, pos + 1)
        /\ Rle > len
        /\ Rle >= next.len
     THEN Reference(Rle, 1) ELSE next

\* predictToken: the token, and the lazy match that is left for the next.
Only(t) == [token |-> t, prevLen |-> 0, pending |-> NoMatch]

PredictWith(match) ==
  LET look == match.len < config.lazy /\ Available >= match.len + 2
      Lazily(next) ==
        IF next.len <= match.len THEN Only(match)
        ELSE IF config.zlib THEN [token |-> Literal, prevLen |-> match.len, pending |-> next]
        ELSE Only(Literal)
  IN IF match.len < MinMatch THEN Only(Literal)
     ELSE IF config.fast THEN Only(match)
     ELSE IF match.len = MinMatch /\ match.dist > TooFar THEN Only(Literal)
     ELSE IF look THEN Lazily(MatchNext(match.len))
     ELSE Only(match)

PredictToken ==
  IF pos = 0 \/ Available < MinMatch
  THEN [token |-> Literal, prevLen |-> prevLen, pending |-> pending]
  ELSE PredictWith(IF pending.len > 1 THEN pending ELSE Search(prevLen, pos, config.depth))

\* repredictReference: when the literal that was predicted is none.
Repredicted ==
  IF pos = 0 \/ Available < MinMatch
  THEN NoMatch
  ELSE Match(input, nodes, config, 0, pos, 2 * config.depth)

\* The reference instead of the prediction p, and the state after a reference.
Guess(p) == IF p.token.len = 1 THEN Repredicted ELSE p.token
LookAfter(p) == IF p.token.len = 1 THEN Only(NoMatch) ELSE p

\* commitToken: a fast compressor enters only the first position of a long
\* match into the chains.
CommitToken(t) ==
  LET new == IF config.fast /\ t.len > config.lazy THEN {pos} ELSE pos..(pos + t.len - 1)
  IN /\ nodes' = nodes \cup {q \in new : Hashable(input, q)}
     /\ pos' = pos + t.len
     /\ count' = count + 1

Lookahead(p) == prevLen' = p.prevLen /\ pending' = p.pending

Forget == prevLen' = 0 /\ pending' = NoMatch

-----------------------------------------------------------------------------
(***************************************************************************)
(* analyzeBlock, for the tokens of any compressor.                         *)
(***************************************************************************)
Tokens ==
  {t \in {Literal} : Available > 0} \cup
  {t \in [len : MinMatch..Least(MaxMatch, Available), dist : 1..Least(pos, Window),
          irregular : BOOLEAN] :
     /\ Common(input, pos - t.dist, pos, t.len) = t.len
     /\ t.irregular => t.len = MaxMatch}

Writing == phase = "analyze" /\ ~failed

InBlock == blocks # <<>> /\ ~Last(blocks).closed

OpenBlock(type) ==
  /\ Writing
  /\ ~InBlock
  /\ Len(blocks) < MaxBlocks
  /\ Available > 0 \/ Cardinality({i \in DOMAIN blocks : blocks[i].size = 0}) < MaxEmpty
  /\ blocks' = Append(blocks, [type |-> type, tokens |-> <<>>, size |-> 0,
                               padding |-> 0, closed |-> FALSE])
  /\ results' = Append(results, NewResult(type))
  /\ count' = 0
  /\ Forget
  /\ UNCHANGED <<phase, input, config, pos, nodes, failed, codes, checkEOB, blocksize, restored>>

\* What the records say of one token, and whether they can say it: the
\* position of a reference that was not predicted must be in the chain.
Record(t, p, guess, again) ==
  LET literal == p.token.len = 1
      badLen == guess.len # t.len
      badDist == ~badLen /\ guess.dist # t.dist
      long == IF t.len # MaxMatch THEN {} ELSE IF t.irregular THEN {"long", "irregular"} ELSE {"long"}
  IN IF t.len = 1
     THEN [ok |-> TRUE, look |-> p, correctives |-> <<>>,
           info |-> [kind |-> IF literal THEN "lit" ELSE "badlit", flags |-> {}]]
     ELSE [ok |-> guess.len >= MinMatch /\ (badLen \/ badDist => again.found),
           look |-> LookAfter(p),
           correctives |-> IF badLen THEN <<guess.len, t.len - guess.len, again.hops - 1>>
                           ELSE IF badDist THEN <<again.hops - 1>> ELSE <<>>,
           info |-> [kind |-> IF literal THEN "badref" ELSE "ref",
                     flags |-> long \cup (IF badLen THEN {"len"} ELSE {})
                                    \cup (IF badDist THEN {"dist"} ELSE {})]]

AnalyzeToken(t) ==
  /\ Writing
  /\ InBlock
  /\ Last(blocks).type \in HuffTypes
  /\ blocks' = [blocks EXCEPT ![Len(results)].tokens = Append(@, t), ![Len(results)].size = @ + t.len]
  /\ \E p \in {PredictToken} : \E r \in {Record(t, p, Guess(p), Rematch(input, nodes, pos, t))} :
       IF r.ok
       THEN /\ results' = [results EXCEPT ![Len(results)].info = Append(@, r.info),
                                          ![Len(results)].correctives = @ \o r.correctives,
                                          ![Len(results)].predicted = @ /\ ~PredictEOB]
            /\ Lookahead(r.look)
            /\ CommitToken(t)
            /\ UNCHANGED failed
       ELSE /\ failed' = TRUE
            /\ UNCHANGED <<results, prevLen, pending, nodes, pos, count>>
  /\ UNCHANGED <<phase, input, config, codes, checkEOB, blocksize, restored>>

CloseBlock ==
  /\ Writing
  /\ InBlock
  /\ Last(blocks).type \in HuffTypes
  /\ LET n == Len(results)
     IN /\ blocks' = [blocks EXCEPT ![n].closed = TRUE]
        /\ results' = [results EXCEPT ![n].predicted = @ /\ PredictEOB,
                                      ![n].tokenCount = count,
                                      ![n].inputEOF = Available = 0]
  /\ UNCHANGED <<phase, input, config, pos, nodes, prevLen, pending, count, failed,
                 codes, checkEOB, blocksize, restored>>

AnalyzeStored(l, bits) ==
  /\ Writing
  /\ InBlock
  /\ Last(blocks).type = StoredType
  /\ LET n == Len(results)
     IN /\ blocks' = [blocks EXCEPT ![n].size = l, ![n].padding = bits, ![n].closed = TRUE]
        /\ results' = [results EXCEPT ![n].tokenCount = l, ![n].padding = bits,
                                      ![n].inputEOF = Available = l]
  /\ nodes' = nodes \cup {q \in pos..(pos + l - 1) : Hashable(input, q)}
  /\ pos' = pos + l
  /\ UNCHANGED <<phase, input, config, prevLen, pending, count, failed,
                 codes, checkEOB, blocksize, restored>>

-----------------------------------------------------------------------------
(***************************************************************************)
(* encodeBlock and encodeEOF.  A code is its context and its value.        *)
(***************************************************************************)
Code(context, value) == [context |-> context, value |-> value]

RECURSIVE BitLength(_)
BitLength(v) == IF v = 0 THEN 0 ELSE 1 + BitLength(v \div 2)

\* The codes of one token, with the correctives it takes.
TokenCodes(info, cs) ==
  LET first == CASE info.kind = "lit"    -> Code("literal wrong", FALSE)
                 [] info.kind = "badlit" -> Code("reference wrong", TRUE)
                 [] info.kind = "ref"    -> Code("reference wrong", FALSE)
                 [] info.kind = "badref" -> Code("literal wrong", TRUE)
      length == IF "len" \in info.flags
                THEN <<Code("length", cs[2]), Code("distance after length", cs[3])>>
                ELSE <<Code("length", 0),
                       Code("distance only", IF "dist" \in info.flags THEN cs[1] ELSE 0)>>
      long == IF "long" \in info.flags
              THEN <<Code("irregular", "irregular" \in info.flags)>> ELSE <<>>
  IN IF info.kind \in {"lit", "badlit"} THEN <<first>> ELSE <<first>> \o length \o long

Taken(info) == IF "len" \in info.flags THEN 3 ELSE IF "dist" \in info.flags THEN 1 ELSE 0

AllTokenCodes(r) ==
  FoldLeft(LAMBDA s, info :
             [out |-> s.out \o TokenCodes(info, SubSeq(r.correctives, s.at + 1, s.at + Taken(info))),
              at |-> s.at + Taken(info)],
           [out |-> <<>>, at |-> 0], r.info).out

Value(v, bits) == Code("bits", [value |-> v % 2^bits, width |-> bits])

PaddingCodes(bits) ==
  LET n == BitLength(bits)
  IN IF bits = 0 THEN <<Code("padding", FALSE)>>
     ELSE <<Code("padding", TRUE), Value(n, 3)>>
          \o IF n > 1 THEN <<Value(bits, n - 1)>> ELSE <<>>

SizeCodes(r) ==
  LET n == BitLength(r.tokenCount)
  IN IF r.predicted THEN <<Code("eob wrong", FALSE)>>
     ELSE <<Code("eob wrong", TRUE), Value(n, 5)>>
          \o IF n >= 2 THEN <<Value(r.tokenCount, n)>> ELSE <<>>

EncodeBlock(r) ==
  <<Code("type", r.type)>> \o
  IF r.type = StoredType
  THEN <<Value(r.tokenCount, 16)>> \o PaddingCodes(r.padding)
  ELSE SizeCodes(r) \o AllTokenCodes(r)

\* The last block of the stream is told from the others when no input is left.
EncodeEOF(r, last) ==
  IF config.last /\ r.inputEOF THEN <<Value(IF last THEN 0 ELSE 1, 1)>> ELSE <<>>

Encoded ==
  FoldLeft(LAMBDA s, i : s \o EncodeBlock(results[i])
                           \o EncodeEOF(results[i], i = Len(results)),
           <<>>, [i \in 1..Len(results) |-> i])

(***************************************************************************)
(* updateCounters: a second pass over the records counts what the models   *)
(* of the coder are built from; plain bits need no model.                  *)
(***************************************************************************)
CountToken(s, info) ==
  LET cs == SubSeq(s.left, 1, Taken(info))
      ref == info.kind \in {"ref", "badref"}
      wrong == info.kind \in {"badlit", "badref"}
      n == Len(cs)
      new == {Code(IF info.kind \in {"lit", "badref"} THEN "literal wrong"
                   ELSE "reference wrong", wrong)}
             \cup (IF ref THEN {Code("length", IF n = 3 THEN cs[2] ELSE 0),
                               Code(IF n = 3 THEN "distance after length" ELSE "distance only",
                                    IF n = 0 THEN 0 ELSE cs[n])} ELSE {})
             \cup (IF ref /\ "long" \in info.flags
                   THEN {Code("irregular", "irregular" \in info.flags)} ELSE {})
  IN [bag |-> s.bag (+) SetToBag(new), left |-> SubSeq(s.left, n + 1, Len(s.left))]

\* Mutant: the flag is counted as the model does not ask for it.
UpdateCountersInverted(bag, r) ==
  LET type == bag (+) SetToBag({Code("type", r.type)})
  IN IF r.type = StoredType
     THEN type (+) SetToBag({Code("padding", r.padding # 0)})
     ELSE FoldLeft(CountToken,
                   [bag |-> type (+) SetToBag({Code("eob wrong", r.predicted)}),
                    left |-> r.correctives],
                   r.info).bag

UpdateCounters(bag, r) ==
  LET type == bag (+) SetToBag({Code("type", r.type)})
  IN IF r.type = StoredType
     THEN type (+) SetToBag({Code("padding", r.padding # 0)})
     ELSE FoldLeft(CountToken,
                   [bag |-> type (+) SetToBag({Code("eob wrong", ~r.predicted)}),
                    left |-> r.correctives],
                   r.info).bag

Counters == FoldLeft(UpdateCounters, EmptyBag, results)

\* All input is in blocks: their codes are written, and a new predictor
\* starts over the same data.  Blocks that are not the last of the stream
\* are cut off after one that has data.
Encode ==
  /\ Writing
  /\ ~InBlock
  /\ Available = 0
  /\ blocks # <<>>
  /\ config.last \/ Last(blocks).size > 0
  /\ codes' = Encoded
  /\ phase' = "header"
  /\ pos' = config.offset
  /\ nodes' = Context
  /\ count' = 0
  /\ Forget
  /\ UNCHANGED <<input, config, blocks, results, failed, checkEOB, blocksize, restored>>

-----------------------------------------------------------------------------
(***************************************************************************)
(* decodeBlock and decodeEOF.                                              *)
(***************************************************************************)
Reading(at) == phase = at /\ ~failed

DecodeStored ==
  LET rest == SubSeq(codes, 4, Len(codes))
      n == rest[1].value.value
      padded == codes[3].value
      bits == IF n > 1 THEN 2^(n - 1) + rest[2].value.value ELSE 2^(n - 1)
      l == codes[2].value.value
      used == IF ~padded THEN 3 ELSE IF n > 1 THEN 5 ELSE 4
  IN /\ codes' = SubSeq(codes, used + 1, Len(codes))
     /\ restored' = Append(restored, [type |-> StoredType, tokens |-> <<>>, size |-> l,
                                      padding |-> IF padded THEN bits ELSE 0, closed |-> TRUE])
     /\ nodes' = nodes \cup {q \in pos..(pos + l - 1) : Hashable(input, q)}
     /\ pos' = pos + l
     /\ phase' = "eof"
     /\ UNCHANGED <<checkEOB, blocksize>>

DecodeSize(type) ==
  LET wrong == codes[2].value
      n == codes[3].value.value
  IN /\ checkEOB' = ~wrong
     /\ blocksize' = IF ~wrong THEN 0 ELSE IF n >= 2 THEN codes[4].value.value ELSE n
     /\ codes' = SubSeq(codes, IF ~wrong THEN 3 ELSE IF n >= 2 THEN 5 ELSE 4, Len(codes))
     /\ restored' = Append(restored, [type |-> type, tokens |-> <<>>, size |-> 0,
                                      padding |-> 0, closed |-> FALSE])
     /\ phase' = "tokens"
     /\ UNCHANGED <<nodes, pos>>

DecodeHeader ==
  /\ Reading("header")
  /\ IF codes[1].value = StoredType THEN DecodeStored ELSE DecodeSize(codes[1].value)
  /\ count' = 0
  /\ Forget
  /\ UNCHANGED <<input, config, blocks, results, failed>>

MoreTokens == IF checkEOB THEN ~PredictEOB ELSE count < blocksize

\* Mutant: the hops of a corrected length are counted from the predicted distance.
CorrectedDistFromGuess(guess, len) ==
  HopMatch(input, nodes, pos, Reference(len, guess.dist), codes[3].value)

\* The distance so many hops after the predicted one or, for another length,
\* after the first match of it.
CorrectedDist(guess, len) ==
  LET from == IF len # guess.len THEN FirstMatch(input, nodes, pos, len) ELSE guess.dist
  IN HopMatch(input, nodes, pos, Reference(len, from), codes[3].value)

\* The token that the next codes make of the prediction p, guess being the
\* reference in its place; used counts the codes.
CorrectedBy(p, guess, len, dist) ==
  [token |-> [len |-> len, dist |-> dist, irregular |-> len = MaxMatch /\ codes[4].value],
   look |-> LookAfter(p),
   used |-> IF len = MaxMatch THEN 4 ELSE 3,
   ok |-> dist # 0 /\ len \in MinMatch..MaxMatch]

Corrected(p, guess) ==
  LET len == guess.len + codes[2].value
  IN IF (p.token.len = 1) # codes[1].value
     THEN [token |-> Literal, look |-> p, used |-> 1, ok |-> TRUE]
     ELSE IF guess.len < MinMatch
     THEN [token |-> NoMatch, look |-> p, used |-> 1, ok |-> FALSE]
     ELSE CorrectedBy(p, guess, len, CorrectedDist(guess, len))

DecodeToken ==
  /\ Reading("tokens")
  /\ MoreTokens
  /\ \E p \in {PredictToken} : \E r \in {Corrected(p, Guess(p))} :
       IF r.ok
       THEN /\ restored' = [restored EXCEPT ![Len(restored)].tokens = Append(@, r.token),
                                            ![Len(restored)].size = @ + r.token.len]
            /\ codes' = SubSeq(codes, r.used + 1, Len(codes))
            /\ CommitToken(r.token)
            /\ Lookahead(r.look)
            /\ UNCHANGED failed
       ELSE /\ failed' = TRUE
            /\ UNCHANGED <<restored, codes, nodes, pos, count, prevLen, pending>>
  /\ UNCHANGED <<phase, input, config, blocks, results, checkEOB, blocksize>>

CloseDecoded ==
  /\ Reading("tokens")
  /\ ~MoreTokens
  /\ restored' = [restored EXCEPT ![Len(restored)].closed = TRUE]
  /\ phase' = "eof"
  /\ UNCHANGED <<input, config, pos, nodes, prevLen, pending, count, blocks,
                 results, failed, codes, checkEOB, blocksize>>

\* After every block: decodeEOF for the last blocks of the stream, inputEOF
\* for others.  Only without input left is there a code to read.
DecodeEOF ==
  /\ Reading("eof")
  /\ LET coded == config.last /\ Available = 0
     IN /\ codes' = IF coded THEN Tail(codes) ELSE codes
        /\ phase' = IF Available = 0 /\ (coded => codes[1].value.value = 0)
                    THEN "done" ELSE "header"
  /\ UNCHANGED <<input, config, pos, nodes, prevLen, pending, count, blocks,
                 results, failed, checkEOB, blocksize, restored>>

Next ==
  \/ \E type \in HuffTypes \cup {StoredType} : OpenBlock(type)
  \/ \E t \in Tokens : AnalyzeToken(t)
  \/ CloseBlock
  \/ \E l \in 0..Available, bits \in Paddings : AnalyzeStored(l, bits)
  \/ Encode
  \/ DecodeHeader \/ DecodeToken \/ CloseDecoded \/ DecodeEOF

Spec == Init /\ [][Next]_vars

-----------------------------------------------------------------------------
(***************************************************************************)
(* What decodeBlock and decodeEOF restore are the blocks that were         *)
(* analyzed: their types, tokens, sizes and padding, in order, and at the  *)
(* end every code has been used.                                           *)
(***************************************************************************)
RoundTrip ==
  /\ \A i \in DOMAIN restored :
       /\ i <= Len(blocks)
       /\ restored[i].closed => restored[i] = blocks[i]
       /\ ~restored[i].closed => /\ restored[i].type = blocks[i].type
                                 /\ IsPrefix(restored[i].tokens, blocks[i].tokens)
  /\ phase = "done" => restored = blocks /\ codes = <<>>

(***************************************************************************)
(* Once analyzeBlock has accepted all the blocks decodeBlock does not fail *)
(* on any of them: there is no correction it does not understand, and none *)
(* is lost when the same token is predicted again (predictionFailure).     *)
(***************************************************************************)
NoLateFailure == phase # "analyze" => ~failed

(***************************************************************************)
(* The two passes over the records agree: what encodeBlock writes with a   *)
(* model is what updateCounters has counted for it, so that every code has *)
(* a place in its model.                                                   *)
(***************************************************************************)
CountsRight ==
  phase = "header" /\ restored = <<>> =>
    \A i \in DOMAIN codes :
      codes[i].context # "bits" =>
        CopiesIn(codes[i], Counters)
          = Len(SelectSeq(codes, LAMBDA x : x = codes[i]))

(***************************************************************************)
(* The search among the runs finds what the search along the chain finds,  *)
(* token for token: at every position of a run, after any shorter match of *)
(* the position before, with all positions before in the chains, whatever  *)
(* the runs there look like (seqMatch against match).                      *)
(***************************************************************************)
SeqMatchAgrees ==
  phase = "analyze" /\ blocks = <<>> /\ ~config.fast =>
    \A p \in 1..(Len(input) - MinMatch), best \in 0..(config.lazy - 1) :
      LET depth == IF config.zlib THEN 0 ELSE config.depth
      IN InRun(input, p) =>
           SeqMatch(input, 0..(p - 1), config, best, p, depth)
             = Match(input, 0..(p - 1), config, best, p, depth)
=============================================================================
