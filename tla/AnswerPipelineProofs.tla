------------------------ MODULE AnswerPipelineProofs ------------------------
(***************************************************************************)
(* Proofs about the engine's work on text, for every set of inputs: what   *)
(* is shown of a reply while it is decoded is the reply that is kept, a    *)
(* prompt goes with a history that leaves room for the reply, a document   *)
(* is its chunks, and a search finds what it asks for and keeps the best   *)
(* of what it finds.                                                       *)
(***************************************************************************)
EXTENDS AnswerPipeline, RetrievalProofs

-----------------------------------------------------------------------------
(* A reply being decoded. What has been shown and the half of a character   *)
(* that is still kept back are, together, what the bridge held before and   *)
(* out, what the gate has let through; at the end this is what stripping    *)
(* leaves of the reply.                                                     *)

Halves == {<<>>, <<Lead>>}

DecodeHasItsFields(c) ==
  c = [op |-> c.op, at |-> c.at, room |-> c.room, reply |-> c.reply,
       gate |-> c.gate, carried |-> c.carried, pending |-> c.pending,
       shown |-> c.shown, returned |-> c.returned, outcome |-> c.outcome,
       repeats |-> c.repeats]

LetThrough(c, out) ==
  /\ c.shown \o c.pending = c.carried \o out
  /\ \/ /\ c.at = "decoding" /\ c.outcome = "none"
        /\ GateFits(c.gate, c.reply, out)
     \/ /\ c.at = "done" /\ out = StripLeadingThinkBlock(c.reply)
        /\ c.outcome = "reply" => c.returned = out

(* The text on the screen does not end within a character of the whole.     *)
EndsWhole(shown, whole) == IsWholeText(whole) /\ shown # <<>> => Last(shown) # Lead

ReplyFits(c) ==
  /\ DecodeHasItsFields(c)
  /\ c.reply \in Text /\ c.shown \in Text
  /\ c.carried \in Halves /\ c.pending \in Halves
  /\ \E out \in Text : LetThrough(c, out)
  /\ EndsWhole(c.shown, c.carried \o c.reply)

(* Nothing but half a character goes from one reply to the next.            *)
CarriesHalf(c) == "carried" \in DOMAIN c /\ c.carried \in Halves

ReplyInv ==
  /\ "op" \in DOMAIN call
  /\ call.op \in {"prompt", "refusal"} => CarriesHalf(call)
  /\ call.op = "decode" => ReplyFits(call)

-----------------------------------------------------------------------------
(* A text is whole only if its beginning is.                                *)
LEMMA WholeBefore ==
  ASSUME NEW reply \in Text, NEW piece \in Text, IsWholeText(reply \o piece)
  PROVE  IsWholeText(reply)
<1>1. /\ Len(reply) \in Nat /\ Len(piece) \in Nat /\ DOMAIN reply = 1 .. Len(reply)
      /\ DOMAIN (reply \o piece) = 1 .. Len(reply \o piece)
  BY SymbolOf, CatIsText
<1>2. /\ Len(reply \o piece) = Len(reply) + Len(piece)
      /\ \A i \in 1 .. Len(reply) : (reply \o piece)[i] = reply[i]
  BY CatIsText
<1>3. ASSUME NEW i \in 1 .. Len(reply), reply[i] = Lead, i < Len(reply)
      PROVE  reply[i+1] = Continuation
  <2>1. i + 1 \in 1 .. Len(reply) /\ i \in 1 .. Len(reply \o piece) /\ i < Len(reply \o piece)
    BY <1>1, <1>2, <1>3
  <2>2. (reply \o piece)[i+1] = Continuation
    BY <1>1, <1>2, <1>3, <2>1 DEF IsWholeText
  <2>3. QED BY <1>2, <2>1, <2>2
<1>4. QED BY <1>1, <1>3 DEF IsWholeText

(* The bridge made seen and kept of what it had kept before and a piece.    *)
Passed(pending, piece, seen, kept) ==
  /\ seen \in Text /\ kept \in Halves
  /\ seen \o kept = pending \o piece
  /\ seen # <<>> /\ Last(seen) = Lead => kept = <<Lead>>

(* A stretch of the reply.                                                  *)
IsPart(out, reply) == \E more \in Text : IsTail(out \o more, reply)

LEMMA HalvesAreText == Halves \subseteq Text
<1>1. <<Lead>> \in Text
  BY DEF Text, Symbols
<1>2. QED BY <1>1, NothingIsText DEF Halves

LEMMA BridgePasses ==
  ASSUME NEW pending \in Halves, NEW piece \in Text
  PROVE  Passed(pending, piece, Bridge(pending, piece).shown, Bridge(pending, piece).pending)
BY BridgeKeeps DEF Passed, Halves

LEMMA HalfAndTexts ==
  ASSUME NEW half \in Halves, NEW s \in Text, NEW t \in Text
  PROVE  (half \o s) \o t = half \o (s \o t)
BY HalvesAreText, CatAgain

(* Behind half a character no block of reasoning begins in a whole text.    *)
LEMMA PartOfWhole ==
  ASSUME NEW carried \in Halves, NEW reply \in Text, NEW out \in Text, NEW rest \in Text,
         out \o rest = StripLeadingThinkBlock(reply), IsWholeText(carried \o reply)
  PROVE  IsPart(carried \o out, carried \o reply)
<1> DEFINE whole == carried \o reply
<1>1. carried \in Text
  BY HalvesAreText
<1>2. whole \in Text /\ Len(whole) = Len(carried) + Len(reply)
  BY <1>1, CatIsText
<1>3. CASE carried = <<>>
  <2>1. carried \o out = out /\ carried \o reply = reply
    BY <1>3, CatWithNothing
  <2>2. QED BY <2>1, StripIsTail DEF IsPart
<1>4. CASE carried = <<Lead>>
  <2>1. Len(carried) = 1 /\ carried[1] = Lead
    BY <1>4
  <2>2. /\ whole \in Text /\ Len(whole) = 1 + Len(reply) /\ Len(reply) \in Nat
        /\ DOMAIN whole = 1 .. Len(whole)
    <3> HIDE DEF whole
    <3>1. QED BY <1>2, <2>1, SymbolOf
  <2>3. ASSUME NEW f \in Formats, Opens(reply, f)
        PROVE  FALSE
    <3>1. Len(reply) >= 2 /\ reply[1] = "<"
      BY <2>3 DEF Opens
    <3>2. 1 \in 1 .. Len(carried) /\ 1 \in 1 .. Len(reply)
      BY <2>1, <2>2, <3>1
    <3>3. whole[1] = carried[1] /\ whole[Len(carried) + 1] = reply[1]
      BY <1>1, <3>2, CatIsText
    <3>4. whole[1] = Lead /\ whole[1 + 1] = "<"
      BY <2>1, <3>1, <3>3
    <3>5. 1 \in DOMAIN whole /\ 1 < Len(whole)
      BY <2>2, <3>1
    <3>6. whole[1 + 1] = Continuation
      <4>1. IsWholeText(whole)
        OBVIOUS
      <4> HIDE DEF whole
      <4>2. QED BY <3>4, <3>5, <4>1 DEF IsWholeText
    <3>7. QED BY <3>4, <3>6 DEF Continuation
  <2>4. out \o rest = reply
    BY <2>3, StripUnopened
  <2>5. (carried \o out) \o rest = whole
    BY <1>1, <2>4, CatAgain
  <2>6. IsTail(whole, whole)
    BY <2>2, WholeIsTail
  <2>7. QED BY <2>5, <2>6 DEF IsPart
<1>5. QED BY <1>3, <1>4 DEF Halves

LEMMA ShowKeeps ==
  ASSUME NEW shown \in Text, NEW pending \in Halves, NEW piece \in Text,
         NEW reply \in Text, NEW seen, NEW kept,
         Passed(pending, piece, seen, kept), EndsWhole(shown, reply),
         IsWholeText(reply) => IsPart((shown \o pending) \o piece, reply)
  PROVE  /\ shown \o seen \in Text /\ kept \in Halves
         /\ (shown \o seen) \o kept = (shown \o pending) \o piece
         /\ EndsWhole(shown \o seen, reply)
<1>1. pending \in Text
  BY HalvesAreText
<1>2. /\ seen \in Text /\ kept \in Halves
      /\ seen \o kept = pending \o piece
      /\ seen # <<>> /\ Last(seen) = Lead => kept = <<Lead>>
  BY DEF Passed
<1>3. kept \in Text
  BY <1>2, HalvesAreText
<1> DEFINE now == shown \o seen
           out == now \o kept
<1>4. now \in Text /\ out \in Text
  BY <1>2, <1>3, CatIsText
<1>5. out = (shown \o pending) \o piece
  <2>1. out = shown \o (seen \o kept)
    BY ZenonT(60), <1>2, <1>3, CatAgain
  <2>2. (shown \o pending) \o piece = shown \o (pending \o piece)
    BY SMTT(30), <1>1, CatAgain
  <2>3. QED BY <1>2, <2>1, <2>2
<1>6. ASSUME IsWholeText(reply), now # <<>>, Last(now) = Lead
      PROVE  FALSE
  <2>1. CASE seen = <<>>
    <3>1. now = shown
      BY <2>1, CatWithNothing
    <3>2. QED BY <1>6, <3>1 DEF EndsWhole
  <2>2. CASE seen # <<>>
    <3>1. Last(now) = Last(seen)
      BY <1>2, <2>2, LastOfCat
    <3>2. kept = <<Lead>>
      BY <1>2, <1>6, <2>2, <3>1
    <3> DEFINE n == Len(now)
    <3>3. n \in Nat /\ n # 0
      BY <1>4, <1>6, SymbolOf, TextWithout
    <3>4. /\ Len(out) = n + 1 /\ out[n] = Lead /\ out[n+1] = Lead
      <4>1. Len(<<Lead>>) = 1 /\ <<Lead>>[1] = Lead
        OBVIOUS
      <4>2. /\ Len(out) = n + Len(kept)
            /\ \A i \in 1 .. n : out[i] = now[i]
            /\ \A i \in 1 .. Len(kept) : out[n + i] = kept[i]
        BY <1>3, <1>4, CatIsText
      <4>3. now[n] = Lead
        BY <1>6 DEF Last
      <4> HIDE DEF out, n, now
      <4>4. n \in 1 .. n /\ 1 \in 1 .. 1
        BY <3>3
      <4>5. QED BY <3>2, <3>3, <4>1, <4>2, <4>3, <4>4
    <3>5. PICK more \in Text : IsTail(out \o more, reply)
      BY <1>5, <1>6 DEF IsPart
    <3>6. \A i \in 1 .. Len(out) : i < Len(out) /\ out[i] = Lead => out[i+1] = Continuation
      <4>1. \A i \in DOMAIN reply :
              reply[i] = Lead /\ i < Len(reply) => reply[i+1] = Continuation
        BY <1>6 DEF IsWholeText
      <4> HIDE DEF out
      <4>2. QED BY <1>4, <3>5, <4>1, CharactersStayWhole
    <3>7. n \in 1 .. Len(out) /\ n < Len(out)
      <4> HIDE DEF out, n
      <4>1. QED BY <3>3, <3>4
    <3>8. out[n+1] = Continuation
      <4> HIDE DEF out, n
      <4>1. QED BY <3>4, <3>6, <3>7
    <3>9. QED BY <3>4, <3>8 DEF Lead, Continuation
  <2>3. QED BY <2>1, <2>2
<1>7. EndsWhole(now, reply)
  BY <1>6 DEF EndsWhole
<1>8. QED BY <1>2, <1>4, <1>5, <1>7

-----------------------------------------------------------------------------
(* The steps.                                                               *)

LEMMA StartFits ==
  ASSUME NEW room, NEW carried \in Halves, NEW repeats
  PROVE  ReplyFits([op |-> "decode", at |-> "decoding", room |-> room, reply |-> <<>>,
                    gate |-> FreshGate, carried |-> carried, pending |-> carried,
                    shown |-> <<>>, returned |-> <<>>, outcome |-> "none",
                    repeats |-> repeats])
<1> DEFINE c == [op |-> "decode", at |-> "decoding", room |-> room, reply |-> <<>>,
                 gate |-> FreshGate, carried |-> carried, pending |-> carried,
                 shown |-> <<>>, returned |-> <<>>, outcome |-> "none",
                 repeats |-> repeats]
<1>1. /\ c.at = "decoding" /\ c.reply = <<>> /\ c.gate = FreshGate
      /\ c.carried = carried /\ c.pending = carried
      /\ c.shown = <<>> /\ c.outcome = "none"
  OBVIOUS
<1>2. DecodeHasItsFields(c)
  BY DEF DecodeHasItsFields
<1> HIDE DEF c
<1>3. c.shown \o c.pending = c.carried \o <<>>
  BY <1>1, HalvesAreText, CatWithNothing
<1>4. LetThrough(c, <<>>)
  BY <1>1, <1>3, FreshGateFits DEF LetThrough
<1>5. ReplyFits(c)
  BY <1>1, <1>2, <1>4, NothingIsText DEF ReplyFits, EndsWhole
<1>6. QED BY <1>5 DEF c

(* Text that the gate lets through goes over the bridge.                    *)
Crossing(carried, pending, shown, reply, out, text, rest) ==
  /\ carried \in Halves /\ pending \in Halves
  /\ {shown, reply, out, text, rest} \subseteq Text
  /\ shown \o pending = carried \o out
  /\ (out \o text) \o rest = StripLeadingThinkBlock(reply)
  /\ EndsWhole(shown, carried \o reply)

Crossed(carried, pending, shown, reply, out, text) ==
  \E now \in Text, kept \in Halves :
    /\ now = shown \o Bridge(pending, text).shown
    /\ kept = Bridge(pending, text).pending
    /\ now \o kept = carried \o (out \o text)
    /\ EndsWhole(now, carried \o reply)

LEMMA BridgeKeepsTheReply ==
  ASSUME NEW carried, NEW pending, NEW shown, NEW reply, NEW out, NEW text, NEW rest,
         Crossing(carried, pending, shown, reply, out, text, rest)
  PROVE  Crossed(carried, pending, shown, reply, out, text)
<1>0. /\ carried \in Halves /\ pending \in Halves
      /\ shown \in Text /\ reply \in Text /\ out \in Text /\ text \in Text /\ rest \in Text
      /\ shown \o pending = carried \o out
      /\ (out \o text) \o rest = StripLeadingThinkBlock(reply)
      /\ EndsWhole(shown, carried \o reply)
  BY DEF Crossing
<1>1. PICK seen, kept :
        seen = Bridge(pending, text).shown /\ kept = Bridge(pending, text).pending
  OBVIOUS
<1>2. Passed(pending, text, seen, kept)
  BY <1>0, <1>1, BridgePasses
<1>3. PICK whole, next : whole = carried \o reply /\ next = out \o text
  OBVIOUS
<1>4. whole \in Text /\ next \in Text
  BY <1>0, <1>3, HalvesAreText, CatIsText
<1>5. (shown \o pending) \o text = carried \o next
  BY <1>0, <1>3, HalfAndTexts
<1>6. IsWholeText(whole) => IsPart((shown \o pending) \o text, whole)
  BY <1>0, <1>3, <1>4, <1>5, PartOfWhole
<1>7. EndsWhole(shown, whole)
  BY <1>0, <1>3
<1>8. /\ shown \o seen \in Text /\ kept \in Halves
      /\ (shown \o seen) \o kept = (shown \o pending) \o text
      /\ EndsWhole(shown \o seen, whole)
  BY ZenonT(60), <1>0, <1>2, <1>4, <1>6, <1>7, ShowKeeps
<1>9. QED BY <1>1, <1>3, <1>5, <1>8 DEF Crossed

(* A piece of the reply.                                                    *)
LEMMA DecodeFits ==
  ASSUME NEW c, ReplyFits(c), c.at = "decoding", NEW piece \in Text, piece # <<>>
  PROVE  LET fed == Feed(c.gate, piece)
         IN  ReplyFits(Show([c EXCEPT !.reply = @ \o piece, !.gate = fed.gate,
                                      !.room = @ - 1], fed.out))
<1>1. /\ DecodeHasItsFields(c) /\ c.at = "decoding"
      /\ c.reply \in Text /\ c.shown \in Text /\ c.carried \in Halves /\ c.pending \in Halves
      /\ EndsWhole(c.shown, c.carried \o c.reply)
  BY DEF ReplyFits
<1>2. PICK out \in Text : LetThrough(c, out)
  BY DEF ReplyFits
<1>3. /\ c.shown \o c.pending = c.carried \o out
      /\ c.outcome = "none" /\ GateFits(c.gate, c.reply, out)
  BY <1>1, <1>2 DEF LetThrough
<1>4. PICK fed, reply, next :
        fed = Feed(c.gate, piece) /\ reply = c.reply \o piece /\ next = out \o fed.out
  OBVIOUS
<1>5. /\ GateFits(fed.gate, reply, next)
      /\ reply \in Text /\ fed.out \in Text /\ next \in Text
  BY <1>1, <1>3, <1>4, FeedKeeps, CatIsText
<1>6. next \o Flush(fed.gate) = StripLeadingThinkBlock(reply) /\ Flush(fed.gate) \in Text
  BY <1>5, FlushCompletes
<1>7. EndsWhole(c.shown, c.carried \o reply)
  <2>1. PICK w : w = c.carried \o c.reply
    OBVIOUS
  <2>2. w \in Text /\ w \o piece = c.carried \o reply
    <3>1. c.carried \in Text
      BY <1>1, HalvesAreText
    <3>2. (c.carried \o c.reply) \o piece = c.carried \o (c.reply \o piece)
      BY <1>1, HalfAndTexts
    <3>3. QED BY <1>1, <1>4, <2>1, <3>1, <3>2, CatIsText
  <2>3. IsWholeText(c.carried \o reply) => IsWholeText(w)
    BY <2>2, WholeBefore
  <2>4. QED BY <1>1, <2>1, <2>3 DEF EndsWhole
<1>8. PICK now, kept : /\ now = c.shown \o Bridge(c.pending, fed.out).shown
                       /\ kept = Bridge(c.pending, fed.out).pending
  OBVIOUS
<1>9. /\ now \in Text /\ kept \in Halves /\ now \o kept = c.carried \o next
      /\ EndsWhole(now, c.carried \o reply)
  <2>1. PICK carried, pending, shown, text, rest :
          /\ carried = c.carried /\ pending = c.pending /\ shown = c.shown
          /\ text = fed.out /\ rest = Flush(fed.gate)
    OBVIOUS
  <2>2. Crossing(carried, pending, shown, reply, out, text, rest)
    BY <1>1, <1>2, <1>3, <1>4, <1>5, <1>6, <1>7, <2>1 DEF Crossing
  <2>3. Crossed(carried, pending, shown, reply, out, text)
    BY <2>2, BridgeKeepsTheReply
  <2>4. QED BY <1>4, <1>8, <2>1, <2>3 DEF Crossed
<1>10. PICK d : d = [c EXCEPT !.reply = @ \o piece, !.gate = fed.gate, !.room = @ - 1]
  OBVIOUS
<1>11. /\ DecodeHasItsFields(d) /\ d.at = "decoding" /\ d.outcome = "none"
       /\ d.reply = reply /\ d.gate = fed.gate /\ d.shown = c.shown /\ d.pending = c.pending
       /\ d.carried = c.carried
  BY <1>1, <1>3, <1>4, <1>10 DEF DecodeHasItsFields
<1>12. PICK e : e = Show(d, fed.out)
  OBVIOUS
<1>13. e = [d EXCEPT !.shown = now, !.pending = kept]
  BY <1>8, <1>11, <1>12 DEF Show
<1>14. /\ DecodeHasItsFields(e) /\ e.at = "decoding" /\ e.outcome = "none"
       /\ e.reply = reply /\ e.gate = fed.gate /\ e.shown = now /\ e.pending = kept
       /\ e.carried = c.carried
  BY <1>11, <1>13 DEF DecodeHasItsFields
<1>15. LetThrough(e, next)
  BY <1>5, <1>9, <1>14 DEF LetThrough
<1>16. ReplyFits(e)
  BY <1>1, <1>5, <1>9, <1>14, <1>15 DEF ReplyFits
<1>17. QED BY <1>4, <1>10, <1>12, <1>16

(* The end of the reply, or of the decoding.                                *)
LEMMA EndFits ==
  ASSUME NEW c, ReplyFits(c), c.at = "decoding", NEW d, DecodeHasItsFields(d),
         d.at = "done", d.reply = c.reply, d.shown = c.shown, d.pending = c.pending,
         d.carried = c.carried,
         d.outcome = "reply" => d.returned = StripLeadingThinkBlock(c.reply)
  PROVE  ReplyFits(Show(d, Flush(c.gate)))
<1>1. /\ DecodeHasItsFields(c) /\ c.at = "decoding"
      /\ c.reply \in Text /\ c.shown \in Text /\ c.carried \in Halves /\ c.pending \in Halves
      /\ EndsWhole(c.shown, c.carried \o c.reply)
  BY DEF ReplyFits
<1>2. PICK out \in Text : LetThrough(c, out)
  BY DEF ReplyFits
<1>3. c.shown \o c.pending = c.carried \o out /\ GateFits(c.gate, c.reply, out)
  BY <1>1, <1>2 DEF LetThrough
<1>4. PICK rest, next : rest = Flush(c.gate) /\ next = out \o rest
  OBVIOUS
<1>5. /\ next = StripLeadingThinkBlock(c.reply) /\ rest \in Text /\ next \in Text
      /\ next \o <<>> = next
  <2>1. next = StripLeadingThinkBlock(c.reply) /\ rest \in Text
    BY <1>1, <1>3, <1>4, FlushCompletes
  <2>2. next \in Text
    BY <1>4, <2>1, CatIsText
  <2>3. QED BY <2>1, <2>2, CatWithNothing
<1>6. PICK now, kept : /\ now = c.shown \o Bridge(c.pending, rest).shown
                       /\ kept = Bridge(c.pending, rest).pending
  OBVIOUS
<1>7. /\ now \in Text /\ kept \in Halves /\ now \o kept = c.carried \o next
      /\ EndsWhole(now, c.carried \o c.reply)
  <2>1. PICK carried, pending, shown, reply :
          /\ carried = c.carried /\ pending = c.pending /\ shown = c.shown
          /\ reply = c.reply
    OBVIOUS
  <2>2. Crossing(carried, pending, shown, reply, out, rest, <<>>)
    BY <1>1, <1>2, <1>3, <1>4, <1>5, <2>1, NothingIsText DEF Crossing
  <2>3. Crossed(carried, pending, shown, reply, out, rest)
    BY <2>2, BridgeKeepsTheReply
  <2>4. QED BY <1>4, <1>6, <2>1, <2>3 DEF Crossed
<1>8. PICK e : e = Show(d, rest)
  OBVIOUS
<1>9. e = [d EXCEPT !.shown = now, !.pending = kept]
  BY <1>6, <1>8 DEF Show
<1>10. /\ DecodeHasItsFields(e) /\ e.at = "done" /\ e.outcome = d.outcome
       /\ e.returned = d.returned /\ e.reply = c.reply /\ e.shown = now /\ e.pending = kept
       /\ e.carried = c.carried
  BY <1>9 DEF DecodeHasItsFields
<1>11. LetThrough(e, next)
  BY <1>5, <1>7, <1>10 DEF LetThrough
<1>12. ReplyFits(e)
  BY <1>1, <1>5, <1>7, <1>10, <1>11 DEF ReplyFits
<1>13. QED BY <1>4, <1>8, <1>12

LEMMA PieceIsText ==
  ASSUME NEW piece \in Pieces
  PROVE  piece \in Text /\ piece # <<>>
<1>1. PICK n \in 1 .. MaxPiece : piece \in [1 .. n -> Symbols]
  BY DEF Pieces
<1>2. n \in Nat /\ n # 0
  OBVIOUS
<1>3. piece \in Text
  BY <1>1, <1>2, SeqDef DEF Text
<1>4. Len(piece) = n
  BY <1>1, <1>2, <1>3, LenProperties DEF Text
<1>5. QED BY <1>2, <1>3, <1>4, NothingIsText

(* Every other call of the engine.                                          *)
LEMMA OtherCalls ==
  ASSUME "op" \in DOMAIN call,
         \/ Return
         \/ OpenTable \/ OpenAnyFile \/ ReadCsv
         \/ OpenDocument \/ Cut
         \/ Ask \/ Expand \/ SearchTerm \/ Rank \/ Rerank \/ SkipReranker \/ Trim
         \/ SampleText
  PROVE  "op" \in DOMAIN call' /\ call'.op \notin {"prompt", "refusal", "decode"}
<1>1. CASE Return
  BY <1>1 DEF Return, Idle
<1>2. CASE OpenTable \/ OpenAnyFile
  BY <1>2 DEF OpenTable, OpenAnyFile
<1>3. CASE ReadCsv
  BY <1>3 DEF ReadCsv
<1>4. CASE OpenDocument
  BY <1>4 DEF OpenDocument
<1>5. CASE Cut
  BY <1>5 DEF Cut
<1>6. CASE Ask
  BY <1>6 DEF Ask
<1>7. CASE Expand
  <2>1. "op" \in DOMAIN call' /\ call'.op = call.op
    BY <1>7 DEF Expand
  <2>2. QED BY <1>7, <2>1 DEF Expand
<1>8. CASE SearchTerm
  BY <1>8 DEF SearchTerm
<1>9. CASE Rank
  BY <1>9 DEF Rank
<1>10. CASE Rerank
  <2>1. PICK closest, ranking :
          call' = [call EXCEPT !.ranking = ranking, !.closest = closest, !.fused = TRUE,
                               !.at = "trim"]
    BY <1>10 DEF Rerank
  <2>2. QED BY <1>10, <2>1 DEF Rerank
<1>11. CASE SkipReranker \/ Trim
  <2>1. CASE SkipReranker
    BY <2>1 DEF SkipReranker
  <2>2. CASE Trim
    <3>1. PICK floored, ranking :
            call' = [call EXCEPT !.ranking = ranking, !.floored = floored, !.at = "done"]
      BY <2>2 DEF Trim
    <3>2. QED BY <2>2, <3>1 DEF Trim
  <2>3. QED BY <1>11, <2>1, <2>2
<1>12. CASE SampleText
  BY <1>12 DEF SampleText
<1>13. QED BY <1>1, <1>2, <1>3, <1>4, <1>5, <1>6, <1>7, <1>8, <1>9, <1>10, <1>11, <1>12

LEMMA ReplyInvStep ==
  ASSUME ReplyInv, [Next]_vars
  PROVE  ReplyInv'
<1>1. CASE UNCHANGED vars
  BY <1>1 DEF ReplyInv, vars
<1>2. CASE \/ Return
           \/ OpenTable \/ OpenAnyFile \/ ReadCsv
           \/ OpenDocument \/ Cut
           \/ Ask \/ Expand \/ SearchTerm \/ Rank \/ Rerank \/ SkipReranker \/ Trim
           \/ SampleText
  BY <1>2, OtherCalls DEF ReplyInv
<1>3. CASE Send
  <2>1. PICK room, carried, repeats :
          /\ call' = [op |-> "decode", at |-> "decoding", room |-> room,
                      reply |-> <<>>, gate |-> FreshGate, carried |-> carried,
                      pending |-> carried, shown |-> <<>>, returned |-> <<>>,
                      outcome |-> "none", repeats |-> repeats]
          /\ carried = call.carried
    BY <1>3 DEF Send
  <2>2. carried \in Halves
    BY <1>3, <2>1 DEF Send, ReplyInv, CarriesHalf
  <2>3. ReplyFits(call')
    BY <2>1, <2>2, StartFits
  <2>4. "op" \in DOMAIN call' /\ call'.op = "decode"
    BY <2>1
  <2>5. QED BY <2>3, <2>4 DEF ReplyInv
<1>4. CASE DecodeToken
  <2>1. PICK piece \in Pieces :
          LET fed == Feed(call.gate, piece)
          IN  call' = Show([call EXCEPT !.reply = @ \o piece, !.gate = fed.gate,
                                        !.room = @ - 1], fed.out)
    BY <1>4 DEF DecodeToken
  <2>2. ReplyFits(call) /\ call.at = "decoding"
    BY <1>4 DEF DecodeToken, ReplyInv
  <2>3. ReplyFits(call')
    BY <2>1, <2>2, PieceIsText, DecodeFits
  <2>4. "op" \in DOMAIN call' /\ call'.op = "decode"
    <3>1. PICK reply, gate, room, text :
            call' = Show([call EXCEPT !.reply = reply, !.gate = gate, !.room = room], text)
      BY <2>1
    <3>2. "op" \in DOMAIN call /\ call.op = "decode"
      BY <1>4 DEF DecodeToken, ReplyInv
    <3>3. QED BY <3>1, <3>2 DEF Show
  <2>5. QED BY <2>3, <2>4 DEF ReplyInv
<1>5. CASE EndReply \/ DecodeFails
  <2>1. ReplyFits(call) /\ call.at = "decoding" /\ DecodeHasItsFields(call)
    BY <1>5 DEF EndReply, DecodeFails, ReplyInv, ReplyFits
  <2>2. PICK d : /\ \/ d = [call EXCEPT !.at = "done", !.outcome = "reply",
                                        !.returned = StripLeadingThinkBlock(call.reply)]
                    \/ d = [call EXCEPT !.at = "done", !.outcome = "failed"]
                 /\ call' = Show(d, Flush(call.gate))
    BY <1>5 DEF EndReply, DecodeFails
  <2>3. /\ DecodeHasItsFields(d) /\ d.at = "done" /\ d.reply = call.reply
        /\ d.shown = call.shown /\ d.pending = call.pending
        /\ d.carried = call.carried /\ d.op = "decode"
        /\ d.outcome = "reply" => d.returned = StripLeadingThinkBlock(call.reply)
    <3>1. PICK stripped : stripped = StripLeadingThinkBlock(call.reply)
      OBVIOUS
    <3>2. CASE d = [call EXCEPT !.at = "done", !.outcome = "reply",
                                !.returned = StripLeadingThinkBlock(call.reply)]
      BY <1>5, <2>1, <3>1, <3>2 DEF DecodeHasItsFields, EndReply, DecodeFails
    <3>3. CASE d = [call EXCEPT !.at = "done", !.outcome = "failed"]
      BY <1>5, <2>1, <3>3 DEF DecodeHasItsFields, EndReply, DecodeFails
    <3>4. QED BY <2>2, <3>2, <3>3
  <2>4. ReplyFits(call')
    BY <2>1, <2>2, <2>3, EndFits
  <2>5. "op" \in DOMAIN call' /\ call'.op = "decode"
    BY <2>2, <2>3, <2>4 DEF ReplyFits, Show, DecodeHasItsFields
  <2>6. QED BY <2>4, <2>5 DEF ReplyInv
<1>6. CASE BuildPrompt \/ BuildDeeperPrompt
  <2>1. CASE BuildPrompt
    BY <2>1 DEF BuildPrompt, Prompted, ReplyInv, CarriesHalf, Halves
  <2>2. CASE BuildDeeperPrompt
    BY <2>2 DEF BuildDeeperPrompt, Prompted, ReplyInv, CarriesHalf
  <2>3. QED BY <1>6, <2>1, <2>2
<1>7. CASE SendRefused
  BY <1>7 DEF SendRefused, ReplyInv, CarriesHalf
<1>8. CASE TakenForRefusal
  BY <1>8 DEF TakenForRefusal, ReplyInv, ReplyFits, CarriesHalf
<1>9. QED BY <1>1, <1>2, <1>3, <1>4, <1>5, <1>6, <1>7, <1>8 DEF Next

LEMMA ReplyInvTells ==
  ASSUME ReplyInv
  PROVE  ShownTextIsTheReply
<1>1. SUFFICES ASSUME call.op = "decode"
               PROVE  /\ call.carried \in {<<>>, <<Lead>>}
                      /\ IsWholeText(call.carried \o call.reply) /\ call.shown # <<>> =>
                           Last(call.shown) # Lead
                      /\ call.outcome = "reply" =>
                           /\ call.carried \o call.returned = call.shown \o call.pending
                           /\ call.pending \in {<<>>, <<Lead>>}
  BY DEF ShownTextIsTheReply
<1>2. /\ call.carried \in Halves /\ call.pending \in Halves
      /\ EndsWhole(call.shown, call.carried \o call.reply)
      /\ \E out \in Text : LetThrough(call, out)
  BY <1>1 DEF ReplyInv, ReplyFits
<1>3. call.outcome = "reply" => call.carried \o call.returned = call.shown \o call.pending
  BY <1>2 DEF LetThrough
<1>4. QED BY <1>2, <1>3 DEF EndsWhole, Halves

(* What is shown while a reply is decoded is in the end the reply that is   *)
(* returned, with no reasoning of the model's that the reply leaves out and *)
(* no half of a character, for every reply and however the model cuts it    *)
(* into tokens; after a refusal, with what the refusal left on the bridge   *)
(* in front (think_gate_feed, strip_leading_think_block, TokenBridge).      *)
THEOREM ShownIsReturned == Spec => []ShownTextIsTheReply
<1>1. Init => ReplyInv
  BY DEF Init, Idle, ReplyInv
<1>2. ReplyInv /\ [Next]_vars => ReplyInv'
  BY ReplyInvStep
<1>3. ReplyInv => ShownTextIsTheReply
  BY ReplyInvTells
<1>4. QED BY <1>1, <1>2, <1>3, PTL DEF Spec

-----------------------------------------------------------------------------
(* A prompt and what is sent with it.                                       *)

LeavesRoom(turns, uncounted) ==
  ~Refused(turns) /\ Room(turns) >= Min({MaxNew, Reserved - uncounted})

(* What PromptFitsTheContext promises of the turns that are sent, and of    *)
(* the excerpts of a text.                                                  *)
TurnsFit(c) ==
  c.turns # <<>> =>
    /\ HistoryIsTheNewest(c)
    /\ AllCounted(c) /\ PromptIsOneThatFits(c) =>
         CASE c.kind \in AnswerKinds -> Uncounted(c) < Reserved => LeavesRoom(c.turns, Uncounted(c))
           [] OTHER -> ~Refused(c.turns)

ExcerptsFit(c) ==
  LET all == UNION ToSet(c.slices)
  IN  /\ all \subseteq 1 .. c.size
      /\ Cardinality(all) <= c.budget
      /\ \A i, j \in DOMAIN c.slices : i # j => c.slices[i] \intersect c.slices[j] = {}
      /\ c.size <= c.budget => all = 1 .. c.size

PromptHasItsFields(c) ==
  c = [op |-> c.op, at |-> c.at, kind |-> c.kind, prompt |-> c.prompt,
       history |-> c.history, turns |-> c.turns,
       rerun |-> c.rerun, carried |-> c.carried]

PromptInv ==
  /\ "op" \in DOMAIN call
  /\ call.op = "prompt" => PromptHasItsFields(call) /\ TurnsFit(call)
  /\ call.op = "sample" => ExcerptsFit(call)

LEMMA FrontIs ==
  ASSUME NEW S, NEW s \in Seq(S), NEW e \in S
  PROVE  /\ Front(Append(s, e)) = s /\ Last(Append(s, e)) = e
         /\ Append(s, e) # <<>> /\ Len(Append(s, e)) = Len(s) + 1
<1>1. PICK n \in Nat : n = Len(s)
  BY LenProperties
<1>2. PICK t \in Seq(S) : t = Append(s, e)
  BY AppendProperties
<1>3. /\ Len(t) = n + 1 /\ t[n + 1] = e /\ t # <<>>
      /\ \A i \in 1 .. n : t[i] = s[i] /\ s[i] \in S
  BY <1>1, <1>2, AppendProperties, ElementOfSeq
<1>4. /\ SubSeq(t, 1, n) \in Seq(S) /\ Len(SubSeq(t, 1, n)) = n
      /\ \A i \in 1 .. n : SubSeq(t, 1, n)[i] = t[i]
  <2>1. \A i \in 1 .. n : t[i] \in S
    BY <1>3
  <2>2. QED BY <2>1, SubSeqProperties
<1>5. SubSeq(t, 1, n) = s
  BY <1>1, <1>3, <1>4, SeqEqual
<1>6. Front(t) = SubSeq(t, 1, n)
  BY <1>3 DEF Front
<1>7. QED BY <1>1, <1>2, <1>3, <1>5, <1>6 DEF Last

(* Turns and prompts, with instructions in front of them or without.        *)
Measurable == Turn \union Prompt \union {Sent("converse", p) : p \in Prompt}

LEMMA ItemsHaveTokens == HaveTokens(Measurable)
<1>1. ASSUME NEW p \in Prompt
      PROVE  Sent("converse", p).tokens \in Nat /\ Sent("converse", p).counted \in BOOLEAN
  BY AnswerPipelineAssumption, ContextWindowAssumption DEF Sent
<1>2. QED BY <1>1, AnswerPipelineAssumption DEF HaveTokens, Measurable

LEMMA HistoryIsASequence ==
  ASSUME NEW h \in BoundedSeq(Turn, MaxHistory)
  PROVE  h \in Seq(Measurable) /\ DOMAIN h = 1 .. Len(h) /\ Len(h) \in Nat
<1>1. PICK m \in 0 .. MaxHistory : h \in [1 .. m -> Turn]
  BY DEF BoundedSeq, SeqOf
<1>2. m \in Nat /\ h \in [1 .. m -> Measurable]
  BY <1>1, AnswerPipelineAssumption DEF Measurable
<1>3. h \in Seq(Measurable)
  BY <1>2, SeqDef
<1>4. QED BY <1>3, LenProperties

(* With a prompt that leaves the room for the longest reply, no stretch of  *)
(* the history within the budget takes it; what nobody counted may.         *)
LEMMA RoomIsKept ==
  ASSUME NEW t \in Nat, NEW w \in Nat, NEW x \in Nat, NEW b \in Int,
         t + Reserved <= NCtx, b = NCtx - t - Reserved, w <= b, x < Reserved,
         NEW turns, TrueTokens(turns) = w + t + x
  PROVE  LeavesRoom(turns, x)
<1>1. MaxNew \in Nat \ {0} /\ Headroom \in Nat /\ NCtx \in Nat /\ Reserved = MaxNew + Headroom
  BY ContextWindowAssumption DEF Reserved
<1>2. PICK n \in Nat : n = TrueTokens(turns) /\ NCtx - n >= Reserved - x
  BY <1>1
<1>3. ~Refused(turns)
  BY <1>1, <1>2 DEF Refused
<1>4. PICK u, v \in Int : u = NCtx - n /\ v = Reserved - x /\ u >= v
  BY <1>1, <1>2
<1>5. Min({MaxNew, u}) >= Min({MaxNew, v})
  <2>1. Min({MaxNew, u}) = IF MaxNew <= u THEN MaxNew ELSE u
    BY <1>1, <1>4 DEF Min
  <2>2. Min({MaxNew, v}) = IF MaxNew <= v THEN MaxNew ELSE v
    BY <1>1, <1>4 DEF Min
  <2>3. QED BY <1>1, <1>4, <2>1, <2>2
<1>6. QED BY <1>2, <1>3, <1>4, <1>5 DEF Room, LeavesRoom

LEMMA AnswerKindsLeaveRoom ==
  ASSUME NEW kind \in AnswerKinds, NEW prompt \in Prompt, prompt.counted,
         kind = "documents" => /\ ~TooBig(prompt)
                               /\ prompt.bytes >= BytesPerToken * prompt.tokens,
         kind # "documents" => prompt.tokens + Reserved <= NCtx
  PROVE  /\ prompt.tokens \in Nat /\ prompt.tokens + Reserved <= NCtx
         /\ Budget(kind, prompt) = NCtx - prompt.tokens - Reserved
<1>1. /\ {NCtx, BytesPerToken} \subseteq Nat \ {0} /\ Reserved \in Nat
  BY ContextWindowAssumption DEF Reserved
<1>2. PICK t \in Nat : t = prompt.tokens
  BY AnswerPipelineAssumption
<1>3. CountTokens(prompt) = t
  BY <1>2 DEF CountTokens
<1>4. t + Reserved <= NCtx
  <2>1. CASE kind = "documents"
    <3>1. PICK bytes \in Nat : bytes = prompt.bytes
      BY AnswerPipelineAssumption
    <3>2. PICK q \in Nat : /\ q = bytes \div BytesPerToken
                           /\ bytes < BytesPerToken * q + BytesPerToken
      BY <1>1, PartsFit
    <3>3. q + 1 + Reserved <= NCtx
      BY <1>1, <2>1, <3>1, <3>2 DEF TooBig
    <3>4. t <= q
      <4>1. SUFFICES ASSUME t >= q + 1 PROVE FALSE
        BY <1>2, <3>2
      <4>2. BytesPerToken * t >= BytesPerToken * (q + 1)
        BY <1>1, <1>2, <3>2, <4>1
      <4>3. BytesPerToken * (q + 1) = BytesPerToken * q + BytesPerToken
        BY <1>1, <3>2
      <4>4. bytes >= BytesPerToken * t
        BY <1>2, <2>1, <3>1
      <4>5. BytesPerToken * t \in Nat /\ BytesPerToken * q \in Nat
        BY <1>1, <1>2, <3>2
      <4>6. QED BY <1>1, <3>1, <3>2, <4>2, <4>3, <4>4, <4>5
    <3>5. QED BY <1>1, <1>2, <3>2, <3>3, <3>4
  <2>2. CASE kind # "documents"
    BY <1>2, <2>2
  <2>3. QED BY <2>1, <2>2
<1>5. NCtx - t - Reserved \in Nat
  BY <1>1, <1>2, <1>4
<1>6. AtLeastZero(t) = t /\ AtLeastZero(NCtx - t - Reserved) = NCtx - t - Reserved
  BY <1>2, <1>5, AtLeastZeroIs
<1>7. AnswerBudget(prompt) = NCtx - t - Reserved
  <2>1. ~ (CountTokens(prompt) < 0)
    BY <1>2, <1>3
  <2>2. QED BY <1>3, <1>6, <2>1 DEF AnswerBudget
<1>8. ConverseBudget(prompt) = NCtx - t - Reserved
  <2>1. ConverseBudget(prompt) = NCtx - Reserved - t
    BY <1>3, <1>6 DEF ConverseBudget
  <2>2. QED BY <1>1, <1>2, <2>1
<1>9. QED BY <1>2, <1>4, <1>7, <1>8 DEF Budget, AnswerKinds

LEMMA SentTurnsFit ==
  ASSUME NEW kind \in Kinds, NEW prompt \in Prompt,
         NEW h \in BoundedSeq(Turn, MaxHistory), ~Declined(kind, prompt, h),
         NEW c, c.kind = kind, c.prompt = prompt, c.history = h,
         c.turns = Turns(kind, prompt, h)
  PROVE  TurnsFit(c)
<1>1. HaveTokens(Measurable) /\ prompt \in Measurable /\ h \in Seq(Measurable)
  BY ItemsHaveTokens, HistoryIsASequence DEF Measurable
<1>2. PICK n \in Nat : n = Len(h) /\ DOMAIN h = 1 .. n
  BY HistoryIsASequence
<1>3. PICK b \in Int : b = Budget(kind, prompt)
  BY <1>1, TurnsAre
<1>4. PICK s \in 1 .. n + 1 :
        /\ Turns(kind, prompt, h) = Append(Newest(h, s), Sent(kind, prompt))
        /\ kind # "converse" => WindowHistory(h, b) = Newest(h, s)
        /\ IsWindow(h, b, s)
        /\ (\A i \in 1 .. n : h[i].counted) => IsLongest(h, b, s)
  BY <1>1, <1>2, <1>3, TurnsAre
<1>5. PICK new \in Seq(Measurable) : new = Newest(h, s)
  BY <1>1, <1>2, NewestIs
<1>6. Len(new) = n - s + 1 /\ \A k \in 1 .. n - s + 1 : new[k] = h[s + k - 1]
  BY ZenonT(60), <1>1, <1>2, <1>5, NewestIs
<1>7. PICK turns, sent : turns = c.turns /\ sent = Sent(kind, prompt)
  OBVIOUS
<1>8. turns = Append(new, sent) /\ sent \in Measurable
  BY <1>1, <1>4, <1>5, <1>7 DEF Sent, Measurable
<1>9. Front(turns) = new /\ Last(turns) = sent /\ Len(turns) = Len(new) + 1
  BY <1>8, FrontIs
<1>10. HistoryIsTheNewest(c)
  <2>1. IsSuffix(new, h)
    BY <1>1, <1>2, <1>5, NewestIsSuffix
  <2>2. ASSUME AllCounted(c), NEW i \in DOMAIN h, Measured(Newest(h, i)) <= b
        PROVE  Len(new) >= Len(h) - i + 1
    <3>1. \A k \in 1 .. n : h[k].counted
      BY <1>2, <2>2 DEF AllCounted
    <3>2. IsLongest(h, b, s) /\ i \in 1 .. n
      BY <1>2, <1>4, <3>1
    <3>3. s <= i
      BY <1>2, <2>2, <3>2 DEF IsLongest
    <3>4. QED BY <1>2, <1>6, <3>2, <3>3
  <2>3. QED BY <1>3, <1>7, <1>9, <2>1, <2>2 DEF HistoryIsTheNewest
<1>11. ASSUME AllCounted(c), PromptIsOneThatFits(c)
       PROVE  CASE kind \in AnswerKinds ->
                     Uncounted(c) < Reserved => LeavesRoom(turns, Uncounted(c))
                [] OTHER -> ~Refused(turns)
  <2>1. prompt.counted /\ \A k \in 1 .. n : h[k].counted
    BY <1>2, <1>11 DEF AllCounted
  <2>2. \A k \in 1 .. Len(new) : new[k].counted
    <3>1. \A k \in 1 .. Len(new) : s + k - 1 \in 1 .. n
      BY <1>6
    <3>2. QED BY <1>6, <2>1, <3>1
  <2>3. PICK w \in Nat : w = Measured(new)
    BY <1>1, <2>2, LoadIs
  <2>4. PICK t \in Nat : t = prompt.tokens
    BY <1>1 DEF HaveTokens
  <2>5. PICK x \in Nat : /\ x = Uncounted(c)
                         /\ x = Markup * Len(turns)
                                + (IF kind = "converse" THEN ConverseHead ELSE 0)
    <3>1. Markup \in Nat /\ Len(turns) \in Nat /\ ConverseHead \in Nat
      BY <1>6, <1>9, ContextWindowAssumption
    <3>2. Markup * Len(turns) \in Nat
      BY <3>1
    <3>3. QED BY <1>7, <3>1, <3>2 DEF Uncounted
  <2>6. TrueTokens(turns) = w + t + x
    <3>1. TrueTokens(turns) = w + sent.tokens + Markup * (Len(new) + 1)
      BY <1>1, <1>8, <2>2, <2>3, LoadIs
    <3>2. sent.tokens = t + (IF kind = "converse" THEN ConverseHead ELSE 0)
      BY <1>7, <2>4 DEF Sent
    <3>3. PICK m \in Nat : m = Markup * (Len(new) + 1)
      BY <1>6, ContextWindowAssumption
    <3>4. ConverseHead \in Nat
      BY ContextWindowAssumption
    <3>5. QED BY <1>9, <2>3, <2>4, <2>5, <3>1, <3>2, <3>3, <3>4
  <2>7. s <= n => w <= b
    BY <1>2, <1>4, <1>5, <2>3 DEF IsWindow
  <2>8. s = n + 1 => w = 0
    <3>1. PICK p : PartialSums(Costs(h), n, p)
      BY <1>1, <1>2, MeasuredIs
    <3>2. ASSUME s = n + 1 PROVE w = p[n] - p[n]
      <4>1. w = p[n] - p[s-1]
        BY <1>1, <1>2, <1>5, <2>3, <3>1, NewestMeasures
      <4>2. s - 1 = n
        BY <3>2
      <4>3. QED BY <4>1, <4>2
    <3>3. p[n] \in Nat
      BY <3>1 DEF PartialSums
    <3>4. QED BY <3>2, <3>3
  <2>9. {NCtx, RouterReserve, ContextualizeReserve} \subseteq Nat /\ RouterReserve <= NCtx
    BY ContextWindowAssumption
  <2>10. CASE kind \in AnswerKinds
    <3>1. t + Reserved <= NCtx /\ b = NCtx - t - Reserved
      <4>1. kind = "documents" => /\ ~TooBig(prompt)
                                  /\ prompt.bytes >= BytesPerToken * prompt.tokens
        BY <1>11 DEF Declined, PromptIsOneThatFits
      <4>2. kind # "documents" => prompt.tokens + Reserved <= NCtx
        BY <1>11, <2>10 DEF PromptIsOneThatFits, AnswerKinds
      <4>3. QED BY <1>3, <2>1, <2>4, <2>10, <4>1, <4>2, AnswerKindsLeaveRoom
    <3>2. w <= b
      <4>1. Reserved \in Nat
        BY ContextWindowAssumption DEF Reserved
      <4>2. b >= 0
        BY <2>4, <2>9, <3>1, <4>1
      <4>3. QED BY <1>2, <2>7, <2>8, <4>2
    <3>3. x < Reserved => LeavesRoom(turns, x)
      BY <2>6, <3>1, <3>2, RoomIsKept
    <3>4. QED BY <2>5, <2>10, <3>3
  <2>11. CASE kind = "route"
    <3>1. b = NCtx - RouterReserve
      BY <1>3, <2>11 DEF Budget
    <3>2. t + x < RouterReserve
      BY <1>6, <1>7, <1>9, <1>11, <2>4, <2>5, <2>11, ContextWindowAssumption DEF PromptIsOneThatFits
    <3>3. w + t + x < NCtx
      <4>1. CASE s <= n
        BY <2>7, <2>9, <3>1, <3>2, <4>1
      <4>2. CASE s = n + 1
        BY <2>8, <2>9, <3>2, <4>2
      <4>3. QED BY <1>2, <4>1, <4>2
    <3>4. ~Refused(turns)
      BY <2>6, <2>9, <3>3 DEF Refused
    <3>5. QED BY <2>11, <3>4 DEF AnswerKinds
  <2>12. CASE kind = "contextualize"
    <3>1. b = NCtx - ContextualizeReserve
      BY <1>3, <2>12 DEF Budget
    <3>2. t + x < ContextualizeReserve
      BY <1>6, <1>7, <1>9, <1>11, <2>4, <2>5, <2>12, ContextWindowAssumption DEF PromptIsOneThatFits
    <3>3. s <= n
      <4>1. new # <<>>
        BY <1>3, <1>4, <1>5, <2>12 DEF Declined
      <4>2. Len(new) # 0
        BY <4>1, EmptySeq
      <4>3. QED BY <1>6, <4>2
    <3>4. w + t + x < NCtx
      BY <2>7, <2>9, <3>1, <3>2, <3>3
    <3>5. ~Refused(turns)
      BY <2>6, <2>9, <3>4 DEF Refused
    <3>6. QED BY <2>12, <3>5 DEF AnswerKinds
  <2>13. QED BY <2>10, <2>11, <2>12 DEF Kinds, AnswerKinds
<1>12. QED BY <1>7, <1>10, <1>11 DEF TurnsFit

(* Every call but the one that builds a prompt and the one that cuts the    *)
(* excerpts of a text.                                                      *)
LEMMA ShowKeepsTheCall ==
  ASSUME NEW c, "op" \in DOMAIN c, NEW text
  PROVE  "op" \in DOMAIN Show(c, text) /\ Show(c, text).op = c.op
  BY DEF Show

LEMMA NeitherPromptNorExcerpts ==
  ASSUME "op" \in DOMAIN call,
         \/ Return
         \/ OpenTable \/ OpenAnyFile \/ ReadCsv
         \/ OpenDocument \/ Cut
         \/ Ask \/ Expand \/ SearchTerm \/ Rank \/ Rerank \/ SkipReranker \/ Trim
         \/ Send \/ DecodeToken \/ EndReply \/ DecodeFails \/ TakenForRefusal
  PROVE  "op" \in DOMAIN call' /\ call'.op \notin {"prompt", "sample"}
<1>1. CASE Return
  BY <1>1 DEF Return, Idle
<1>2. CASE OpenTable \/ OpenAnyFile
  BY <1>2 DEF OpenTable, OpenAnyFile
<1>3. CASE ReadCsv
  BY <1>3 DEF ReadCsv
<1>4. CASE OpenDocument
  BY <1>4 DEF OpenDocument
<1>5. CASE Cut
  BY <1>5 DEF Cut
<1>6. CASE Ask
  BY <1>6 DEF Ask
<1>7. CASE Expand
  BY <1>7 DEF Expand
<1>8. CASE SearchTerm
  BY <1>8 DEF SearchTerm
<1>9. CASE Rank
  BY <1>9 DEF Rank
<1>10. CASE Rerank \/ SkipReranker
  BY <1>10 DEF Rerank, SkipReranker
<1>11. CASE Trim
  BY <1>11 DEF Trim
<1>12. CASE Send \/ TakenForRefusal
  BY <1>12 DEF Send, TakenForRefusal
<1>13. CASE DecodeToken \/ EndReply \/ DecodeFails
  <2>1. call.op = "decode"
    BY <1>13 DEF DecodeToken, EndReply, DecodeFails
  <2>2. PICK d, text : "op" \in DOMAIN d /\ d.op = call.op /\ call' = Show(d, text)
    <3>1. CASE DecodeToken
      <4>1. PICK piece :
              LET fed == Feed(call.gate, piece)
              IN  call' = Show([call EXCEPT !.reply = @ \o piece, !.gate = fed.gate,
                                            !.room = @ - 1], fed.out)
        BY <3>1 DEF DecodeToken
      <4>2. PICK reply, gate, room, text :
              call' = Show([call EXCEPT !.reply = reply, !.gate = gate, !.room = room], text)
        BY <4>1
      <4>3. QED BY <4>2
    <3>2. CASE EndReply
      <4>1. PICK reply, text :
              call' = Show([call EXCEPT !.at = "done", !.outcome = "reply",
                                        !.returned = reply], text)
        BY <3>2 DEF EndReply
      <4>2. QED BY <4>1
    <3>3. CASE DecodeFails
      <4>1. PICK text : call' = Show([call EXCEPT !.at = "done", !.outcome = "failed"], text)
        BY <3>3 DEF DecodeFails
      <4>2. QED BY <4>1
    <3>4. QED BY <1>13, <3>1, <3>2, <3>3
  <2>3. QED BY <2>1, <2>2, ShowKeepsTheCall
<1>14. QED BY <1>1, <1>2, <1>3, <1>4, <1>5, <1>6, <1>7, <1>8, <1>9, <1>10, <1>11, <1>12, <1>13

LEMMA PromptInvStep ==
  ASSUME PromptInv, [Next]_vars
  PROVE  PromptInv'
<1>1. CASE UNCHANGED vars
  BY <1>1 DEF PromptInv, vars
<1>2. CASE \/ Return
           \/ OpenTable \/ OpenAnyFile \/ ReadCsv
           \/ OpenDocument \/ Cut
           \/ Ask \/ Expand \/ SearchTerm \/ Rank \/ Rerank \/ SkipReranker \/ Trim
           \/ Send \/ DecodeToken \/ EndReply \/ DecodeFails \/ TakenForRefusal
  BY <1>2, NeitherPromptNorExcerpts DEF PromptInv
<1>3. CASE BuildPrompt \/ BuildDeeperPrompt
  <2>1. \E rerun, carried :
          \E kind \in Kinds, prompt \in Prompt, history \in BoundedSeq(Turn, MaxHistory) :
            call' = Prompted(kind, prompt, history, rerun, carried)
    <3>1. CASE BuildPrompt
      BY <3>1 DEF BuildPrompt
    <3>2. CASE BuildDeeperPrompt
      <4>1. PICK carried : carried = call.carried
        OBVIOUS
      <4>2. PICK prompt \in Prompt, history \in BoundedSeq(Turn, MaxHistory) :
              call' = Prompted("answer", prompt, history, TRUE, carried)
        BY <3>2, <4>1 DEF BuildDeeperPrompt
      <4>3. "answer" \in Kinds
        BY DEF Kinds
      <4>4. QED BY <4>2, <4>3
    <3>3. QED BY <1>3, <3>1, <3>2
  <2>2. PICK rerun, carried :
          \E kind \in Kinds, prompt \in Prompt, history \in BoundedSeq(Turn, MaxHistory) :
            call' = Prompted(kind, prompt, history, rerun, carried)
    BY <2>1
  <2>3. PICK kind \in Kinds, prompt \in Prompt, history \in BoundedSeq(Turn, MaxHistory), c \in {call'} :
          c = Prompted(kind, prompt, history, rerun, carried)
    BY <2>2
  <2>4. /\ "op" \in DOMAIN c /\ c.op = "prompt" /\ PromptHasItsFields(c)
        /\ c.kind = kind /\ c.prompt = prompt /\ c.history = history
        /\ c.turns = IF Declined(kind, prompt, history) THEN <<>>
                     ELSE Turns(kind, prompt, history)
    BY <2>3 DEF Prompted, PromptHasItsFields
  <2>5. TurnsFit(c)
    <3>1. CASE Declined(kind, prompt, history)
      BY <2>4, <3>1 DEF TurnsFit
    <3>2. CASE ~Declined(kind, prompt, history)
      BY <2>4, <3>2, SentTurnsFit
    <3>3. QED BY <3>1, <3>2
  <2>6. QED BY <2>3, <2>4, <2>5 DEF PromptInv
<1>4. CASE SendRefused
  <2>1. PromptHasItsFields(call) /\ TurnsFit(call) /\ call.op = "prompt"
    BY <1>4 DEF SendRefused, PromptInv
  <2>2. PICK c : c = [call EXCEPT !.at = "done"]
    OBVIOUS
  <2>3. call' = c
    BY <1>4, <2>2 DEF SendRefused
  <2>4. /\ PromptHasItsFields(c) /\ c.op = "prompt" /\ "op" \in DOMAIN c
        /\ c.kind = call.kind /\ c.prompt = call.prompt
        /\ c.history = call.history /\ c.turns = call.turns
    BY <2>1, <2>2 DEF PromptHasItsFields
  <2>5. TurnsFit(c)
    BY <2>1, <2>4
       DEF TurnsFit, HistoryIsTheNewest, AllCounted, PromptIsOneThatFits, Uncounted
  <2>6. QED BY <2>3, <2>4, <2>5 DEF PromptInv
<1>5. CASE SampleText
  <2>1. PICK size \in TextSizes, budget \in TextSizes \union {0} :
          call' = [op |-> "sample", at |-> "done", size |-> size, budget |-> budget,
                   slices |-> Sampled(size, budget)]
    BY <1>5 DEF SampleText
  <2>2. size \in Nat /\ budget \in Nat
    <3>1. TextSizes \subseteq Nat
      BY AnswerPipelineAssumption
    <3>2. QED BY <3>1
  <2>3. PICK slices : slices = Sampled(size, budget)
    OBVIOUS
  <2>4. PICK c : c = [op |-> "sample", at |-> "done", size |-> size, budget |-> budget,
                      slices |-> slices]
    OBVIOUS
  <2>5. /\ call' = c /\ "op" \in DOMAIN c /\ c.op = "sample"
        /\ c.size = size /\ c.budget = budget /\ c.slices = slices
    BY <2>1, <2>3, <2>4
  <2>6. ExcerptsFit(c)
    <3>1. LET all == UNION ToSet(slices)
          IN  /\ all \subseteq 1 .. size
              /\ Cardinality(all) <= budget
              /\ \A i, j \in DOMAIN slices : i # j => slices[i] \intersect slices[j] = {}
              /\ size <= budget => all = 1 .. size
      BY <2>2, <2>3, SampledFits
    <3>2. QED BY <2>5, <3>1 DEF ExcerptsFit
  <2>7. QED BY <2>5, <2>6 DEF PromptInv
<1>6. QED BY <1>1, <1>2, <1>3, <1>4, <1>5 DEF Next

(* A prompt goes with the longest stretch of the newest turns that its      *)
(* budget allows, and where everything could be counted and the prompt is   *)
(* one that fits, the model does not refuse it, and the longest reply loses *)
(* no more of its room than what nobody counts exceeds the headroom by; the *)
(* excerpts of a text keep to their budget, lie in the text and do not      *)
(* overlap: for every size of the context, every reserve, history and text  *)
(* (generation.c, tool_router.c, query_formulation.c, QueryWorker.cpp,      *)
(* corpus_summary.c).                                                       *)
THEOREM PromptAlwaysFits == Spec => []PromptFitsTheContext
<1>1. Init => PromptInv
  BY DEF Init, Idle, PromptInv
<1>2. PromptInv /\ [Next]_vars => PromptInv'
  BY PromptInvStep
<1>3. PromptInv => PromptFitsTheContext
  BY DEF PromptInv, TurnsFit, ExcerptsFit, PromptFitsTheContext, LeavesRoom
<1>4. QED BY <1>1, <1>2, <1>3, PTL DEF Spec

-----------------------------------------------------------------------------
(* The index: how often a term occurs in a passage, and what it adds.       *)

PassagesFit ==
  /\ passages \in Seq(TypedWords)
  /\ \A p \in DOMAIN passages : Hash[p] \in Nat

Chars == STRING \union {Space}

LEMMA TypedWordsAreTexts ==
  ASSUME NEW words \in TypedWords
  PROVE  /\ words \in Seq(Seq(Chars)) /\ JoinWords(words) \in Seq(Chars)
<1>1. Space \in Chars /\ STRING \subseteq Chars
  BY DEF Chars
<1>2. \A w \in Seq(STRING) : w \in Seq(Chars)
  BY <1>1, MoreValues
<1>3. Seq(STRING) \subseteq Seq(Chars)
  BY <1>2
<1>4. words \in Seq(Seq(Chars))
  BY <1>3, MoreValues DEF TypedWords
<1>5. QED BY <1>1, <1>4, JoinWordsIs

LEMMA TermsAre ==
  ASSUME PassagesFit, NEW p \in DOMAIN passages
  PROVE  /\ \E X : Terms(p) \in Seq(X)
         /\ Len(Terms(p)) \in Nat /\ DOMAIN Terms(p) = 1 .. Len(Terms(p))
<1>1. passages[p] \in TypedWords
  BY SeqIs DEF PassagesFit
<1>2. PICK text : text = JoinWords(passages[p])
  OBVIOUS
<1>3. text \in Seq(Chars)
  BY <1>1, <1>2, TypedWordsAreTexts
<1>4. Terms(p) \in Seq(ToSet(BaseForms(text)))
  BY <1>2, <1>3, BaseFormsAre DEF Terms
<1>5. QED BY <1>4, SeqIs

LEMMA FrequencyIs ==
  ASSUME PassagesFit, NEW p \in DOMAIN passages, NEW term
  PROVE  /\ Frequency(p, term) \in Nat
         /\ Frequency(p, term) > 0 <=> \E i \in DOMAIN Terms(p) : Terms(p)[i] = term
<1> DEFINE F == {i \in DOMAIN Terms(p) : Terms(p)[i] = term}
<1>1. PICK n \in Nat : DOMAIN Terms(p) = 1 .. n
  BY TermsAre
<1>2. F \in SUBSET (1 .. n)
  BY <1>1
<1>3. Frequency(p, term) = Cardinality(F)
  BY DEF Frequency
<1>4. F # {} <=> \E i \in DOMAIN Terms(p) : Terms(p)[i] = term
  OBVIOUS
<1> HIDE DEF F
<1>5. IsFiniteSet(F)
  BY <1>2, SomeNumbers
<1>6. Cardinality(F) \in Nat /\ (Cardinality(F) = 0 <=> F = {})
  BY <1>5, FS_CardinalityType, FS_EmptySet
<1>7. QED BY <1>3, <1>4, <1>6

LEMMA PassagesNumber ==
  ASSUME PassagesFit
  PROVE  /\ Len(passages) \in Nat /\ DOMAIN passages = 1 .. Len(passages)
         /\ Hashed(DOMAIN passages)
<1>1. Len(passages) \in Nat /\ DOMAIN passages = 1 .. Len(passages)
  BY SeqIs DEF PassagesFit
<1>2. \A p \in DOMAIN passages : p \in Nat \ {0}
  BY <1>1
<1>3. QED BY <1>1, <1>2 DEF PassagesFit, Hashed

(* The rows of a term name every passage that has it, once.                 *)
LEMMA PostingsAre ==
  ASSUME PassagesFit, NEW term
  PROVE  \E n : /\ AreRows(Postings(term), n, DOMAIN passages)
                /\ Len(Postings(term)) = n /\ n <= Len(passages)
                /\ n = Cardinality(Holders(term))
                /\ \A k \in 1 .. n :
                     /\ Postings(term)[k].frequency = Frequency(Postings(term)[k].passage, term)
                     /\ Frequency(Postings(term)[k].passage, term) > 0
                /\ \A p \in DOMAIN passages : Frequency(p, term) > 0 =>
                     \E k \in 1 .. n : Postings(term)[k].passage = p
<1> DEFINE N == {p \in DOMAIN passages : Frequency(p, term) > 0}
<1>1. PICK l \in Nat : l = Len(passages) /\ DOMAIN passages = 1 .. l
  BY PassagesNumber
<1>2. N \in SUBSET (1 .. l)
  BY <1>1
<1>3. PICK found : found = Ascending(N)
  OBVIOUS
<1>4. PICK n \in Nat :
        /\ n = Cardinality(N) /\ found \in [1 .. n -> N]
        /\ \A x \in N : \E k \in 1 .. n : found[k] = x
        /\ \A j, k \in 1 .. n : j < k => found[j] < found[k]
  <2> HIDE DEF N
  <2>1. N \in SUBSET Nat /\ IsFiniteSet(N)
    BY <1>2, SomeNumbers
  <2>2. /\ Cardinality(N) \in Nat /\ found \in [1 .. Cardinality(N) -> N]
        /\ \A x \in N : \E k \in 1 .. Cardinality(N) : found[k] = x
        /\ \A j, k \in 1 .. Cardinality(N) : j < k => found[j] < found[k]
    BY <1>3, <2>1, AscendingIs
  <2>3. QED BY <2>2
<1>5. n <= l
  <2> HIDE DEF N
  <2>1. IsFiniteSet(1 .. l) /\ Cardinality(1 .. l) = l
    BY FS_Interval
  <2>2. Cardinality(N) <= Cardinality(1 .. l)
    BY <1>2, <2>1, FS_Subset
  <2>3. QED BY <1>4, <2>1, <2>2
<1>6. PICK rows : rows = Postings(term)
  OBVIOUS
<1>7. rows = [k \in 1 .. n |-> [passage |-> found[k], frequency |-> Frequency(found[k], term)]]
  BY <1>3, <1>4, <1>6 DEF Postings, Holders
<1>8. ASSUME NEW k \in 1 .. n
      PROVE  /\ rows[k].passage = found[k] /\ rows[k].frequency = Frequency(found[k], term)
             /\ found[k] \in DOMAIN passages /\ Frequency(found[k], term) > 0
             /\ rows[k].frequency \in Nat
  <2>1. found[k] \in N
    BY <1>4
  <2>2. rows[k].passage = found[k] /\ rows[k].frequency = Frequency(found[k], term)
    BY <1>7
  <2>3. QED BY <2>1, <2>2, FrequencyIs
<1>9. ASSUME NEW j \in 1 .. n, NEW k \in 1 .. n, rows[j].passage = rows[k].passage
      PROVE  j = k
  <2>1. found[j] = found[k] /\ found[j] \in Nat
    BY <1>1, <1>8, <1>9
  <2>2. ~ (j < k) /\ ~ (k < j)
    BY <1>4, <2>1
  <2>3. QED BY <2>2
<1>10. DOMAIN rows = 1 .. n
  BY <1>7
<1>11. Len(rows) = n
  <2>1. rows \in Seq({rows[k] : k \in 1 .. n})
    BY <1>7, SeqDef
  <2>2. QED BY <1>10, <2>1, LenProperties
<1>12. AreRows(rows, n, DOMAIN passages)
  BY <1>8, <1>9, <1>10 DEF AreRows
<1>13. \A p \in DOMAIN passages : Frequency(p, term) > 0 =>
         \E k \in 1 .. n : rows[k].passage = p
  <2>1. ASSUME NEW p \in DOMAIN passages, Frequency(p, term) > 0
        PROVE  \E k \in 1 .. n : rows[k].passage = p
    <3>1. p \in N
      BY <2>1
    <3>2. QED BY <1>4, <1>8, <3>1
  <2>2. QED BY <2>1
<1>14. N = Holders(term)
  BY DEF Holders
<1> HIDE DEF N
<1>15. QED BY <1>1, <1>4, <1>5, <1>6, <1>8, <1>11, <1>12, <1>13, <1>14

(* What a term adds to a passage's score: something, where it occurs.       *)
LEMMA ProductGrows ==
  ASSUME NEW a \in Nat \ {0}, NEW b \in Nat \ {0}
  PROVE  a * b \in Nat \ {0}
<1>1. PICK c \in Nat, d \in Nat : a = c + 1 /\ b = d + 1
  <2>1. a - 1 \in Nat /\ b - 1 \in Nat /\ a = (a - 1) + 1 /\ b = (b - 1) + 1
    OBVIOUS
  <2>2. QED BY <2>1
<1>2. a * b = c * d + c + d + 1
  BY <1>1
<1>3. c * d \in Nat
  OBVIOUS
<1>4. QED BY <1>2, <1>3

LEMMA WeightIs ==
  ASSUME NEW i \in Nat
  PROVE  Weight(i) \in Nat \ {0}
  BY RankingAssumption DEF Weight

LEMMA TermScoreIs ==
  ASSUME PassagesFit, NEW term, NEW f \in Nat \ {0}
  PROVE  TermScore(Len(passages), Postings(term), f) \in Nat \ {0}
<1>1. PICK n \in Nat, l \in Nat : n = Len(Postings(term)) /\ l = Len(passages) /\ n <= l
  <2>1. PICK n : AreRows(Postings(term), n, DOMAIN passages) /\ Len(Postings(term)) = n /\ n <= Len(passages)
    BY PostingsAre
  <2>2. QED BY <2>1, PassagesNumber DEF AreRows
<1>2. l - n + 1 \in Nat \ {0}
  BY <1>1
<1>3. (l - n + 1) * f \in Nat \ {0}
  BY <1>2, ProductGrows
<1>4. QED BY <1>1, <1>3 DEF TermScore

(* The part as the search counts it.                                        *)
LEMMA TermPartCounted ==
  ASSUME PassagesFit, NEW p \in DOMAIN passages, NEW i \in Nat
  PROVE  TermPart(p, i) =
           IF Frequency(p, call.terms[i]) = 0 THEN 0
           ELSE Weight(i) * TermScore(Len(passages), Postings(call.terms[i]),
                                      Frequency(p, call.terms[i]))
<1>1. PICK term : term = call.terms[i]
  OBVIOUS
<1>2. PICK f \in Nat : f = Frequency(p, term)
  BY FrequencyIs
<1>3. PICK n \in Nat, l \in Nat : /\ n = Len(Postings(term)) /\ n = Cardinality(Holders(term))
                                /\ l = Len(passages)
  <2>1. PICK n : /\ AreRows(Postings(term), n, DOMAIN passages)
                 /\ Len(Postings(term)) = n /\ n = Cardinality(Holders(term))
    BY PostingsAre
  <2>2. QED BY <2>1, PassagesNumber DEF AreRows
<1>4. TermPart(p, i) = Weight(i) * ((l - n + 1) * f)
  BY <1>1, <1>2, <1>3 DEF TermPart
<1>5. TermScore(l, Postings(term), f) = (l - n + 1) * f
  BY <1>3 DEF TermScore
<1>6. PICK w \in Nat : w = Weight(i)
  BY WeightIs
<1>7. f = 0 => w * ((l - n + 1) * f) = 0
  OBVIOUS
<1>8. QED BY <1>1, <1>2, <1>3, <1>4, <1>5, <1>6, <1>7

LEMMA TermPartIs ==
  ASSUME PassagesFit, NEW p \in DOMAIN passages, NEW i \in Nat
  PROVE  /\ TermPart(p, i) \in Nat
         /\ TermPart(p, i) > 0 <=> Frequency(p, call.terms[i]) > 0
<1>1. PICK f \in Nat : f = Frequency(p, call.terms[i])
  BY FrequencyIs
<1>2. CASE f = 0
  <2>1. TermPart(p, i) = 0
    BY <1>1, <1>2, TermPartCounted
  <2>2. QED BY <1>1, <1>2, <2>1
<1>3. CASE f # 0
  <2>1. PICK s \in Nat \ {0} : s = TermScore(Len(passages), Postings(call.terms[i]), f)
    BY <1>3, TermScoreIs
  <2>2. TermPart(p, i) = Weight(i) * s
    BY <1>1, <1>3, <2>1, TermPartCounted
  <2>3. Weight(i) * s \in Nat \ {0}
    BY WeightIs, ProductGrows
  <2>4. QED BY <1>1, <1>3, <2>2, <2>3
<1>4. QED BY <1>2, <1>3

-----------------------------------------------------------------------------
(* The score so far: after the first k terms.                               *)

TermParts(p) == [i \in 1 .. Len(call.terms) |-> TermPart(p, i)]

MatchedUpTo(p, k) == Cardinality({i \in 1 .. k : TermPart(p, i) > 0})

ScoredUpTo(items, p, k) ==
  \E s : /\ PartialSums(TermParts(p), Len(call.terms), s)
         /\ Marked(items, p, s[k], MatchedUpTo(p, k))

LEMMA MatchedGrows ==
  ASSUME PassagesFit, NEW p \in DOMAIN passages, NEW k \in Nat \ {0}
  PROVE  /\ MatchedUpTo(p, k) \in Nat /\ MatchedUpTo(p, k - 1) \in Nat
         /\ MatchedUpTo(p, k) = IF TermPart(p, k) > 0 THEN MatchedUpTo(p, k - 1) + 1
                                ELSE MatchedUpTo(p, k - 1)
<1> DEFINE M(j) == {i \in 1 .. j : TermPart(p, i) > 0}
<1>1. M(k - 1) \in SUBSET (1 .. k) /\ k \notin M(k - 1) /\ M(k) \in SUBSET (1 .. k)
  OBVIOUS
<1>2. M(k) = IF TermPart(p, k) > 0 THEN M(k - 1) \union {k} ELSE M(k - 1)
  <2>1. \A i : i \in 1 .. k <=> i \in 1 .. k - 1 \/ i = k
    OBVIOUS
  <2>2. QED BY <2>1
<1>3. MatchedUpTo(p, k) = Cardinality(M(k)) /\ MatchedUpTo(p, k - 1) = Cardinality(M(k - 1))
  BY DEF MatchedUpTo
<1> HIDE DEF M
<1>4. IsFiniteSet(M(k - 1)) /\ IsFiniteSet(M(k))
  <2>1. k \in Nat
    OBVIOUS
  <2>2. QED BY <1>1, <2>1, SomeNumbers
<1>5. Cardinality(M(k - 1)) \in Nat /\ Cardinality(M(k)) \in Nat
  BY <1>4, FS_CardinalityType
<1>6. Cardinality(M(k - 1) \union {k}) = Cardinality(M(k - 1)) + 1
  BY <1>1, <1>4, FS_AddElement
<1>7. QED BY <1>2, <1>3, <1>5, <1>6

LEMMA NothingScored ==
  ASSUME PassagesFit, NEW p \in DOMAIN passages, NEW X, call.terms \in Seq(X)
  PROVE  ScoredUpTo(<<>>, p, 0)
<1>1. PICK l \in Nat : l = Len(call.terms)
  BY SeqIs
<1>2. PICK w : w = TermParts(p)
  OBVIOUS
<1>3. w \in [1 .. l -> Nat] /\ DOMAIN w = 1 .. l /\ \A i \in 1 .. l : w[i] \in Nat
  <2>1. \A i \in 1 .. l : TermPart(p, i) \in Nat
    BY TermPartIs
  <2>2. QED BY <1>1, <1>2, <2>1 DEF TermParts
<1>4. PICK s : PartialSums(w, l, s)
  <2>1. IsFiniteSet(DOMAIN w)
    BY <1>3, FS_Interval
  <2>2. PICK g : g = SumStep(w, g)
    BY <2>1, SumExists
  <2>3. QED BY <1>3, <2>2, SumFromTheFirst
<1>5. s[0] = 0
  BY <1>4 DEF PartialSums
<1>6. MatchedUpTo(p, 0) = 0
  <2>1. {i \in 1 .. 0 : TermPart(p, i) > 0} = {}
    OBVIOUS
  <2>2. QED BY <2>1, FS_EmptySet DEF MatchedUpTo
<1>7. Marked(<<>>, p, 0, 0)
  BY DEF Marked
<1>8. QED BY <1>1, <1>2, <1>4, <1>5, <1>6, <1>7 DEF ScoredUpTo

(* One term more, in every passage's score.                                 *)
LEMMA TermScored ==
  ASSUME PassagesFit, NEW X, call.terms \in Seq(X), NEW k \in 1 .. Len(call.terms),
         NEW r, ResultsFit(r, DOMAIN passages),
         NEW p \in DOMAIN passages, ScoredUpTo(r.items, p, k - 1)
  PROVE  LET now == Accumulate(r, Postings(call.terms[k]), Weight(k), Len(passages))
         IN  ResultsFit(now, DOMAIN passages) /\ ScoredUpTo(now.items, p, k)
<1>1. PICK l \in Nat : l = Len(call.terms) /\ k \in 1 .. l /\ k \in Nat \ {0}
  BY SeqIs
<1>2. PICK term, rows : term = call.terms[k] /\ rows = Postings(term)
  OBVIOUS
<1>3. PICK n \in Nat :
        /\ AreRows(rows, n, DOMAIN passages) /\ Len(rows) = n
        /\ \A j \in 1 .. n : /\ rows[j].frequency = Frequency(rows[j].passage, term)
                             /\ Frequency(rows[j].passage, term) > 0
        /\ \A q \in DOMAIN passages : Frequency(q, term) > 0 => \E j \in 1 .. n : rows[j].passage = q
  <2>1. PICK m :
          /\ AreRows(rows, m, DOMAIN passages) /\ Len(rows) = m
          /\ \A j \in 1 .. m : /\ rows[j].frequency = Frequency(rows[j].passage, term)
                               /\ Frequency(rows[j].passage, term) > 0
          /\ \A q \in DOMAIN passages : Frequency(q, term) > 0 => \E j \in 1 .. m : rows[j].passage = q
    <3>1. QED BY <1>2, PostingsAre
  <2>2. m \in Nat
    BY <2>1 DEF AreRows
  <2>3. QED BY <2>1, <2>2
<1>4. PICK s : /\ PartialSums(TermParts(p), l, s)
               /\ Marked(r.items, p, s[k-1], MatchedUpTo(p, k - 1))
  BY <1>1 DEF ScoredUpTo
<1>5. s[k-1] \in Nat /\ s[k] = s[k-1] + TermPart(p, k)
  <2>1. k - 1 \in 0 .. l /\ k \in 1 .. l
    BY <1>1
  <2>2. TermParts(p)[k] = TermPart(p, k)
    BY <1>1, <2>1 DEF TermParts
  <2>3. QED BY <1>4, <2>1, <2>2 DEF PartialSums
<1>6. PICK weight \in Nat, total \in Nat : weight = Weight(k) /\ total = Len(passages)
  BY <1>1, WeightIs, PassagesNumber
<1>7. \A j \in 1 .. n : RowScore(rows, weight, total, j) = TermPart(rows[j].passage, k)
  <2>1. ASSUME NEW j \in 1 .. n
        PROVE  RowScore(rows, weight, total, j) = TermPart(rows[j].passage, k)
    <3>1. rows[j].frequency # 0 /\ rows[j].frequency = Frequency(rows[j].passage, term)
      BY <1>3
    <3>2. k \in Nat /\ rows[j].passage \in DOMAIN passages
      BY <1>1, <1>3 DEF AreRows
    <3>3. PICK q \in DOMAIN passages : q = rows[j].passage
      BY <3>2
    <3>4. TermPart(q, k) = weight * TermScore(total, rows, rows[j].frequency)
      BY <1>2, <1>6, <3>1, <3>2, <3>3, TermPartCounted
    <3>5. QED BY <3>3, <3>4 DEF RowScore
  <2>2. QED BY <2>1
<1>8. ScoresAreNumbers(rows, weight, total, n)
  <2>1. \A j \in 1 .. n : rows[j].passage \in DOMAIN passages
    BY <1>3 DEF AreRows
  <2>2. \A j \in 1 .. n : TermPart(rows[j].passage, k) \in Nat
    BY <1>1, <2>1, TermPartIs
  <2>3. QED BY <1>7, <2>2 DEF ScoresAreNumbers
<1>9. PICK m \in Nat : m = MatchedUpTo(p, k - 1)
  BY <1>1, MatchedGrows
<1>10. PICK sum \in Nat : sum = s[k-1]
  BY <1>5
<1>11. PICK P : P = DOMAIN passages /\ Hashed(P)
  BY PassagesNumber
<1>12. PICK now : now = Accumulate(r, rows, weight, total)
  OBVIOUS
<1>13. /\ ResultsFit(now, P)
       /\ \A j \in 1 .. n : rows[j].passage = p =>
            Marked(now.items, p, sum + RowScore(rows, weight, total, j), m + 1)
       /\ (\A j \in 1 .. n : rows[j].passage # p) => Marked(now.items, p, sum, m)
  <2>1. ResultsFit(r, P) /\ AreRows(rows, n, P) /\ Marked(r.items, p, sum, m)
    BY <1>3, <1>4, <1>9, <1>10, <1>11
  <2>2. QED BY <1>8, <1>11, <1>12, <2>1, RowsMark
<1>14. Marked(now.items, p, s[k], MatchedUpTo(p, k))
  <2>1. PICK f \in Nat : f = Frequency(p, term) /\ (TermPart(p, k) > 0 <=> f > 0)
    BY <1>1, <1>2, FrequencyIs, TermPartIs
  <2>2. CASE f > 0
    <3>1. PICK j \in 1 .. n : rows[j].passage = p
      BY <1>3, <2>1, <2>2
    <3>2. RowScore(rows, weight, total, j) = TermPart(p, k)
      BY <1>7, <3>1
    <3>3. MatchedUpTo(p, k) = m + 1
      BY <1>1, <1>9, <2>1, <2>2, MatchedGrows
    <3>4. QED BY <1>5, <1>10, <1>13, <3>1, <3>2, <3>3
  <2>3. CASE ~ (f > 0)
    <3>1. \A j \in 1 .. n : rows[j].passage # p
      BY <1>3, <2>1, <2>3
    <3>2. MatchedUpTo(p, k) = m
      BY <1>1, <1>9, <2>1, <2>3, MatchedGrows
    <3>3. TermPart(p, k) = 0
      BY <1>1, <2>1, <2>3, TermPartIs
    <3>4. s[k] = sum
      BY <1>5, <1>10, <3>3
    <3>5. QED BY <1>13, <3>1, <3>2, <3>4
  <2>4. QED BY <2>2, <2>3
<1>15. ScoredUpTo(now.items, p, k)
  BY <1>1, <1>4, <1>14 DEF ScoredUpTo
<1>16. QED BY <1>2, <1>6, <1>11, <1>12, <1>13, <1>15

-----------------------------------------------------------------------------
(* The score of a passage, whichever term is taken first.                   *)
SumBackwards(w, h) ==
  [s \in SUBSET DOMAIN w |-> IF s = {} THEN 0 ELSE h[s \ {Some(s)}] + w[Some(s)]]

LEMMA BackwardsIsTheSame ==
  ASSUME NEW w, IsFiniteSet(DOMAIN w), \A i \in DOMAIN w : w[i] \in Nat,
         NEW g, g = SumStep(w, g), NEW h, h = SumBackwards(w, h)
  PROVE  \A s \in SUBSET DOMAIN w : h[s] = g[s]
<1> DEFINE Good == {k \in Nat : \A s \in SUBSET DOMAIN w : Cardinality(s) = k => h[s] = g[s]}
<1>1. 0 \in Good
  <2>1. ASSUME NEW s \in SUBSET DOMAIN w, Cardinality(s) = 0 PROVE h[s] = g[s]
    <3>1. s = {}
      BY <2>1, Fewer
    <3>2. g[s] = 0
      BY <3>1 DEF SumStep
    <3>3. h[s] = 0
      BY <3>1 DEF SumBackwards
    <3>4. QED BY <3>2, <3>3
  <2>2. QED BY <2>1
<1>2. ASSUME NEW k \in Nat, k \in Good PROVE k + 1 \in Good
  <2>1. ASSUME NEW s \in SUBSET DOMAIN w, Cardinality(s) = k + 1 PROVE h[s] = g[s]
    <3>1. s # {}
      BY <2>1, Fewer
    <3>2. PICK i \in s : i = Some(s)
      BY <3>1, Fewer
    <3>3. PICK t \in SUBSET DOMAIN w : t = s \ {i}
      BY <3>1
    <3>4. Cardinality(t) = k
      BY <2>1, <3>2, <3>3, Fewer
    <3>5. g[s] = w[i] + g[t]
      BY <3>1, <3>2, <3>3 DEF SumStep
    <3>6. h[s] = h[t] + w[i]
      BY <3>1, <3>2, <3>3 DEF SumBackwards
    <3>7. h[t] = g[t] /\ g[t] \in Nat /\ w[i] \in Nat
      BY <1>2, <3>2, <3>4, SumTyped
    <3>8. QED BY <3>5, <3>6, <3>7
  <2>2. QED BY <2>1
<1>3. Good = Nat
  <2> HIDE DEF Good
  <2>1. Good \in SUBSET Nat
    BY DEF Good
  <2>2. QED BY <1>1, <1>2, <2>1, AllNumbers
<1>4. ASSUME NEW s \in SUBSET DOMAIN w PROVE h[s] = g[s]
  BY <1>3, Fewer
<1>5. QED BY <1>4

LEMMA PartialSumsAgree ==
  ASSUME NEW n \in Nat, NEW w, NEW p, PartialSums(w, n, p), NEW q, PartialSums(w, n, q)
  PROVE  p[n] = q[n]
<1> DEFINE T == {k \in 0 .. n : p[k] = q[k]}
<1>1. 0 \in T
  BY DEF PartialSums
<1>2. ASSUME NEW k \in 1 .. n, k - 1 \in T PROVE k \in T
  BY <1>2 DEF PartialSums
<1>3. n \in T
  <2> HIDE DEF T
  <2>1. 0 .. n \subseteq T
    BY <1>1, <1>2, UpTo
  <2>2. QED BY <2>1
<1>4. QED BY <1>3

LEMMA TermPartsAre ==
  ASSUME PassagesFit, NEW p \in DOMAIN passages, NEW l \in Nat, l = Len(call.terms)
  PROVE  /\ TermParts(p) \in [1 .. l -> Nat] /\ DOMAIN TermParts(p) = 1 .. l
         /\ \A i \in 1 .. l : TermParts(p)[i] = TermPart(p, i)
         /\ IsFiniteSet(DOMAIN TermParts(p))
<1>1. \A i \in 1 .. l : TermPart(p, i) \in Nat
  BY TermPartIs
<1>2. TermParts(p) = [i \in 1 .. l |-> TermPart(p, i)]
  BY DEF TermParts
<1>3. IsFiniteSet(1 .. l)
  BY FS_Interval
<1>4. QED BY <1>1, <1>2, <1>3

LEMMA TrueScoreIs ==
  ASSUME PassagesFit, NEW p \in DOMAIN passages, NEW X, call.terms \in Seq(X),
         NEW l, l = Len(call.terms), NEW s, PartialSums(TermParts(p), l, s)
  PROVE  TrueScore(p) = IF l < 2 THEN s[l]
                        ELSE s[l] * (l - 1 + CoordBonus * (MatchedUpTo(p, l) - 1))
<1>1. l \in Nat /\ DOMAIN call.terms = 1 .. l
  BY SeqIs
<1>2. PICK w : w = TermParts(p)
  OBVIOUS
<1>3. /\ w \in [1 .. l -> Nat] /\ DOMAIN w = 1 .. l /\ \A i \in 1 .. l : w[i] = TermPart(p, i)
      /\ IsFiniteSet(DOMAIN w) /\ \A i \in DOMAIN w : w[i] \in Nat
  BY <1>1, <1>2, TermPartsAre
<1>4. PICK g : g = SumStep(w, g)
  BY <1>3, SumExists
<1>5. PICK q : PartialSums(w, l, q) /\ g[DOMAIN w] = q[l]
  BY <1>1, <1>3, <1>4, SumFromTheFirst
<1>6. g[DOMAIN w] = s[l]
  BY <1>1, <1>2, <1>5, PartialSumsAgree
<1> DEFINE Step(h) == [t \in SUBSET DOMAIN call.terms |->
                         IF t = {} THEN 0 ELSE h[t \ {CHOOSE x \in t : TRUE}]
                                               + TermPart(p, CHOOSE x \in t : TRUE)]
           h == CHOOSE h : h = Step(h)
<1>7. FoldSet(LAMBDA i, n : n + TermPart(p, i), 0, DOMAIN call.terms) = h[DOMAIN call.terms]
  BY DEF FoldSet, MapThenFoldSet
<1>8. ASSUME NEW f PROVE Step(f) = SumBackwards(w, f)
  <2>1. ASSUME NEW t \in SUBSET (1 .. l), t # {} PROVE TermPart(p, Some(t)) = w[Some(t)]
    <3>1. Some(t) \in t
      BY <2>1 DEF Some
    <3>2. QED BY <1>3, <3>1
  <2>2. SumBackwards(w, f) = [t \in SUBSET (1 .. l) |->
                                IF t = {} THEN 0 ELSE f[t \ {Some(t)}] + w[Some(t)]]
    BY <1>3 DEF SumBackwards
  <2>3. Step(f) = [t \in SUBSET (1 .. l) |->
                     IF t = {} THEN 0 ELSE f[t \ {Some(t)}] + TermPart(p, Some(t))]
    BY <1>1 DEF Some
  <2>4. QED BY ZenonT(60), <2>1, <2>2, <2>3
<1>9. g = SumBackwards(w, g)
  <2>1. ASSUME NEW t \in SUBSET DOMAIN w, t # {}
        PROVE  w[Some(t)] + g[t \ {Some(t)}] = g[t \ {Some(t)}] + w[Some(t)]
    <3>1. PICK i \in DOMAIN w : i = Some(t)
      BY <2>1 DEF Some
    <3>2. g[t \ {i}] \in Nat /\ w[i] \in Nat
      BY <1>3, <1>4, SumTyped
    <3>3. QED BY <3>1, <3>2
  <2>2. SumStep(w, g) = SumBackwards(w, g)
    BY <2>1 DEF SumStep, SumBackwards
  <2>3. QED BY <1>4, <2>2
<1>10. h = SumBackwards(w, h)
  <2>1. \E f : f = Step(f)
    BY <1>8, <1>9
  <2>2. h = Step(h)
    BY <2>1
  <2> HIDE DEF h, Step
  <2>3. QED BY <1>8, <2>2
<1> HIDE DEF h, Step
<1>11. h[DOMAIN w] = g[DOMAIN w]
  BY <1>3, <1>4, <1>10, BackwardsIsTheSame
<1>12. FoldSet(LAMBDA i, n : n + TermPart(p, i), 0, DOMAIN call.terms) = s[l]
  BY <1>1, <1>3, <1>6, <1>7, <1>11
<1>13. Cardinality({i \in DOMAIN call.terms : TermPart(p, i) > 0}) = MatchedUpTo(p, l)
  BY <1>1 DEF MatchedUpTo
<1>14. QED BY <1>12, <1>13 DEF TrueScore

-----------------------------------------------------------------------------
(* A search whose terms have all been looked up: the list has every passage *)
(* with a term, and its score.                                              *)
AllScored ==
  /\ PassagesFit
  /\ \E X : call.terms \in Seq(X)
  /\ Listed(call.results.items, DOMAIN passages)
  /\ \A p \in DOMAIN passages : ScoredUpTo(call.results.items, p, Len(call.terms))

LEMMA ListIsScored ==
  ASSUME NEW items, NEW P, Listed(items, P), P \subseteq Nat
  PROVE  ScoredList(items, Len(items)) /\ \A i \in 1 .. Len(items) : items[i].passage \in P
<1>1. items \in Seq(Item)
  BY DEF Listed
<1>2. PICK n \in Nat : n = Len(items) /\ DOMAIN items = 1 .. n /\ items \in [1 .. n -> Item]
  BY <1>1, LenProperties
<1>3. QED BY <1>2 DEF Listed, ScoredList

LEMMA ScoresAreTrue ==
  ASSUME AllScored, NEW j \in 1 .. Len(call.results.items)
  PROVE  Final(call.results.items[j], Len(call.terms)) = TrueScore(call.results.items[j].passage)
<1>1. PICK items : items = call.results.items
  OBVIOUS
<1>2. PICK n \in Nat : n = Len(items) /\ DOMAIN items = 1 .. n
  BY <1>1, SeqIs DEF AllScored, Listed
<1>3. PICK p \in DOMAIN passages : p = items[j].passage
  BY <1>1, <1>2 DEF AllScored, Listed
<1>4. PICK l : l = Len(call.terms)
  OBVIOUS
<1>5. PICK s : PartialSums(TermParts(p), l, s) /\ Marked(items, p, s[l], MatchedUpTo(p, l))
  BY <1>1, <1>4 DEF AllScored, ScoredUpTo
<1>6. PICK i \in 1 .. n : /\ items[i].passage = p /\ items[i].score = s[l]
                          /\ items[i].matched = MatchedUpTo(p, l)
  BY <1>1, <1>2, <1>3, <1>5 DEF Marked
<1>7. i = j
  BY <1>1, <1>2, <1>3, <1>6 DEF AllScored, Listed
<1>8. TrueScore(p) = IF l < 2 THEN s[l]
                     ELSE s[l] * (l - 1 + CoordBonus * (MatchedUpTo(p, l) - 1))
  BY <1>4, <1>5, TrueScoreIs DEF AllScored
<1>9. Final(items[j], l) = TrueScore(p)
  BY <1>6, <1>7, <1>8 DEF Final
<1>10. QED BY <1>1, <1>3, <1>4, <1>9

LEMMA MatchingIsListed ==
  ASSUME AllScored, NEW p \in Matching
  PROVE  \E j \in 1 .. Len(call.results.items) : call.results.items[j].passage = p
<1>1. PICK items : items = call.results.items
  OBVIOUS
<1>2. PICK n \in Nat : n = Len(items) /\ DOMAIN items = 1 .. n
  BY <1>1, SeqIs DEF AllScored, Listed
<1>3. PICK l \in Nat : l = Len(call.terms) /\ DOMAIN call.terms = 1 .. l
  BY SeqIs DEF AllScored
<1>4. p \in DOMAIN passages
  BY DEF Matching
<1>5. PICK i \in 1 .. l : TermPart(p, i) > 0
  BY <1>3 DEF Matching
<1>6. PICK s : Marked(items, p, s[l], MatchedUpTo(p, l))
  BY <1>1, <1>3, <1>4 DEF AllScored, ScoredUpTo
<1>7. MatchedUpTo(p, l) # 0
  <2> DEFINE M == {j \in 1 .. l : TermPart(p, j) > 0}
  <2>1. M # {} /\ M \in SUBSET (1 .. l)
    BY <1>5
  <2>2. MatchedUpTo(p, l) = Cardinality(M)
    BY DEF MatchedUpTo
  <2> HIDE DEF M
  <2>3. IsFiniteSet(M)
    BY <2>1, SomeNumbers
  <2>4. QED BY <2>1, <2>2, <2>3, FS_EmptySet
<1>8. QED BY <1>1, <1>2, <1>6, <1>7 DEF Marked

(* The order and the scores of what may be kept.                            *)
InOrder(items, m) == \A j, k \in 1 .. m : j < k => Ahead(items[j], items[k])

IsRanking(all, m) ==
  /\ ScoredList(all, m) /\ Len(all) = m /\ m <= CandidateCeiling
  /\ InOrder(all, m)
  /\ \A k \in 1 .. m : all[k].passage \in DOMAIN passages
  /\ \A k \in 1 .. m : all[k].score = TrueScore(all[k].passage)
  /\ \A p \in Matching :
       \/ \E k \in 1 .. m : all[k].passage = p
       \/ /\ m = CandidateCeiling
          /\ \A k \in 1 .. m : Ahead(all[k], [passage |-> p, score |-> TrueScore(p)])

LEMMA RankedIsRanking ==
  ASSUME AllScored,
         NEW all, all = Ranked(call.results.items, Len(call.terms))
  PROVE  \E m : IsRanking(all, m)
<1>1. PICK items : items = call.results.items
  OBVIOUS
<1>2. PICK n : n = Len(items) /\ ScoredList(items, n) /\ \A i \in 1 .. n : items[i].passage \in DOMAIN passages
  <2>1. DOMAIN passages \subseteq Nat
    BY PassagesNumber DEF AllScored
  <2>2. Listed(items, DOMAIN passages)
    BY <1>1 DEF AllScored
  <2>3. QED BY <2>1, <2>2, ListIsScored
<1>3. PICK l \in Nat : l = Len(call.terms)
  BY SeqIs DEF AllScored
<1>4. PICK m : RanksFrom(all, items, l, n, m)
  BY <1>1, <1>2, <1>3, RankedIs
<1>5. \A j \in 1 .. n : Final(items[j], l) = TrueScore(items[j].passage)
  BY <1>1, <1>2, <1>3, ScoresAreTrue
<1>6. /\ ScoredList(all, m) /\ Len(all) = m /\ m <= CandidateCeiling
      /\ InOrder(all, m)
  BY <1>4 DEF RanksFrom, InOrder
<1>7. \A k \in 1 .. m : all[k].score = TrueScore(all[k].passage)
  <2>1. ASSUME NEW k \in 1 .. m PROVE all[k].score = TrueScore(all[k].passage)
    <3>1. PICK i \in 1 .. n : all[k].passage = items[i].passage /\ all[k].score = Final(items[i], l)
      BY <1>4 DEF RanksFrom
    <3>2. QED BY <1>5, <3>1
  <2>2. QED BY <2>1
<1>8. ASSUME NEW p \in Matching
      PROVE  \/ \E k \in 1 .. m : all[k].passage = p
             \/ /\ m = CandidateCeiling
                /\ \A k \in 1 .. m : Ahead(all[k], [passage |-> p, score |-> TrueScore(p)])
  <2>1. PICK j \in 1 .. n : items[j].passage = p
    BY <1>1, <1>2, MatchingIsListed
  <2>2. \/ \E k \in 1 .. m : all[k].passage = items[j].passage
        \/ /\ m = CandidateCeiling
           /\ \A k \in 1 .. m :
                Ahead(all[k], [passage |-> items[j].passage, score |-> Final(items[j], l)])
    BY <1>4 DEF RanksFrom
  <2>3. Final(items[j], l) = TrueScore(p)
    BY <1>5, <2>1
  <2>4. QED BY <2>1, <2>2, <2>3
<1>9. \A k \in 1 .. m : all[k].passage \in DOMAIN passages
  BY <1>2, <1>4 DEF RanksFrom
<1>10. QED BY <1>6, <1>7, <1>8, <1>9 DEF IsRanking

-----------------------------------------------------------------------------
(* The candidates as they stand, in some order.                             *)
AreStanding(items, m) ==
  /\ \A k \in 1 .. m : \E i \in 1 .. m : items[k] = Standing(i)
  /\ \A i \in 1 .. m : \E k \in 1 .. m : items[k] = Standing(i)

(* What is given to the model.                                              *)
IsSelection ==
  /\ call.fused => ~call.floored
  /\ \E m, before, k :
       /\ IsRanking(call.ranked, m)
       /\ ScoredList(before, m) /\ InOrder(before, m) /\ AreStanding(before, m)
       /\ TrimsTo(before, TokenCount, call.floored, k)
       /\ call.ranking = SubSeq(before, 1, k)

LEMMA SelectionIsBest ==
  ASSUME PassagesFit, IsSelection
  PROVE  BestPassagesSurvive
<1>1. PICK m, before, k :
        /\ IsRanking(call.ranked, m)
        /\ ScoredList(before, m) /\ InOrder(before, m) /\ AreStanding(before, m)
        /\ TrimsTo(before, TokenCount, call.floored, k)
        /\ call.ranking = SubSeq(before, 1, k)
  BY DEF IsSelection
<1>2. PICK all : all = call.ranked
  OBVIOUS
<1>3. PICK kept : kept = call.ranking
  OBVIOUS
<1>4. /\ m \in Nat /\ all \in [1 .. m -> Item] /\ Len(all) = m /\ DOMAIN all = 1 .. m
      /\ \A i, j \in 1 .. m : all[i].passage = all[j].passage => i = j
      /\ InOrder(all, m)
      /\ \A i \in 1 .. m : all[i].score = TrueScore(all[i].passage)
  BY <1>1, <1>2 DEF IsRanking, ScoredList
<1>5. before \in Seq(Item) /\ Len(before) = m /\ DOMAIN before = 1 .. m
  <2>1. before \in [1 .. m -> Item] /\ m \in Nat
    BY <1>1 DEF ScoredList
  <2>2. before \in Seq(Item)
    BY <2>1, SeqDef
  <2>3. QED BY <2>1, <2>2, LenProperties
<1>6. /\ k \in 0 .. m /\ k <= MaxPassages
      /\ m > 0 => k > 0
      /\ k > 1 => HeadTokens(before, TokenCount, k) <= TokenBudget
      /\ k < m => \/ k = MaxPassages
                  \/ HeadTokens(before, TokenCount, k) + TokenCount[before[k+1].passage] > TokenBudget
                  \/ call.floored /\ Floored(before, k + 1)
  BY <1>1, <1>5 DEF TrimsTo
<1>7. /\ Len(kept) = k /\ DOMAIN kept = 1 .. k /\ kept \in Seq(Item)
      /\ \A i \in 1 .. k : kept[i] = before[i]
  BY <1>1, <1>3, <1>5, <1>6, HeadIs
<1>8. Tokens(kept) = HeadTokens(before, TokenCount, k)
  <2>1. Tokens(kept) = SumTokens(kept, TokenCount)
    BY DEF Tokens, SumTokens
  <2>2. QED BY <1>1, <1>3, <2>1 DEF HeadTokens
<1>9. m \in Nat /\ k \in Nat /\ k <= m
  BY <1>4, <1>6
<1> DEFINE candidates == {Standing(i) : i \in DOMAIN all}
           dropped == candidates \ ToSet(kept)
           NextBest == CHOOSE n \in dropped : \A o \in dropped : n = o \/ Ahead(n, o)
<1>10. \A i, j \in DOMAIN kept : i < j => Ahead(kept[i], kept[j])
  <2>1. ASSUME NEW i \in 1 .. k, NEW j \in 1 .. k, i < j PROVE Ahead(kept[i], kept[j])
    <3>1. i \in 1 .. m /\ j \in 1 .. m
      BY <1>9
    <3>2. Ahead(before[i], before[j])
      BY <1>1, <2>1, <3>1 DEF InOrder
    <3>3. QED BY <1>7, <3>2
  <2>2. QED BY <1>7, <2>1
<1>11. \A i \in DOMAIN all : all[i].score = TrueScore(all[i].passage)
  BY <1>4
<1>12. ASSUME NEW p \in Matching \ {item.passage : item \in ToSet(all)}
       PROVE  /\ Len(all) = CandidateCeiling
              /\ \A i \in DOMAIN all : Ahead(all[i], [passage |-> p, score |-> TrueScore(p)])
  <2>1. \A i \in 1 .. m : all[i].passage # p
    BY <1>4, <1>12 DEF ToSet
  <2>2. QED BY <1>1, <1>2, <1>4, <2>1 DEF IsRanking
<1>13. kept = <<>> => all = <<>>
  <2>1. ASSUME kept = <<>> PROVE all = <<>>
    <3>1. k = 0
      BY <1>7, <2>1
    <3>2. m = 0
      BY <1>4, <1>6, <3>1
    <3>3. all \in Seq(Item)
      BY <1>4, SeqDef
    <3>4. QED BY <1>4, <3>2, <3>3, EmptySeq
  <2>2. QED BY <2>1
<1>14. Len(kept) <= MaxPassages /\ (Len(kept) > 1 => Tokens(kept) <= TokenBudget)
  BY <1>6, <1>7, <1>8
<1>15. \A p : p \in candidates <=> \E j \in 1 .. m : p = before[j]
  <2>1. \A p : p \in candidates <=> \E i \in 1 .. m : p = Standing(i)
    BY <1>4
  <2> HIDE DEF candidates
  <2>2. ASSUME NEW p \in candidates PROVE \E j \in 1 .. m : p = before[j]
    <3>1. PICK i \in 1 .. m : p = Standing(i)
      BY <2>1
    <3>2. PICK j \in 1 .. m : before[j] = Standing(i)
      BY <1>1 DEF AreStanding
    <3>3. QED BY <3>1, <3>2
  <2>3. ASSUME NEW j \in 1 .. m PROVE before[j] \in candidates
    <3>1. PICK i \in 1 .. m : before[j] = Standing(i)
      BY <1>1 DEF AreStanding
    <3>2. QED BY <2>1, <3>1
  <2>4. QED BY <2>2, <2>3
<1>16. \A p : p \in ToSet(kept) <=> \E j \in 1 .. k : p = before[j]
  BY <1>7 DEF ToSet
<1> HIDE DEF candidates
<1>17. \A p : p \in dropped <=> \E j \in k + 1 .. m : p = before[j]
  <2>1. ASSUME NEW p \in dropped PROVE \E j \in k + 1 .. m : p = before[j]
    <3>1. PICK j \in 1 .. m : p = before[j]
      BY <1>15
    <3>2. ~ (j \in 1 .. k)
      BY <1>16, <3>1
    <3>3. j \in k + 1 .. m
      BY <1>9, <3>2
    <3>4. QED BY <3>1, <3>3
  <2>2. ASSUME NEW j \in k + 1 .. m PROVE before[j] \in dropped
    <3>1. j \in 1 .. m /\ \A i \in 1 .. k : i \in 1 .. m /\ i # j
      BY <1>9
    <3>2. before[j] \in candidates
      BY <1>15, <3>1
    <3>3. ASSUME NEW i \in 1 .. k PROVE before[i] # before[j]
      BY <1>1, <3>1 DEF ScoredList
    <3>4. before[j] \notin ToSet(kept)
      BY <1>16, <3>3
    <3>5. QED BY <3>2, <3>4
  <2>3. QED BY <2>1, <2>2
<1> HIDE DEF dropped
<1>18. ToSet(kept) \subseteq candidates
  <2>1. \A j \in 1 .. k : j \in 1 .. m
    BY <1>9
  <2>2. QED BY <1>15, <1>16, <2>1
<1>19. \A i \in DOMAIN kept, p \in dropped : Ahead(kept[i], p)
  <2>1. ASSUME NEW i \in 1 .. k, NEW p \in dropped PROVE Ahead(kept[i], p)
    <3>1. PICK j \in k + 1 .. m : p = before[j]
      BY <1>17
    <3>2. i \in 1 .. m /\ j \in 1 .. m /\ i < j
      BY <1>9
    <3>3. QED BY <1>1, <1>7, <3>1, <3>2 DEF InOrder
  <2>2. QED BY <1>7, <2>1
<1>20. ASSUME dropped # {}
       PROVE  NextBest = before[k+1] /\ k < m
  <2>1. PICK e \in dropped : TRUE
    BY <1>20
  <2>2. k < m /\ k + 1 \in k + 1 .. m
    <3>1. PICK j \in k + 1 .. m : e = before[j]
      BY <1>17, <2>1
    <3>2. QED BY <1>9, <3>1
  <2>3. before[k+1] \in dropped
    BY <1>17, <2>2
  <2>4. ASSUME NEW o \in dropped PROVE before[k+1] = o \/ Ahead(before[k+1], o)
    <3>1. PICK j \in k + 1 .. m : o = before[j]
      BY <1>17
    <3>2. j = k + 1 \/ (k + 1 < j /\ k + 1 \in 1 .. m /\ j \in 1 .. m)
      BY <1>9, <3>1
    <3>3. QED BY <1>1, <3>1, <3>2 DEF InOrder
  <2>5. PICK n \in dropped : n = NextBest /\ \A o \in dropped : n = o \/ Ahead(n, o)
    BY <2>3, <2>4
  <2>6. n = before[k+1]
    <3>1. PICK x, y : x = n /\ y = before[k+1] /\ x \in Item /\ y \in Item
      <4>1. PICK j \in k + 1 .. m : n = before[j]
        BY <1>17
      <4>2. j \in 1 .. m /\ k + 1 \in 1 .. m
        BY <1>6, <2>2
      <4>3. QED BY <1>1, <4>1, <4>2 DEF ScoredList
    <3>2. x = y \/ (Ahead(x, y) /\ Ahead(y, x))
      BY <2>3, <2>4, <2>5, <3>1
    <3>3. x.score \in Nat /\ y.score \in Nat /\ x.passage \in Nat /\ y.passage \in Nat
      BY <3>1 DEF Item
    <3>4. ~ (Ahead(x, y) /\ Ahead(y, x))
      BY <3>3 DEF Ahead
    <3>5. QED BY <3>1, <3>2, <3>4
  <2>7. QED BY <2>2, <2>5, <2>6
<1> HIDE DEF NextBest
<1>21. ASSUME dropped # {}
       PROVE  \/ Len(kept) = MaxPassages
              \/ Tokens(kept) + TokenCount[NextBest.passage] > TokenBudget
              \/ /\ ~call.fused /\ call.floored
                 /\ NextBest.score * FloorDen < kept[1].score * FloorNum
  <2>1. NextBest = before[k+1] /\ k < m
    BY <1>20, <1>21
  <2>2. 1 \in 1 .. k
    BY <1>6, <2>1
  <2>3. kept[1] = before[1]
    BY <1>7, <2>2
  <2>4. call.floored => ~call.fused
    BY DEF IsSelection
  <2>5. QED BY <1>6, <1>7, <1>8, <2>1, <2>3, <2>4 DEF Floored
<1>22. /\ ToSet(kept) \subseteq candidates
       /\ \A i, j \in DOMAIN kept : i < j => Ahead(kept[i], kept[j])
       /\ \A i \in DOMAIN kept, p \in dropped : Ahead(kept[i], p)
       /\ dropped # {} =>
            \/ Len(kept) = MaxPassages
            \/ Tokens(kept) + TokenCount[NextBest.passage] > TokenBudget
            \/ /\ ~call.fused /\ call.floored
               /\ NextBest.score * FloorDen < kept[1].score * FloorNum
       /\ \A i \in DOMAIN all : all[i].score = TrueScore(all[i].passage)
       /\ \A p \in Matching \ {item.passage : item \in ToSet(all)} :
            /\ Len(all) = CandidateCeiling
            /\ \A i \in DOMAIN all : Ahead(all[i], [passage |-> p, score |-> TrueScore(p)])
       /\ kept = <<>> => all = <<>>
       /\ Len(kept) <= MaxPassages
       /\ Len(kept) > 1 => Tokens(kept) <= TokenBudget
  BY <1>10, <1>11, <1>12, <1>13, <1>14, <1>18, <1>19, <1>21
<1>23. QED BY <1>2, <1>3, <1>22 DEF BestPassagesSurvive, candidates, dropped, NextBest

-----------------------------------------------------------------------------
(* What is searched for.                                                    *)

LEMMA SpanOfSome ==
  ASSUME NEW n \in Nat, NEW N \in SUBSET (1 .. n), N # {}
  PROVE  /\ Min(N) \in N /\ Max(N) \in N
         /\ \A i \in N : Min(N) <= i /\ i <= Max(N)
<1>1. N \in SUBSET Nat
  OBVIOUS
<1>2. PICK a \in N : \A y \in N : a <= y
  BY <1>1, FirstNumber
<1>3. Min(N) \in N /\ \A y \in N : Min(N) <= y
  BY <1>2 DEF Min
<1> DEFINE T == {n - i : i \in N}
<1>4. T \in SUBSET Nat /\ T # {}
  <2>1. \A i \in N : n - i \in Nat
    OBVIOUS
  <2>2. QED BY <2>1
<1>5. PICK t \in T : \A y \in T : t <= y
  BY <1>4, FirstNumber
<1>6. PICK b \in N : t = n - b
  BY <1>5
<1>7. ASSUME NEW j \in N PROVE b >= j
  <2>1. n - j \in T /\ b \in Nat /\ j \in Nat
    OBVIOUS
  <2>2. n - b <= n - j
    BY <1>5, <1>6, <2>1
  <2>3. QED BY <2>1, <2>2
<1>8. Max(N) \in N /\ \A y \in N : Max(N) >= y
  BY <1>7 DEF Max
<1>9. \A i \in N : i <= Max(N)
  BY <1>1, <1>8
<1>10. QED BY <1>3, <1>8, <1>9

LEMMA PiecesAreSpelled ==
  ASSUME NEW S, NEW word \in Seq(S), InOnePiece(word)
  PROVE  SpelledAs(word, Spelling(word))
<1>1. PICK n \in Nat : DOMAIN word = 1 .. n
  BY SeqIs
<1>2. PICK N : N = Letters(word)
  OBVIOUS
<1>3. N \in SUBSET (1 .. n) /\ N # {}
  BY <1>1, <1>2 DEF InOnePiece, Letters
<1>4. PICK a, b : a = Min(N) /\ b = Max(N)
  OBVIOUS
<1>5. a \in N /\ b \in N /\ \A i \in N : a <= i /\ i <= b
  BY <1>3, <1>4, SpanOfSome
<1>6. \A i \in a .. b : InWord(word, i)
  BY <1>2, <1>4 DEF InOnePiece
<1>7. IsPiece(word, a, b)
  BY <1>2, <1>5, <1>6 DEF IsPiece, Letters
<1>8. Spelling(word) = Lower(SubSeq(word, a, b))
  BY <1>2, <1>4 DEF Spelling
<1>9. QED BY <1>7, <1>8 DEF SpelledAs

(* A passage with a word of the question is found.                          *)
LEMMA SharedWordIsFound ==
  ASSUME AllScored, call.question \in TypedWords,
         ToSet(BaseForms(JoinWords(call.question))) \subseteq ToSet(call.terms),
         NEW p \in DOMAIN passages, NEW i \in DOMAIN call.question, NEW j \in DOMAIN passages[p],
         InOnePiece(call.question[i]), InOnePiece(passages[p][j]),
         Spelling(call.question[i]) = Spelling(passages[p][j]),
         Spelling(call.question[i]) \notin Stopwords
  PROVE  Found(p)
<1>1. PICK question \in TypedWords : question = call.question
  OBVIOUS
<1>2. PICK passage \in TypedWords : passage = passages[p]
  BY SeqIs DEF AllScored, PassagesFit
<1>3. PICK w : w = Spelling(question[i]) /\ w = Spelling(passage[j]) /\ w \notin Stopwords
  BY <1>1, <1>2
<1>4. SpelledAs(question[i], w)
  <2>1. question[i] \in Seq(STRING)
    BY <1>1, SeqIs DEF TypedWords
  <2>2. QED BY <1>1, <1>3, <2>1, PiecesAreSpelled
<1>5. SpelledAs(passage[j], w)
  <2>1. passage[j] \in Seq(STRING)
    BY <1>2, SeqIs DEF TypedWords
  <2>2. QED BY <1>2, <1>3, <2>1, PiecesAreSpelled
<1>6. Space \in Chars /\ question \in Seq(Seq(Chars)) /\ passage \in Seq(Seq(Chars))
  BY TypedWordsAreTexts DEF Chars
<1>7. \E k \in DOMAIN BaseForms(JoinWords(question)) :
        BaseForms(JoinWords(question))[k] = Lemmatize(w)
  BY <1>1, <1>3, <1>4, <1>6, RowHasForm
<1>8. \E k \in DOMAIN BaseForms(JoinWords(passage)) :
        BaseForms(JoinWords(passage))[k] = Lemmatize(w)
  BY <1>2, <1>3, <1>5, <1>6, RowHasForm
<1>9. PICK term : term = Lemmatize(w)
  OBVIOUS
<1>10. term \in ToSet(call.terms)
  BY <1>1, <1>7, <1>9 DEF ToSet
<1>11. PICK l \in Nat : DOMAIN call.terms = 1 .. l
  BY SeqIs DEF AllScored
<1>12. PICK t \in 1 .. l : call.terms[t] = term
  BY <1>10, <1>11 DEF ToSet
<1>13. Frequency(p, term) > 0
  <2>1. \E k \in DOMAIN Terms(p) : Terms(p)[k] = term
    BY <1>2, <1>8, <1>9 DEF Terms
  <2>2. QED BY <2>1, FrequencyIs DEF AllScored
<1>14. TermPart(p, t) > 0
  BY <1>12, <1>13, TermPartIs, SMTT(40) DEF AllScored
<1>15. p \in Matching
  BY <1>11, <1>14 DEF Matching
<1>16. PICK k \in 1 .. Len(call.results.items) : call.results.items[k].passage = p
  BY <1>15, MatchingIsListed
<1>17. DOMAIN call.results.items = 1 .. Len(call.results.items)
  BY SeqIs DEF AllScored, Listed
<1>18. QED BY <1>16, <1>17 DEF Found

(* What a term offers is related to it.                                     *)
LEMMA OfferedIsRelated ==
  ASSUME NEW term, NEW word, NEW c \in Candidates(term), Lower(c) = word
  PROVE  IsRelated(word, term)
<1>1. CASE c \in Neighbors(term)
  <2> DEFINE rows == {i \in DOMAIN SynonymRows :
                        SynonymRows[i].word = term /\ SynonymRows[i].neighbors # {}}
  <2>1. rows # {} /\ c \in SynonymRows[Max(rows)].neighbors
    BY <1>1 DEF Neighbors
  <2>2. PICK n \in Nat : DOMAIN SynonymRows = 1 .. n
    BY LexiconAssumption, SeqIs
  <2>3. rows \in SUBSET (1 .. n)
    BY <2>2
  <2>4. PICK i \in rows : i = Max(rows)
    <3> HIDE DEF rows
    <3>1. QED BY <2>1, <2>3, SpanOfSome
  <2>5. /\ i \in DOMAIN SynonymRows /\ SynonymRows[i].word = term
        /\ c \in SynonymRows[i].neighbors
    BY <2>1, <2>4
  <2>6. QED BY <2>5 DEF IsRelated, IsSpelled
<1>2. CASE c \notin Neighbors(term)
  <2>1. /\ term \in DOMAIN WordNetTable
        /\ c \in WordNetTable[term].synonyms \/ c \in WordNetTable[term].hypernyms
    BY <1>2 DEF Candidates, InWordNet
  <2> DEFINE Same(pos, s) == s.words
             Above(pos, s) == Resolve(pos, s.hypernyms)
             All(Words(_, _)) ==
               UNION {UNION {Words(pos, s) : s \in Entry(pos, term)} : pos \in PartsOfSpeech}
  <2>2. /\ WordNetTable[term].synonyms = All(Same) \ {term}
        /\ WordNetTable[term].hypernyms = All(Above)
    BY <2>1 DEF WordNetTable
  <2>3. \E pos \in PartsOfSpeech : \E s \in Entry(pos, term) :
          c \in s.words \/ c \in Resolve(pos, s.hypernyms)
    BY <2>1, <2>2
  <2>4. PICK pos \in PartsOfSpeech : \E s \in Entry(pos, term) :
          c \in s.words \/ c \in Resolve(pos, s.hypernyms)
    BY <2>3
  <2>5. PICK s \in Entry(pos, term) : c \in s.words \/ c \in Resolve(pos, s.hypernyms)
    BY <2>4
  <2>6. PICK line \in DataFiles[pos] :
          /\ s.words = line.words /\ s.hypernyms = Targets(line, "@")
          /\ IsSpelled(line.words, term)
    <3>1. s \in SynsetIndex(pos) /\ \E w \in s.words : Lower(w) = term
      BY DEF Entry
    <3>2. PICK line \in DataFiles[pos] : s = Synset(line)
      BY <3>1 DEF SynsetIndex
    <3>3. s.words = line.words /\ s.hypernyms = Targets(line, "@")
      BY <3>2 DEF Synset
    <3>4. QED BY <3>1, <3>3 DEF IsSpelled
  <2>7. CASE c \in s.words
    <3>1. IsSpelled(line.words, word)
      BY <2>6, <2>7 DEF IsSpelled
    <3>2. QED BY <2>6, <3>1 DEF IsRelated
  <2>8. CASE c \in Resolve(pos, s.hypernyms)
    <3>1. PICK t \in SynsetIndex(pos) : t.offset \in s.hypernyms /\ c \in t.words
      BY <2>8 DEF Resolve
    <3>2. PICK above \in DataFiles[pos] : t = Synset(above)
      BY <3>1 DEF SynsetIndex
    <3>3. t.offset = above.offset /\ t.words = above.words
      BY <3>2 DEF Synset
    <3>4. PICK q \in line.pointers : q.symbol = "@" /\ q.to = above.offset
      BY <2>6, <3>1, <3>3 DEF Targets
    <3>5. IsSpelled(above.words, word)
      BY <3>1, <3>3 DEF IsSpelled
    <3>6. QED BY <2>6, <3>4, <3>5 DEF IsRelated
  <2>9. QED BY <2>5, <2>7, <2>8
<1>3. QED BY <1>1, <1>2

-----------------------------------------------------------------------------
(* A document cut into chunks.                                              *)

LEMMA PartIs ==
  ASSUME NEW W, NEW words \in Seq(W), NEW a \in Nat, NEW b \in Nat, a <= b, b <= Len(words)
  PROVE  /\ SubSeq(words, a + 1, b) \in Seq(W) /\ Len(SubSeq(words, a + 1, b)) = b - a
         /\ \A i \in 1 .. b - a : SubSeq(words, a + 1, b)[i] = words[a + i]
<1>1. PICK n \in Nat : n = Len(words) /\ \A i \in 1 .. n : words[i] \in W
  BY SeqIs
<1>2. PICK c \in Nat : c = a + 1
  OBVIOUS
<1>3. \A i \in c .. b : words[i] \in W
  BY <1>1, <1>2
<1>4. PICK s : s = SubSeq(words, c, b)
  OBVIOUS
<1>5. /\ s \in Seq(W) /\ Len(s) = IF c <= b THEN b - c + 1 ELSE 0
      /\ \A i \in 1 .. b - c + 1 : s[i] = words[c + i - 1]
  BY <1>2, <1>3, <1>4, SubSeqProperties
<1>6. Len(s) = b - a
  BY <1>2, <1>5
<1>7. ASSUME NEW i \in 1 .. b - a PROVE s[i] = words[a + i]
  <2>1. i \in 1 .. b - c + 1 /\ c + i - 1 = a + i
    BY <1>2
  <2>2. QED BY <1>5, <2>1
<1>8. QED BY <1>2, <1>4, <1>5, <1>6, <1>7

(* The words from a to b, of which the first c are left out up to d.        *)
IsPartOf(part, words, a, b, c, d) ==
  /\ a \in Nat /\ b \in Nat /\ c \in Nat /\ d \in Nat
  /\ d = a + c /\ d <= b /\ b <= Len(words)
  /\ part = SubSeq(words, a + 1, b)

SaysTheSame(part, c, words, d, b) ==
  SubSeq(part, c + 1, Len(part)) = SubSeq(words, d + 1, b)

LEMMA PartOfPart ==
  ASSUME NEW W, NEW words \in Seq(W), NEW part, NEW a, NEW b, NEW c, NEW d,
         IsPartOf(part, words, a, b, c, d)
  PROVE  SaysTheSame(part, c, words, d, b)
<1> a \in Nat /\ b \in Nat /\ c \in Nat /\ d \in Nat /\ d <= b /\ b <= Len(words)
  BY DEF IsPartOf
<1>1. PICK l \in Nat : l = b - a /\ d = a + c
  BY DEF IsPartOf
<1>2. /\ part \in Seq(W) /\ Len(part) = l
      /\ \A i \in 1 .. l : part[i] = words[a + i]
  BY <1>1, PartIs DEF IsPartOf
<1>3. PICK s : s = SubSeq(part, c + 1, l)
  OBVIOUS
<1>4. /\ s \in Seq(W) /\ Len(s) = l - c
      /\ \A i \in 1 .. l - c : s[i] = part[c + i]
  BY <1>1, <1>2, <1>3, PartIs
<1>5. PICK t : t = SubSeq(words, d + 1, b)
  OBVIOUS
<1>6. /\ t \in Seq(W) /\ Len(t) = b - d
      /\ \A i \in 1 .. b - d : t[i] = words[d + i]
  BY <1>1, <1>5, PartIs
<1>7. \A i \in 1 .. l - c : s[i] = t[i]
  <2>1. ASSUME NEW i \in 1 .. l - c PROVE s[i] = t[i]
    <3>1. c + i \in 1 .. l /\ a + (c + i) = d + i /\ i \in 1 .. b - d
      BY <1>1
    <3>2. QED BY <1>2, <1>4, <1>6, <3>1
  <2>2. QED BY <2>1
<1>8. s = t
  <2>1. Len(s) = Len(t)
    BY <1>1, <1>4, <1>6
  <2>2. QED BY <1>4, <1>6, <1>7, <2>1, SeqEqual
<1>9. QED BY <1>2, <1>3, <1>5, <1>8 DEF SaysTheSame

LEMMA PartsJoin ==
  ASSUME NEW W, NEW words \in Seq(W), NEW a \in Nat, NEW b \in Nat, a <= b, b <= Len(words)
  PROVE  SubSeq(words, 1, a) \o SubSeq(words, a + 1, b) = SubSeq(words, 1, b)
<1>1. PICK s : s = SubSeq(words, 1, a)
  OBVIOUS
<1>2. PICK t : t = SubSeq(words, a + 1, b)
  OBVIOUS
<1>3. PICK u : u = SubSeq(words, 1, b)
  OBVIOUS
<1>4. PICK n \in Nat : n = Len(words)
  BY SeqIs
<1>5. a \in 0 .. Len(words) /\ b \in 0 .. Len(words)
  BY <1>4
<1>6. s \in Seq(W) /\ Len(s) = a /\ \A i \in 1 .. a : s[i] = words[i]
  BY <1>1, <1>5, HeadIs
<1>7. t \in Seq(W) /\ Len(t) = b - a /\ \A i \in 1 .. b - a : t[i] = words[a + i]
  BY <1>2, PartIs
<1>8. u \in Seq(W) /\ Len(u) = b /\ \A i \in 1 .. b : u[i] = words[i]
  BY <1>3, <1>5, HeadIs
<1>9. PICK l \in Nat : l = b - a
  OBVIOUS
<1>10. PICK v : v = s \o t
  OBVIOUS
<1>11. /\ v \in Seq(W) /\ Len(v) = a + l
       /\ \A i \in 1 .. a + l : v[i] = IF i <= a THEN s[i] ELSE t[i - a]
  <2>1. s \in Seq(W) /\ t \in Seq(W) /\ Len(s) = a /\ Len(t) = l
    BY <1>6, <1>7, <1>9
  <2>2. /\ v \in Seq(W) /\ Len(v) = Len(s) + Len(t)
        /\ \A i \in 1 .. Len(s) + Len(t) : v[i] = IF i <= Len(s) THEN s[i] ELSE t[i - Len(s)]
    BY <1>10, <2>1, ConcatProperties
  <2>3. QED BY <2>1, <2>2
<1>12. ASSUME NEW i \in 1 .. a + l PROVE v[i] = u[i]
  <2>1. i \in 1 .. b
    BY <1>9
  <2>2. CASE i <= a
    <3>1. i \in 1 .. a
      BY <2>1, <2>2
    <3>2. QED BY <1>6, <1>8, <1>11, <2>1, <2>2, <3>1
  <2>3. CASE ~ (i <= a)
    <3>1. i - a \in 1 .. b - a /\ a + (i - a) = i
      BY <2>1, <2>3
    <3>2. QED BY <1>7, <1>8, <1>11, <2>1, <2>3, <3>1
  <2>4. QED BY <2>2, <2>3
<1>13. v = u
  <2>1. Len(v) = Len(u) /\ Len(v) = a + l
    BY <1>8, <1>9, <1>11
  <2>2. QED BY <1>8, <1>11, <1>12, <2>1, SeqEqual
<1>14. QED BY <1>1, <1>2, <1>3, <1>10, <1>13

(* parts are what is between one end and the next, up to the last word.     *)
AreParts(parts, words, n, e) ==
  /\ n \in Nat /\ e \in [0 .. n -> Nat] /\ e[0] = 0 /\ e[n] = Len(words)
  /\ \A j \in 1 .. n : e[j-1] < e[j] /\ e[j] <= Len(words)
  /\ parts = [j \in 1 .. n |-> SubSeq(words, e[j-1] + 1, e[j])]

LEMMA FlattenIs ==
  ASSUME NEW W, NEW words \in Seq(W), NEW parts, NEW n, NEW e, AreParts(parts, words, n, e)
  PROVE  FlattenSeq(parts) = words /\ n <= Len(words) /\ \A j \in 1 .. n : parts[j] # <<>>
<1>1. PICK l \in Nat : l = Len(words)
  BY SeqIs
<1>2. /\ n \in Nat /\ e \in [0 .. n -> Nat] /\ e[0] = 0 /\ e[n] = l
      /\ \A j \in 1 .. n : e[j-1] < e[j] /\ e[j] <= l
      /\ parts = [j \in 1 .. n |-> SubSeq(words, e[j-1] + 1, e[j])]
  BY <1>1 DEF AreParts
<1>3. ASSUME NEW j \in 1 .. n
      PROVE  /\ e[j-1] \in Nat /\ e[j] \in Nat
             /\ parts[j] = SubSeq(words, e[j-1] + 1, e[j])
             /\ parts[j] \in Seq(W) /\ Len(parts[j]) # 0
  <2>1. j - 1 \in 0 .. n /\ j \in 0 .. n
    BY <1>2
  <2>2. PICK a \in Nat, b \in Nat : a = e[j-1] /\ b = e[j]
    BY <1>2, <2>1
  <2>3. a < b /\ b <= l /\ parts[j] = SubSeq(words, a + 1, b)
    BY <1>2, <2>2
  <2>4. parts[j] \in Seq(W) /\ Len(parts[j]) = b - a
    BY <1>1, <2>3, PartIs
  <2>5. QED BY <2>2, <2>3, <2>4
<1>4. Len(parts) = n /\ DOMAIN parts = 1 .. n /\ parts \in Seq(Seq(W))
  <2>1. parts \in [1 .. n -> Seq(W)]
    BY <1>2, <1>3
  <2>2. parts \in Seq(Seq(W))
    <3>1. PICK X : X = Seq(W)
      OBVIOUS
    <3>2. parts \in [1 .. n -> X]
      BY <2>1, <3>1
    <3>3. parts \in Seq(X)
      BY <1>2, <3>2, SeqDef
    <3>4. QED BY <3>1, <3>3
  <2>3. DOMAIN parts = 1 .. n
    BY <2>1
  <2>4. Len(parts) \in Nat /\ DOMAIN parts = 1 .. Len(parts)
    <3>1. PICK X : X = Seq(W)
      OBVIOUS
    <3>2. QED BY <2>2, <3>1, LenProperties
  <2>5. Len(parts) = n
    BY <1>2, <2>3, <2>4
  <2>6. QED BY <2>2, <2>3, <2>5
<1>5. \A j \in 1 .. n : parts[j] # <<>>
  BY <1>3, EmptySeq
(* Every part has a word of its own.                                        *)
<1>6. n <= l
  <2> DEFINE T == {j \in 0 .. n : j <= e[j]}
  <2>1. 0 \in T
    BY <1>2
  <2>2. ASSUME NEW j \in 1 .. n, j - 1 \in T PROVE j \in T
    <3>1. e[j-1] \in Nat /\ e[j] \in Nat /\ e[j-1] < e[j] /\ j - 1 <= e[j-1]
      BY <1>2, <1>3, <2>2
    <3>2. j <= e[j] /\ j \in 0 .. n
      BY <1>2, <3>1
    <3>3. QED BY <3>2
  <2>3. n \in T
    <3> HIDE DEF T
    <3>1. 0 .. n \subseteq T
      BY <1>2, <2>1, <2>2, UpTo
    <3>2. QED BY <1>2, <3>1
  <2>4. QED BY <1>2, <2>3
<1>7. CASE n = 0
  <2>1. FlattenSeq(parts) = parts
    BY <1>4, <1>7 DEF FlattenSeq
  <2>2. parts = <<>> /\ words = <<>>
    BY <1>1, <1>2, <1>4, <1>7, EmptySeq
  <2>3. QED BY <1>1, <1>5, <1>6, <2>1, <2>2
<1>8. CASE n # 0
  <2> DEFINE Step(h) == [i \in 1 .. Len(parts) |-> IF i = 1 THEN parts[i] ELSE h[i-1] \o parts[i]]
             h == CHOOSE h : h = Step(h)
             g == [i \in 1 .. n |-> SubSeq(words, 1, e[i])]
  <2>1. FlattenSeq(parts) = h[n]
    BY <1>4, <1>8 DEF FlattenSeq
  <2>2. parts[1] = SubSeq(words, 1, e[1])
    <3>1. 1 \in 1 .. n /\ 1 - 1 = 0 /\ 0 + 1 = 1
      BY <1>2, <1>8
    <3>2. parts[1] = SubSeq(words, e[0] + 1, e[1])
      BY <1>3, <3>1
    <3>3. QED BY <1>2, <3>1, <3>2
  <2>3. ASSUME NEW i \in 2 .. n
        PROVE  SubSeq(words, 1, e[i-1]) \o parts[i] = SubSeq(words, 1, e[i])
    <3>1. i \in 1 .. n
      BY <1>2
    <3>2. PICK a \in Nat, b \in Nat : a = e[i-1] /\ b = e[i] /\ a < b /\ b <= l
      BY <1>2, <1>3, <3>1
    <3>3. parts[i] = SubSeq(words, a + 1, b)
      BY <1>3, <3>1, <3>2
    <3>4. SubSeq(words, 1, a) \o SubSeq(words, a + 1, b) = SubSeq(words, 1, b)
      <4>1. a <= b /\ b <= Len(words)
        BY <1>1, <3>2
      <4>2. QED BY <4>1, PartsJoin
    <3>5. QED BY <3>2, <3>3, <3>4
  <2>4. g = Step(g)
    <3>1. ASSUME NEW i \in 1 .. n PROVE g[i] = Step(g)[i]
      <4>1. CASE i = 1
        BY <1>4, <2>2, <4>1
      <4>2. CASE i # 1
        <5>1. i \in 2 .. n /\ i - 1 \in 1 .. n
          BY <1>2, <4>2
        <5>2. g[i-1] = SubSeq(words, 1, e[i-1]) /\ g[i] = SubSeq(words, 1, e[i])
          BY <5>1
        <5>3. Step(g)[i] = g[i-1] \o parts[i]
          BY <1>4, <4>2
        <5> HIDE DEF g, Step
        <5>4. QED BY <2>3, <5>1, <5>2, <5>3
      <4>3. QED BY <4>1, <4>2
    <3>2. QED BY <1>4, <3>1
  <2>5. h = Step(h)
    BY <2>4
  <2> HIDE DEF h, g
  <2> DEFINE T == {i \in 0 .. n : i = 0 \/ h[i] = SubSeq(words, 1, e[i])}
  <2>6. 0 \in T
    BY <1>2
  <2>7. ASSUME NEW i \in 1 .. n, i - 1 \in T PROVE i \in T
    <3>1. h[i] = IF i = 1 THEN parts[i] ELSE h[i-1] \o parts[i]
      BY <1>4, <2>5
    <3>2. CASE i = 1
      BY <2>2, <3>1, <3>2
    <3>3. CASE i # 1
      <4>1. i \in 2 .. n /\ h[i-1] = SubSeq(words, 1, e[i-1])
        BY <1>2, <2>7, <3>3
      <4>2. PICK a, b, c : a = SubSeq(words, 1, e[i-1]) /\ b = parts[i] /\ c = SubSeq(words, 1, e[i])
        OBVIOUS
      <4>3. h[i] = h[i-1] \o b
        BY <3>1, <3>3, <4>2
      <4>4. a \o b = c
        BY <2>3, <4>1, <4>2
      <4>5. h[i-1] = a
        BY <4>1, <4>2, Zenon
      <4>6. h[i] = c
        BY <4>3, <4>4, <4>5, Zenon
      <4>7. QED BY <4>2, <4>6
    <3>4. QED BY <3>2, <3>3
  <2>8. n \in T
    <3> HIDE DEF T
    <3>1. 0 .. n \subseteq T
      BY <1>2, <2>6, <2>7, UpTo
    <3>2. QED BY <1>2, <3>1
  <2>9. h[n] = SubSeq(words, 1, l)
    BY <1>2, <1>8, <2>8
  <2>10. SubSeq(words, 1, l) = words
    <3>1. PICK s : s = SubSeq(words, 1, l)
      OBVIOUS
    <3>2. l \in 0 .. Len(words)
      BY <1>1
    <3>3. s \in Seq(W) /\ Len(s) = l /\ \A i \in 1 .. l : s[i] = words[i]
      BY <3>1, <3>2, HeadIs
    <3>4. s = words
      BY <1>1, <3>3, SeqEqual
    <3>5. QED BY <3>1, <3>4
  <2>11. QED BY <1>1, <1>5, <1>6, <2>1, <2>9, <2>10
<1>9. QED BY <1>7, <1>8

LEMMA WithOneMore ==
  ASSUME NEW X, NEW c \in Seq(X), NEW w \in X, NEW k \in Nat, Len(c) = k
  PROVE  /\ Append(c, w) \in Seq(X) /\ Len(Append(c, w)) = k + 1
         /\ DOMAIN Append(c, w) = 1 .. k + 1
         /\ Append(c, w)[k + 1] = w
         /\ \A i \in 1 .. k : Append(c, w)[i] = c[i]
BY AppendIs

(* The chunks so far: each begins where its from says, none has reached the *)
(* last word, and the next begins at start.                                 *)
CutSoFar(words, size, overlap, chunks, start, from) ==
  LET k == Len(chunks)
  IN  /\ from \in [1 .. k + 1 -> Nat] /\ from[1] = 0 /\ from[k+1] = start
      /\ \A j \in 1 .. k :
           /\ from[j+1] = from[j] + (size - overlap)
           /\ from[j] + size < Len(words)
           /\ chunks[j] = SubSeq(words, from[j] + 1, from[j] + size)

Own(chunks, overlap, k) ==
  IF k = 1 THEN chunks[k] ELSE SubSeq(chunks[k], overlap + 1, Len(chunks[k]))

IsTheDocument(chunks, words, size, overlap) ==
  /\ FlattenSeq([k \in DOMAIN chunks |-> Own(chunks, overlap, k)]) = words
  /\ \A k \in DOMAIN chunks : Own(chunks, overlap, k) # <<>>
  /\ \A k \in 1 .. Len(chunks) - 1 : Len(chunks[k]) = size

(* Where the chunks end, when the last of them has reached the last word.   *)
EndsAt(from, size, n, last) ==
  [j \in 0 .. n |-> IF j = 0 THEN 0 ELSE IF j = n THEN last ELSE from[j] + size]

LEMMA WholeCut ==
  ASSUME NEW W, NEW words \in Seq(W), words # <<>>,
         NEW size \in Nat, NEW overlap \in Nat, IsChunking(size, overlap),
         NEW chunks \in Seq(Seq(W)), NEW start \in Nat, start + size >= Len(words),
         NEW from, CutSoFar(words, size, overlap, chunks, start, from),
         NEW all, all = Append(chunks, SubSeq(words, start + 1, Len(words)))
  PROVE  /\ all \in Seq(Seq(W)) /\ Len(all) <= Len(words)
         /\ IsTheDocument(all, words, size, overlap)
<1>1. PICK l \in Nat : l = Len(words) /\ l # 0
  <2>1. Len(words) \in Nat /\ Len(words) # 0
    BY SeqIs, EmptySeq
  <2>2. QED BY <2>1
<1>2. PICK k \in Nat : k = Len(chunks) /\ DOMAIN chunks = 1 .. k
  <2>1. PICK X : X = Seq(W)
    OBVIOUS
  <2>2. QED BY <2>1, SeqIs
<1>3. PICK n \in Nat : n = k + 1
  OBVIOUS
<1>4. /\ from \in [1 .. n -> Nat] /\ from[1] = 0 /\ from[n] = start
      /\ \A j \in 1 .. k :
           /\ from[j+1] = from[j] + (size - overlap)
           /\ from[j] + size < l
           /\ chunks[j] = SubSeq(words, from[j] + 1, from[j] + size)
  BY <1>1, <1>2, <1>3 DEF CutSoFar
<1>5. overlap < size /\ size # 0
  BY DEF IsChunking
<1>6. \A j \in 1 .. n : from[j] \in Nat
  BY <1>4
<1>7. PICK e : e = EndsAt(from, size, n, l)
  OBVIOUS
<1>8. /\ DOMAIN e = 0 .. n /\ e[0] = 0 /\ e[n] = l
      /\ \A j \in 1 .. k : e[j] = from[j] + size
  <2>1. e = [j \in 0 .. n |-> IF j = 0 THEN 0 ELSE IF j = n THEN l ELSE from[j] + size]
    BY <1>7 DEF EndsAt
  <2>2. 0 \in 0 .. n /\ n \in 0 .. n /\ n # 0 /\ \A j \in 1 .. k : j \in 0 .. n /\ j # 0 /\ j # n
    BY <1>3
  <2>3. QED BY <2>1, <2>2
<1>9. \A j \in 1 .. n : /\ e[j] \in Nat /\ e[j] <= l
                        /\ j # 1 => from[j] + overlap <= e[j]
                        /\ from[j] < e[j]
  <2>1. ASSUME NEW j \in 1 .. n
        PROVE  /\ e[j] \in Nat /\ e[j] <= l
               /\ j # 1 => from[j] + overlap <= e[j]
               /\ from[j] < e[j]
    <3>1. from[j] \in Nat
      BY <1>6
    <3>2. CASE j = n
      <4>1. e[j] = l /\ from[j] = start
        BY <1>4, <1>8, <3>2
      <4>2. CASE k = 0
        <5>1. from[j] = 0
          BY <1>3, <1>4, <3>2, <4>2
        <5>2. j = 1
          BY <1>3, <3>2, <4>2
        <5>3. QED BY <1>1, <4>1, <5>1, <5>2
      <4>3. CASE k # 0
        <5>1. k \in 1 .. k /\ k + 1 = n /\ k \in 1 .. n
          BY <1>3, <4>3
        <5>2. from[n] = from[k] + (size - overlap) /\ from[k] + size < l
          BY <1>4, <5>1
        <5>3. from[k] \in Nat /\ from[n] \in Nat
          BY <1>6, <5>1, <3>1, <3>2
        <5>4. from[n] + overlap < l
          BY <1>5, <5>2, <5>3
        <5>5. QED BY <1>1, <3>2, <4>1, <5>3, <5>4
      <4>4. QED BY <4>2, <4>3
    <3>3. CASE j # n
      <4>1. j \in 1 .. k
        BY <1>3, <3>3
      <4>2. e[j] = from[j] + size /\ from[j] + size < l
        BY <1>4, <1>8, <4>1
      <4>3. QED BY <1>5, <3>1, <4>2
    <3>4. QED BY <3>2, <3>3
  <2>2. QED BY <2>1
<1>10. ASSUME NEW j \in 1 .. n, j # 1
       PROVE  e[j-1] = from[j] + overlap /\ e[j-1] < e[j]
  <2>1. j - 1 \in 1 .. k /\ (j - 1) + 1 = j /\ j - 1 \in 1 .. n
    BY <1>3, <1>10
  <2>2. from[j] = from[j-1] + (size - overlap) /\ e[j-1] = from[j-1] + size
    BY <1>4, <1>8, <2>1
  <2>3. from[j-1] \in Nat /\ from[j] \in Nat
    BY <1>6, <2>1
  <2>4. e[j-1] = from[j] + overlap
    BY <1>5, <2>2, <2>3
  <2>5. e[j-1] < e[j]
    <3>1. CASE j = n
      <4>1. from[j-1] + size < l
        BY <1>4, <2>1
      <4>2. QED BY <1>8, <2>2, <3>1, <4>1
    <3>2. CASE j # n
      <4>1. j \in 1 .. k
        BY <1>3, <3>2
      <4>2. e[j] = from[j] + size
        BY <1>8, <4>1
      <4>3. QED BY <1>5, <2>3, <2>4, <4>2
    <3>3. QED BY <3>1, <3>2
  <2>6. QED BY <2>4, <2>5
(* All the chunks, the last one included.                                   *)
<1>11. PICK last : last = SubSeq(words, start + 1, l)
  OBVIOUS
<1>12. last \in Seq(W)
  <2>1. from[n] < l /\ from[n] = start
    <3>1. n \in 1 .. n
      BY <1>3
    <3>2. QED BY <1>4, <1>8, <1>9, <3>1
  <2>2. start <= l
    BY <1>1, <2>1
  <2>3. QED BY <1>1, <1>11, <2>2, PartIs
<1>13. /\ all \in Seq(Seq(W)) /\ Len(all) = n /\ DOMAIN all = 1 .. n /\ all[n] = last
       /\ \A j \in 1 .. k : all[j] = chunks[j]
  <2>1. PICK X : X = Seq(W)
    OBVIOUS
  <2>2. PICK c, w : c = chunks /\ w = last
    OBVIOUS
  <2>3. c \in Seq(X) /\ w \in X /\ Len(c) = k /\ all = Append(c, w)
    BY <1>1, <1>11, <1>12, <1>2, <2>1, <2>2
  <2>4. /\ all \in Seq(X) /\ Len(all) = k + 1 /\ DOMAIN all = 1 .. k + 1
        /\ all[k + 1] = w
        /\ \A j \in 1 .. k : all[j] = c[j]
    <3>1. PICK a : a = Append(c, w)
      OBVIOUS
    <3>2. /\ a \in Seq(X) /\ Len(a) = k + 1 /\ DOMAIN a = 1 .. k + 1
          /\ a[k + 1] = w /\ \A j \in 1 .. k : a[j] = c[j]
      BY <2>3, <3>1, WithOneMore
    <3>3. QED BY <2>3, <3>1, <3>2
  <2>5. QED BY <1>3, <2>1, <2>2, <2>4
<1>14. \A j \in 1 .. n : all[j] = SubSeq(words, from[j] + 1, e[j])
  <2>1. ASSUME NEW j \in 1 .. n PROVE all[j] = SubSeq(words, from[j] + 1, e[j])
    <3>1. CASE j = n
      BY <1>4, <1>8, <1>11, <1>13, <3>1
    <3>2. CASE j # n
      <4>1. j \in 1 .. k
        BY <1>3, <3>2
      <4>2. QED BY <1>4, <1>8, <1>13, <4>1
    <3>3. QED BY <3>1, <3>2
  <2>2. QED BY <2>1
<1>15. ASSUME NEW j \in 1 .. n
       PROVE  /\ Own(all, overlap, j) = SubSeq(words, e[j-1] + 1, e[j])
              /\ e[j-1] < e[j]
  <2>1. CASE j = 1
    <3>1. e[j-1] = 0 /\ from[j] = 0
      BY <1>4, <1>8, <2>1
    <3>2. QED BY <1>9, <1>14, <2>1, <3>1 DEF Own
  <2>2. CASE j # 1
    <3>1. PICK a \in Nat, b \in Nat : a = from[j] /\ b = e[j] /\ a + overlap <= b /\ b <= Len(words)
      BY <1>1, <1>6, <1>9, <2>2
    <3>2. PICK part : part = all[j]
      OBVIOUS
    <3>3. part = SubSeq(words, a + 1, b)
      BY <1>14, <3>1, <3>2
    <3>4. SubSeq(part, overlap + 1, Len(part)) = SubSeq(words, (a + overlap) + 1, b)
      <4>1. PICK d \in Nat : d = a + overlap
        OBVIOUS
      <4>2. IsPartOf(part, words, a, b, overlap, d)
        BY <3>1, <3>3, <4>1 DEF IsPartOf
      <4>3. SubSeq(part, overlap + 1, Len(part)) = SubSeq(words, d + 1, b)
        <5>1. SaysTheSame(part, overlap, words, d, b)
          BY <4>2, PartOfPart, Zenon
        <5>2. QED BY <5>1 DEF SaysTheSame
      <4>4. QED BY <4>1, <4>3
    <3>5. Own(all, overlap, j) = SubSeq(part, overlap + 1, Len(part))
      BY <2>2, <3>2 DEF Own
    <3>6. e[j-1] = a + overlap /\ e[j-1] < e[j]
      BY <1>10, <2>2, <3>1
    <3>7. QED BY <3>1, <3>4, <3>5, <3>6
  <2>3. QED BY <2>1, <2>2
<1>16. PICK parts : parts = [j \in 1 .. n |-> Own(all, overlap, j)]
  OBVIOUS
<1>17. AreParts(parts, words, n, e)
  <2>1. e \in [0 .. n -> Nat]
    <3>1. \A j \in 0 .. n : e[j] \in Nat
      <4>1. \A j \in 0 .. n : j = 0 \/ j \in 1 .. n
        OBVIOUS
      <4>2. QED BY <1>8, <1>9, <4>1
    <3>2. e = [j \in 0 .. n |-> e[j]]
      BY <1>7 DEF EndsAt
    <3>3. QED BY <3>1, <3>2
  <2>2. \A j \in 1 .. n : e[j-1] < e[j] /\ e[j] <= l
    BY <1>9, <1>15
  <2>3. parts = [j \in 1 .. n |-> SubSeq(words, e[j-1] + 1, e[j])]
    BY <1>15, <1>16
  <2>4. QED BY <1>1, <1>8, <2>1, <2>2, <2>3 DEF AreParts
<1>18. FlattenSeq(parts) = words /\ n <= Len(words) /\ \A j \in 1 .. n : parts[j] # <<>>
  BY <1>17, FlattenIs
<1>19. \A j \in 1 .. Len(all) - 1 : Len(all[j]) = size
  <2>1. ASSUME NEW j \in 1 .. k PROVE Len(all[j]) = size
    <3>1. PICK a \in Nat : a = from[j] /\ a + size < l
      <4>1. j \in 1 .. n
        BY <1>3
      <4>2. QED BY <1>4, <1>6, <4>1
    <3>2. PICK b \in Nat : b = a + size
      OBVIOUS
    <3>3. all[j] = SubSeq(words, a + 1, b)
      BY <1>4, <1>13, <3>1, <3>2
    <3>4. a <= b /\ b <= Len(words) /\ b - a = size
      <4>1. b <= l
        BY <1>1, <3>1, <3>2
      <4>2. a <= b /\ b - a = size
        BY <3>2
      <4>3. QED BY <1>1, <4>1, <4>2
    <3>5. Len(SubSeq(words, a + 1, b)) = b - a
      <4>1. b \in Nat
        OBVIOUS
      <4>2. QED BY <3>4, <4>1, PartIs
    <3>6. QED BY <3>3, <3>4, <3>5
  <2>2. Len(all) - 1 = k
    BY <1>3, <1>13
  <2>3. QED BY <2>1, <2>2
<1>20. IsTheDocument(all, words, size, overlap)
  <2>1. \A j \in 1 .. n : Own(all, overlap, j) # <<>>
    BY <1>16, <1>18
  <2>2. FlattenSeq([j \in DOMAIN all |-> Own(all, overlap, j)]) = words
    BY <1>13, <1>16, <1>18
  <2>3. QED BY <1>13, <1>19, <2>1, <2>2 DEF IsTheDocument
<1>21. QED BY <1>13, <1>18, <1>20

LEMMA NothingToCut ==
  ASSUME NEW size, NEW overlap
  PROVE  IsTheDocument(<<>>, <<>>, size, overlap)
<1>1. DOMAIN <<>> = {} /\ Len(<<>>) = 0
  BY EmptySeq
<1>2. PICK parts : parts = [k \in DOMAIN <<>> |-> Own(<<>>, overlap, k)]
  OBVIOUS
<1>3. parts = <<>>
  BY <1>1, <1>2
<1>4. FlattenSeq(<<>>) = <<>>
  BY <1>1 DEF FlattenSeq
<1>5. \A k \in 1 .. 0 - 1 : FALSE
  OBVIOUS
<1>6. QED BY <1>1, <1>2, <1>3, <1>4, <1>5 DEF IsTheDocument

(* One chunk more, short of the last word.                                  *)
LEMMA ChunkAdded ==
  ASSUME NEW W, NEW words \in Seq(W),
         NEW size \in Nat, NEW overlap \in Nat, IsChunking(size, overlap),
         NEW chunks \in Seq(Seq(W)), NEW start \in Nat, start + size < Len(words),
         NEW from, CutSoFar(words, size, overlap, chunks, start, from),
         NEW all, all = Append(chunks, SubSeq(words, start + 1, start + size))
  PROVE  /\ all \in Seq(Seq(W)) /\ start + size - overlap \in Nat
         /\ \E g : CutSoFar(words, size, overlap, all, start + size - overlap, g)
<1>1. PICK l \in Nat : l = Len(words)
  BY SeqIs
<1>2. PICK k \in Nat : k = Len(chunks) /\ DOMAIN chunks = 1 .. k
  <2>1. PICK X : X = Seq(W)
    OBVIOUS
  <2>2. QED BY <2>1, SeqIs
<1>3. PICK n \in Nat : n = k + 1
  OBVIOUS
<1>4. /\ from \in [1 .. n -> Nat] /\ from[1] = 0 /\ from[n] = start
      /\ \A j \in 1 .. k :
           /\ from[j+1] = from[j] + (size - overlap)
           /\ from[j] + size < l
           /\ chunks[j] = SubSeq(words, from[j] + 1, from[j] + size)
  BY <1>1, <1>2, <1>3 DEF CutSoFar
<1>5. PICK next \in Nat : next = start + (size - overlap)
  BY DEF IsChunking
<1>6. PICK chunk : chunk = SubSeq(words, start + 1, start + size)
  OBVIOUS
<1>7. chunk \in Seq(W)
  <2>1. PICK b \in Nat : b = start + size /\ start <= b /\ b <= Len(words)
    BY <1>1
  <2>2. QED BY <1>6, <2>1, PartIs
<1>8. /\ all \in Seq(Seq(W)) /\ Len(all) = n /\ all[n] = chunk
      /\ \A j \in 1 .. k : all[j] = chunks[j]
  <2>1. PICK X : X = Seq(W)
    OBVIOUS
  <2>2. PICK c, w : c = chunks /\ w = chunk
    OBVIOUS
  <2>3. c \in Seq(X) /\ w \in X /\ Len(c) = k /\ all = Append(c, w)
    BY <1>6, <1>7, <1>2, <2>1, <2>2
  <2>4. /\ all \in Seq(X) /\ Len(all) = k + 1 /\ DOMAIN all = 1 .. k + 1
        /\ all[k + 1] = w
        /\ \A j \in 1 .. k : all[j] = c[j]
    <3>1. PICK a : a = Append(c, w)
      OBVIOUS
    <3>2. /\ a \in Seq(X) /\ Len(a) = k + 1 /\ DOMAIN a = 1 .. k + 1
          /\ a[k + 1] = w /\ \A j \in 1 .. k : a[j] = c[j]
      BY <2>3, <3>1, WithOneMore
    <3>3. QED BY <2>3, <3>1, <3>2
  <2>5. QED BY <1>3, <2>1, <2>2, <2>4
<1>9. PICK g : g = [j \in 1 .. n + 1 |-> IF j = n + 1 THEN next ELSE from[j]]
  OBVIOUS
<1>10. /\ g \in [1 .. n + 1 -> Nat] /\ g[n+1] = next
       /\ \A j \in 1 .. n : g[j] = from[j]
  <2>1. \A j \in 1 .. n + 1 : j = n + 1 \/ j \in 1 .. n
    OBVIOUS
  <2>2. \A j \in 1 .. n : j # n + 1 /\ j \in 1 .. n + 1
    OBVIOUS
  <2>3. n + 1 \in 1 .. n + 1
    OBVIOUS
  <2>4. QED BY <1>4, <1>9, <2>1, <2>2, <2>3
<1>11. g[1] = 0
  <2>1. 1 \in 1 .. n
    BY <1>3
  <2>2. QED BY <1>4, <1>10, <2>1
<1>12. ASSUME NEW j \in 1 .. n
       PROVE  /\ g[j+1] = g[j] + (size - overlap)
              /\ g[j] + size < l
              /\ all[j] = SubSeq(words, g[j] + 1, g[j] + size)
  <2>1. CASE j = n
    <3>1. g[j] = start /\ g[j+1] = next
      BY <1>4, <1>10, <2>1
    <3>2. QED BY <1>1, <1>5, <1>6, <1>8, <2>1, <3>1
  <2>2. CASE j # n
    <3>1. j \in 1 .. k /\ j + 1 \in 1 .. n
      BY <1>3, <2>2
    <3>2. g[j] = from[j] /\ g[j+1] = from[j+1] /\ all[j] = chunks[j]
      BY <1>8, <1>10, <3>1
    <3>3. QED BY <1>4, <3>1, <3>2
  <2>3. QED BY <2>1, <2>2
<1>13. CutSoFar(words, size, overlap, all, next, g)
  BY <1>1, <1>8, <1>10, <1>11, <1>12 DEF CutSoFar
<1>14. next = start + size - overlap
  BY <1>5 DEF IsChunking
<1>15. QED BY <1>8, <1>13, <1>14

LEMMA NothingCut ==
  ASSUME NEW words, NEW size, NEW overlap
  PROVE  \E from : CutSoFar(words, size, overlap, <<>>, 0, from)
<1>1. PICK from : from = [j \in 1 .. 1 |-> 0]
  OBVIOUS
<1>2. Len(<<>>) = 0
  BY EmptySeq
<1>3. CutSoFar(words, size, overlap, <<>>, 0, from)
  BY <1>1, <1>2 DEF CutSoFar
<1>4. QED BY <1>3

-----------------------------------------------------------------------------
(* A document being cut, and cut.                                           *)
ChunkHasItsFields(c) ==
  /\ c = [op |-> c.op, at |-> c.at, words |-> c.words, size |-> c.size,
          overlap |-> c.overlap, cutter |-> c.cutter]
  /\ c.cutter = [start |-> c.cutter.start, chunks |-> c.cutter.chunks,
                 outcome |-> c.cutter.outcome]

BeingCut(c) ==
  /\ c.cutter.start \in Nat /\ c.cutter.outcome = "cutting"
  /\ c.words = <<>> => c.cutter.chunks = <<>>
  /\ \E from : CutSoFar(c.words, c.size, c.overlap, c.cutter.chunks, c.cutter.start, from)

IsCut(c) ==
  /\ Len(c.cutter.chunks) <= Len(c.words)
  /\ IsTheDocument(c.cutter.chunks, c.words, c.size, c.overlap)

ChunkFits(c) ==
  /\ ChunkHasItsFields(c)
  /\ c.words \in Documents /\ c.words \in TypedWords
  /\ c.size \in Nat /\ c.overlap \in Nat /\ IsChunking(c.size, c.overlap)
  /\ c.cutter.chunks \in Seq(TypedWords)
  /\ \/ c.at = "cutting" /\ BeingCut(c)
     \/ c.at = "done" /\ IsCut(c)

LEMMA OpeningFits ==
  ASSUME NEW words \in Documents, NEW size \in ChunkSizes, NEW overlap \in Overlaps,
         IsChunking(size, overlap),
         NEW c, c = [op |-> "chunk", at |-> "cutting", words |-> words, size |-> size,
                     overlap |-> overlap, cutter |-> FreshChunker]
  PROVE  ChunkFits(c)
<1>1. words \in TypedWords /\ size \in Nat /\ overlap \in Nat
  BY AnswerPipelineAssumption
<1>2. /\ c.at = "cutting" /\ c.words = words /\ c.size = size /\ c.overlap = overlap
      /\ c.cutter.start = 0 /\ c.cutter.chunks = <<>> /\ c.cutter.outcome = "cutting"
  BY DEF FreshChunker
<1>3. ChunkHasItsFields(c)
  BY DEF ChunkHasItsFields, FreshChunker
<1>4. <<>> \in Seq(TypedWords)
  BY EmptySeq
<1>5. \E from : CutSoFar(words, size, overlap, <<>>, 0, from)
  BY NothingCut
<1>6. BeingCut(c)
  BY <1>2, <1>5 DEF BeingCut
<1>7. QED BY <1>1, <1>2, <1>3, <1>4, <1>6 DEF ChunkFits

LEMMA CutFits ==
  ASSUME NEW c, ChunkFits(c), c.at = "cutting",
         NEW d, d = CutChunk(c.cutter, c.words, c.size, c.overlap)
  PROVE  /\ d.outcome = "cut" => ChunkFits([c EXCEPT !.cutter = d, !.at = "done"])
         /\ d.outcome # "cut" => ChunkFits([c EXCEPT !.cutter = d])
<1>1. /\ ChunkHasItsFields(c) /\ BeingCut(c)
      /\ c.words \in Documents /\ c.words \in TypedWords
      /\ c.size \in Nat /\ c.overlap \in Nat /\ IsChunking(c.size, c.overlap)
      /\ c.cutter.chunks \in Seq(TypedWords)
  BY DEF ChunkFits
<1>2. PICK W : W = Seq(STRING)
  OBVIOUS
<1>3. PICK words, size, overlap, chunks, start :
        /\ words = c.words /\ size = c.size /\ overlap = c.overlap
        /\ chunks = c.cutter.chunks /\ start = c.cutter.start
  OBVIOUS
<1> size \in Nat /\ overlap \in Nat /\ start \in Nat
  BY <1>1, <1>3 DEF BeingCut
<1>4. words \in Seq(W) /\ chunks \in Seq(Seq(W))
  BY <1>1, <1>2, <1>3 DEF TypedWords
<1>5. PICK l \in Nat : l = Len(words)
  BY <1>4, SeqIs
<1>6. PICK from : CutSoFar(words, size, overlap, chunks, start, from)
  BY <1>1, <1>3 DEF BeingCut
<1>7. IsChunking(size, overlap) /\ c.cutter.outcome = "cutting"
  BY <1>1, <1>3 DEF BeingCut
<1>8. PICK done, more : /\ done = [c EXCEPT !.cutter = d, !.at = "done"]
                        /\ more = [c EXCEPT !.cutter = d]
  OBVIOUS
<1>9. /\ done.at = "done" /\ done.words = words /\ done.size = size
      /\ done.overlap = overlap /\ done.cutter = d
      /\ more.at = "cutting" /\ more.words = words /\ more.size = size
      /\ more.overlap = overlap /\ more.cutter = d
  BY <1>1, <1>3, <1>8 DEF ChunkHasItsFields
<1>10. d = [start |-> d.start, chunks |-> d.chunks, outcome |-> d.outcome]
       => ChunkHasItsFields(done) /\ ChunkHasItsFields(more)
  BY <1>1, <1>8 DEF ChunkHasItsFields
<1>11. c.cutter = [start |-> start, chunks |-> chunks, outcome |-> "cutting"]
  BY <1>1, <1>3, <1>7 DEF ChunkHasItsFields
<1>12. CASE words = <<>>
  <2>1. d = [start |-> start, chunks |-> chunks, outcome |-> "cut"]
    BY <1>3, <1>11, <1>12 DEF CutChunk
  <2>2. chunks = <<>>
    BY <1>1, <1>3, <1>12 DEF BeingCut
  <2>3. IsTheDocument(chunks, words, size, overlap)
    BY <1>12, <2>2, NothingToCut
  <2>4. Len(chunks) <= Len(words)
    BY <1>5, <1>12, <2>2
  <2>5. IsCut(done)
    BY <1>9, <2>1, <2>3, <2>4 DEF IsCut
  <2>6. ChunkFits(done)
    BY <1>1, <1>3, <1>9, <1>10, <2>1, <2>5 DEF ChunkFits
  <2>7. QED BY <1>8, <2>1, <2>6
<1>13. CASE words # <<>> /\ start + size >= l
  <2>1. ChunkEnd(c.cutter, c.words, c.size) = l
    BY <1>3, <1>5, <1>13 DEF ChunkEnd
  <2>2. PICK all : all = Append(chunks, SubSeq(words, start + 1, Len(words)))
    OBVIOUS
  <2>3. d = [start |-> start, chunks |-> all, outcome |-> "cut"]
    BY <1>3, <1>5, <1>11, <1>13, <2>1, <2>2 DEF CutChunk
  <2>4. /\ all \in Seq(Seq(W)) /\ Len(all) <= Len(words)
        /\ IsTheDocument(all, words, size, overlap)
    BY <1>4, <1>5, <1>6, <1>7, <1>13, <2>2, WholeCut
  <2>5. IsCut(done)
    BY <1>9, <2>3, <2>4 DEF IsCut
  <2>6. d.chunks \in Seq(TypedWords)
    BY <1>2, <2>3, <2>4 DEF TypedWords
  <2>7. ChunkFits(done)
    BY <1>1, <1>3, <1>9, <1>10, <2>3, <2>5, <2>6 DEF ChunkFits
  <2>8. QED BY <1>8, <2>3, <2>7
<1>14. CASE words # <<>> /\ start + size < l
  <2>1. /\ ChunkEnd(c.cutter, c.words, c.size) = start + size
        /\ start + size # l
    BY <1>3, <1>5, <1>14 DEF ChunkEnd
  <2>2. PICK all : all = Append(chunks, SubSeq(words, start + 1, start + size))
    OBVIOUS
  <2>3. PICK next : next = start + size - overlap
    OBVIOUS
  <2>4. d = [start |-> next, chunks |-> all, outcome |-> "cutting"]
    <3>1. PICK e : e = ChunkEnd(c.cutter, c.words, c.size)
      OBVIOUS
    <3>2. e = start + size /\ e # Len(words)
      BY <1>5, <2>1, <3>1
    <3>3. d = [c.cutter EXCEPT !.chunks = Append(@, SubSeq(words, c.cutter.start + 1, e)),
                               !.start = @ + size - overlap]
      BY <1>3, <1>14, <3>1, <3>2 DEF CutChunk
    <3>4. Append(chunks, SubSeq(words, start + 1, e)) = all
      BY <2>2, <3>2
    <3>5. PICK s : s = c.cutter
      OBVIOUS
    <3>6. s = [start |-> start, chunks |-> chunks, outcome |-> "cutting"]
      BY <1>11, <3>5
    <3>7. d = [s EXCEPT !.chunks = all, !.start = next]
      <4>1. s.start = start /\ s.chunks = chunks
        BY <3>6
      <4>2. QED BY <2>3, <3>3, <3>4, <3>5, <4>1
    <3>8. QED BY <3>6, <3>7
  <2>5. /\ all \in Seq(Seq(W)) /\ next \in Nat
        /\ \E g : CutSoFar(words, size, overlap, all, next, g)
    BY <1>4, <1>5, <1>6, <1>7, <1>14, <2>2, <2>3, ChunkAdded
  <2>6. BeingCut(more)
    BY <1>9, <1>14, <2>4, <2>5 DEF BeingCut
  <2>7. d.chunks \in Seq(TypedWords)
    BY <1>2, <2>4, <2>5 DEF TypedWords
  <2>8. ChunkFits(more)
    BY <1>1, <1>3, <1>9, <1>10, <2>4, <2>6, <2>7 DEF ChunkFits
  <2>9. QED BY <1>8, <2>4, <2>8
<1>15. QED BY <1>5, <1>12, <1>13, <1>14

(* A document cut is an index.                                              *)
LEMMA CutIsIndex ==
  ASSUME ChunkFits(call), call.at = "done", passages = call.cutter.chunks
  PROVE  PassagesFit
<1>1. /\ call.words \in Documents /\ call.words \in TypedWords /\ IsCut(call)
      /\ passages \in Seq(TypedWords)
  BY DEF ChunkFits
<1>2. Len(passages) \in Nat /\ DOMAIN passages = 1 .. Len(passages)
  BY <1>1, SeqIs
<1>3. PICK words : words = call.words
  OBVIOUS
<1>4. words \in Seq(Seq(STRING))
  BY <1>1, <1>3 DEF TypedWords
<1>5. Len(words) \in Nat /\ DOMAIN words = 1 .. Len(words)
  BY <1>4, SeqIs
<1>6. Len(passages) <= Len(words)
  BY <1>1, <1>3 DEF IsCut
<1>7. \A p \in DOMAIN words : Hash[p] \in Nat
  BY <1>1, <1>3, AnswerPipelineAssumption
<1>8. QED BY <1>1, <1>2, <1>5, <1>6, <1>7 DEF PassagesFit

(* A document that is cut is its chunks without what they share.            *)
LEMMA CutTellsTheDocument ==
  ASSUME ChunkFits(call)
  PROVE  ChunksAreTheDocument
BY DEF ChunkFits, IsCut, IsTheDocument, Own, ChunksAreTheDocument

(* The passages searched are the chunks of the document last cut.           *)
ChunkInv ==
  /\ "op" \in DOMAIN call
  /\ call.op = "chunk" =>
       /\ ChunkFits(call)
       /\ call.at = "done" => passages = call.cutter.chunks

(* Every step of the engine keeps what is cut so far a part of its text.    *)
LEMMA ChunkInvStep ==
  ASSUME ChunkInv, [Next]_vars
  PROVE  ChunkInv'
<1>1. CASE UNCHANGED vars
  BY <1>1 DEF ChunkInv, vars
<1>2. CASE OpenDocument
  <2>1. PICK words \in Documents, size \in ChunkSizes, overlap \in Overlaps :
          /\ IsChunking(size, overlap)
          /\ call' = [op |-> "chunk", at |-> "cutting", words |-> words, size |-> size,
                      overlap |-> overlap, cutter |-> FreshChunker]
    BY <1>2 DEF OpenDocument
  <2>2. ChunkFits(call') /\ call'.at = "cutting" /\ "op" \in DOMAIN call'
    BY <2>1, OpeningFits
  <2>3. QED BY <2>2 DEF ChunkInv
<1>3. CASE Cut
  <2>1. PICK d : d = CutChunk(call.cutter, call.words, call.size, call.overlap)
    OBVIOUS
  <2>2. /\ ChunkFits(call) /\ call.at = "cutting" /\ call.op = "chunk"
        /\ ChunkHasItsFields(call)
    BY <1>3 DEF Cut, ChunkInv, ChunkFits
  <2>3. CASE d.outcome = "cut"
    <3>1. call' = [call EXCEPT !.cutter = d, !.at = "done"] /\ passages' = d.chunks
      BY <1>3, <2>1, <2>3 DEF Cut
    <3>2. ChunkFits(call')
      BY <2>1, <2>2, <2>3, <3>1, CutFits
    <3>3. call'.cutter = d /\ "op" \in DOMAIN call'
      BY <2>2, <3>1 DEF ChunkHasItsFields
    <3>4. QED BY <3>1, <3>2, <3>3 DEF ChunkInv
  <2>4. CASE d.outcome # "cut"
    <3>1. call' = [call EXCEPT !.cutter = d]
      BY <1>3, <2>1, <2>4 DEF Cut
    <3>2. ChunkFits(call')
      BY <2>1, <2>2, <2>4, <3>1, CutFits
    <3>3. call'.at = "cutting" /\ "op" \in DOMAIN call'
      BY <2>2, <3>1 DEF ChunkHasItsFields
    <3>4. QED BY <3>2, <3>3 DEF ChunkInv
  <2>5. QED BY <2>3, <2>4
<1>4. CASE Return \/ OpenTable \/ OpenAnyFile \/ ReadCsv \/ Ask
  <2>1. CASE Return
    BY <2>1 DEF Return, Idle, ChunkInv
  <2>2. CASE OpenTable \/ OpenAnyFile
    BY <2>2 DEF OpenTable, OpenAnyFile, ChunkInv
  <2>3. CASE ReadCsv
    BY <2>3 DEF ReadCsv, ChunkInv
  <2>4. CASE Ask
    BY <2>4 DEF Ask, ChunkInv
  <2>5. QED BY <1>4, <2>1, <2>2, <2>3, <2>4
<1>5. CASE Expand \/ SearchTerm \/ Rank \/ Rerank \/ SkipReranker \/ Trim
  <2>1. CASE Expand
    BY <2>1 DEF Expand, ChunkInv
  <2>2. CASE SearchTerm
    BY <2>2 DEF SearchTerm, ChunkInv
  <2>3. CASE Rank
    BY <2>3 DEF Rank, ChunkInv
  <2>4. CASE Rerank \/ SkipReranker
    BY <2>4 DEF Rerank, SkipReranker, ChunkInv
  <2>5. CASE Trim
    BY <2>5 DEF Trim, ChunkInv
  <2>6. QED BY <1>5, <2>1, <2>2, <2>3, <2>4, <2>5
<1>6. CASE BuildPrompt \/ BuildDeeperPrompt \/ SendRefused \/ Send \/ SampleText
  <2>1. CASE BuildPrompt \/ BuildDeeperPrompt
    BY <2>1 DEF BuildPrompt, BuildDeeperPrompt, Prompted, ChunkInv
  <2>2. CASE SendRefused \/ Send
    BY <2>2 DEF SendRefused, Send, ChunkInv
  <2>3. CASE SampleText
    BY <2>3 DEF SampleText, ChunkInv
  <2>4. QED BY <1>6, <2>1, <2>2, <2>3
<1>7. CASE DecodeToken \/ EndReply \/ DecodeFails \/ TakenForRefusal
  <2>1. CASE DecodeToken
    BY <2>1 DEF DecodeToken, Show, ChunkInv
  <2>2. CASE EndReply \/ DecodeFails
    BY <2>2 DEF EndReply, DecodeFails, Show, ChunkInv
  <2>3. CASE TakenForRefusal
    BY <2>3 DEF TakenForRefusal, ChunkInv
  <2>4. QED BY <1>7, <2>1, <2>2, <2>3
<1>8. QED BY <1>1, <1>2, <1>3, <1>4, <1>5, <1>6, <1>7 DEF Next

(* For every document, chunk size and overlap: once a document is cut, its  *)
(* chunks, each without what it shares with the one before it, are its      *)
(* words in order; every chunk adds a word, and all but the last have the   *)
(* full size (ingest_chunk_words).                                          *)
THEOREM ChunksAlwaysAreTheDocument == Spec => []ChunksAreTheDocument
<1>1. Init => ChunkInv
  BY DEF Init, Idle, ChunkInv
<1>2. ChunkInv /\ [Next]_vars => ChunkInv'
  BY ChunkInvStep
<1>3. ChunkInv => ChunksAreTheDocument
  BY CutTellsTheDocument DEF ChunkInv, ChunksAreTheDocument
<1>4. QED BY <1>1, <1>2, <1>3, PTL DEF Spec

-----------------------------------------------------------------------------
(* A search, at each of its steps: the terms it is made with, the result    *)
(* list after the terms before the next, the ranking made of the whole list *)
(* and what is left of that ranking. The index a result list carries finds  *)
(* exactly what the list holds (ResultsFit); without that a passage could   *)
(* be listed twice, and no score would be the sum over the terms.           *)

SearchHasItsFields(c) ==
  c = [op |-> c.op, at |-> c.at, question |-> c.question, rewriting |-> c.rewriting,
       terms |-> c.terms, original |-> c.original, next |-> c.next, results |-> c.results,
       ranking |-> c.ranking, ranked |-> c.ranked, closest |-> c.closest,
       fused |-> c.fused, floored |-> c.floored]

(* The terms of a search are those its question and rewriting ask for.      *)
TermsFit ==
  /\ AreTermsFor(call.terms, call.original, JoinWords(call.question))
  /\ call.terms # <<>>

(* The list after the terms before the next.                                *)
ScoredSoFar ==
  /\ call.next \in 1 .. Len(call.terms) + 1
  /\ \/ call.next = 1 /\ call.results = EmptyResults
     \/ /\ ResultsFit(call.results, DOMAIN passages)
        /\ \A p \in DOMAIN passages : ScoredUpTo(call.results.items, p, call.next - 1)

(* The list after them all, and the ranking made of it.                     *)
AreRanked ==
  /\ TermsFit /\ AllScored
  /\ call.ranked = Ranked(call.results.items, Len(call.terms))

(* What is left of the ranking to be trimmed.                               *)
InNewOrder(items) ==
  /\ ScoredList(items, Len(call.ranked)) /\ InOrder(items, Len(call.ranked))
  /\ \A k \in 1 .. Len(call.ranked) : items[k].passage \in DOMAIN passages
  /\ AreStanding(items, Len(call.ranked))

IsTrimmed ==
  /\ call.fused => ~call.floored
  /\ \E before, k : /\ InNewOrder(before)
                    /\ TrimsTo(before, TokenCount, call.floored, k)
                    /\ call.ranking = SubSeq(before, 1, k)

SearchFits ==
  /\ SearchHasItsFields(call)
  /\ PassagesFit
  /\ call.question \in TypedWords
  /\ \/ /\ call.at = "expand" /\ call.rewriting \in TypedWords
        /\ call.next = 1 /\ call.results = EmptyResults /\ call.fused = FALSE
     \/ call.at = "search" /\ TermsFit /\ ScoredSoFar /\ call.fused = FALSE
     \/ /\ call.at = "rerank" /\ AreRanked
        /\ call.ranking = call.ranked /\ call.fused = FALSE
     \/ call.at = "trim" /\ AreRanked /\ InNewOrder(call.ranking) /\ call.fused \in BOOLEAN
     \/ call.at = "done" /\ (call.terms = <<>> \/ (AreRanked /\ IsTrimmed))

SearchInv == "op" \in DOMAIN call /\ (call.op = "search" => SearchFits)

-----------------------------------------------------------------------------
(* What does not change while a search goes on.                             *)
SameSearch ==
  /\ passages' = passages /\ call'.question = call.question
  /\ call'.terms = call.terms /\ call'.original = call.original

LEMMA PartsStay ==
  ASSUME SameSearch, NEW p, NEW i
  PROVE  TermPart(p, i)' = TermPart(p, i)
<1>1. \A t : Holders(t)' = Holders(t)
  BY DEF SameSearch, Holders, Frequency, Terms
<1>2. \A t : Frequency(p, t)' = Frequency(p, t)
  BY DEF SameSearch, Frequency, Terms
<1>3. call'.terms = call.terms /\ call'.original = call.original /\ passages' = passages
  BY DEF SameSearch
<1>4. Weight(i)' = Weight(i)
  BY <1>3 DEF Weight
<1>5. QED BY <1>1, <1>2, <1>3, <1>4 DEF TermPart

LEMMA ScoredStays ==
  ASSUME SameSearch, NEW items, NEW p, NEW k, ScoredUpTo(items, p, k)
  PROVE  ScoredUpTo(items, p, k)'
<1>1. call'.terms = call.terms
  BY DEF SameSearch
<1>2. TermParts(p)' = TermParts(p)
  BY <1>1, PartsStay DEF TermParts
<1>3. MatchedUpTo(p, k)' = MatchedUpTo(p, k)
  <2>1. {i \in 1 .. k : TermPart(p, i) > 0}' = {i \in 1 .. k : TermPart(p, i) > 0}
    BY PartsStay
  <2>2. QED BY <2>1 DEF MatchedUpTo
<1>4. QED BY <1>1, <1>2, <1>3 DEF ScoredUpTo

LEMMA TermsStay ==
  ASSUME SameSearch
  PROVE  /\ PassagesFit => PassagesFit'
         /\ TermsFit => TermsFit'
         /\ TokenCount' = TokenCount
<1>1. PassagesFit => PassagesFit'
  BY DEF SameSearch, PassagesFit
<1>2. TermsFit => TermsFit'
  BY DEF SameSearch, TermsFit
<1>3. TokenCount' = TokenCount
  BY DEF SameSearch, TokenCount, Terms
<1>4. QED BY <1>1, <1>2, <1>3

LEMMA RankingStays ==
  ASSUME SameSearch, call'.results = call.results, AllScored
  PROVE  AllScored'
<1>1. PICK items : items = call.results.items
  OBVIOUS
<1>2. PICK l : l = Len(call.terms)
  OBVIOUS
<1>3. /\ call'.results.items = items /\ Len(call'.terms) = l
      /\ passages' = passages /\ call'.terms = call.terms
  BY <1>1, <1>2 DEF SameSearch
<1>4. /\ PassagesFit /\ (\E X : call.terms \in Seq(X)) /\ Listed(items, DOMAIN passages)
      /\ \A p \in DOMAIN passages : ScoredUpTo(items, p, l)
  BY <1>1, <1>2 DEF AllScored
<1>5. \A p \in DOMAIN passages' : ScoredUpTo(items, p, l)'
  BY <1>3, <1>4, ScoredStays
<1>6. PassagesFit'
  BY <1>4, TermsStay
<1>7. QED BY <1>3, <1>4, <1>5, <1>6 DEF AllScored

LEMMA RankedFits ==
  ASSUME AllScored, call.ranked = Ranked(call.results.items, Len(call.terms))
  PROVE  /\ IsRanking(call.ranked, Len(call.ranked))
         /\ ~call.fused => InNewOrder(call.ranked)
<1>1. PICK m : IsRanking(call.ranked, m)
  BY RankedIsRanking
<1>2. m = Len(call.ranked)
  BY <1>1 DEF IsRanking
<1>3. ~call.fused => AreStanding(call.ranked, Len(call.ranked))
  BY DEF AreStanding, Standing, Fused
<1>4. QED BY <1>1, <1>2, <1>3 DEF IsRanking, InNewOrder

LEMMA TrimmedIsSelection ==
  ASSUME AreRanked, IsTrimmed
  PROVE  IsSelection
<1>1. IsRanking(call.ranked, Len(call.ranked))
  BY RankedFits DEF AreRanked
<1>2. PICK before, k : /\ InNewOrder(before)
                       /\ TrimsTo(before, TokenCount, call.floored, k)
                       /\ call.ranking = SubSeq(before, 1, k)
  BY DEF IsTrimmed
<1>3. call.fused => ~call.floored
  BY DEF IsTrimmed
<1>4. QED BY <1>1, <1>2, <1>3 DEF IsSelection, InNewOrder

-----------------------------------------------------------------------------
(* The steps.                                                               *)

LEMMA AskFits ==
  ASSUME ChunkInv, Ask
  PROVE  SearchInv'
<1>1. PICK question \in Questions, rewriting \in Rewritings, windowed \in {0, 1} :
        call' = [op |-> "search", at |-> "expand", question |-> question,
                 rewriting |-> Contextualize(question, windowed, rewriting),
                 terms |-> <<>>, original |-> 0, next |-> 1,
                 results |-> EmptyResults, ranking |-> <<>>, ranked |-> <<>>,
                 closest |-> <<>>, fused |-> FALSE, floored |-> FALSE]
  BY DEF Ask
<1>2. question \in TypedWords /\ rewriting \in TypedWords
  BY AnswerPipelineAssumption
<1>3. PICK asked : asked = Contextualize(question, windowed, rewriting)
  OBVIOUS
<1>4. asked \in TypedWords
  BY <1>2, <1>3 DEF Contextualize
<1>5. PassagesFit
  BY CutIsIndex DEF Ask, ChunkInv
<1>6. PassagesFit'
  BY <1>5 DEF Ask, PassagesFit
<1>7. /\ call'.at = "expand" /\ call'.question = question /\ call'.rewriting = asked
      /\ call'.next = 1 /\ call'.results = EmptyResults /\ call'.fused = FALSE
      /\ "op" \in DOMAIN call'
  BY <1>1, <1>3
<1>8. SearchHasItsFields(call')
  <2>1. PICK results : results = EmptyResults
    OBVIOUS
  <2>2. call' = [op |-> "search", at |-> "expand", question |-> question,
                 rewriting |-> asked, terms |-> <<>>, original |-> 0, next |-> 1,
                 results |-> results, ranking |-> <<>>, ranked |-> <<>>,
                 closest |-> <<>>, fused |-> FALSE, floored |-> FALSE]
    BY <1>1, <1>3, <2>1
  <2>3. QED BY <2>2 DEF SearchHasItsFields
<1>9. QED BY <1>2, <1>4, <1>6, <1>7, <1>8 DEF SearchInv, SearchFits

LEMMA ExpandFits ==
  ASSUME SearchInv, Expand
  PROVE  SearchInv'
<1>1. PICK reply \in Replies :
        LET f == Formulate(JoinWords(call.question), JoinWords(call.rewriting), reply)
        IN  call' = [call EXCEPT !.terms = f.terms, !.original = f.original,
                                 !.at = IF f.terms = <<>> THEN "done" ELSE "search"]
  BY DEF Expand
<1>2. /\ SearchHasItsFields(call) /\ PassagesFit /\ passages' = passages
      /\ call.question \in TypedWords /\ call.rewriting \in TypedWords
      /\ call.next = 1 /\ call.results = EmptyResults /\ call.fused = FALSE
  BY DEF Expand, SearchInv, SearchFits
<1>3. PICK question, rewriting :
        question = JoinWords(call.question) /\ rewriting = JoinWords(call.rewriting)
  OBVIOUS
<1>4. question \in Seq(Chars) /\ rewriting \in Seq(Chars)
  BY <1>2, <1>3, TypedWordsAreTexts
<1>5. PICK f : f = Formulate(question, rewriting, reply)
  OBVIOUS
<1>6. AreTermsFor(f.terms, f.original, question)
  <2>1. reply.kind = "array" => \E W : reply.words \in Seq(W)
    BY AnswerPipelineAssumption DEF TypedWords
  <2>2. QED BY <1>4, <1>5, <2>1, FormulateIs
<1>7. PICK terms, original : terms = f.terms /\ original = f.original
  OBVIOUS
<1>8. PICK at : at = IF terms = <<>> THEN "done" ELSE "search"
  OBVIOUS
<1>9. call' = [call EXCEPT !.terms = terms, !.original = original, !.at = at]
  BY <1>1, <1>3, <1>5, <1>7, <1>8
<1>10. /\ SearchHasItsFields(call') /\ "op" \in DOMAIN call'
       /\ call'.at = at /\ call'.terms = terms /\ call'.original = original
       /\ call'.question = call.question /\ call'.next = 1
       /\ call'.results = EmptyResults /\ call'.fused = FALSE
  BY <1>2, <1>9 DEF SearchHasItsFields
<1>11. PassagesFit'
  BY <1>2 DEF PassagesFit
<1>12. CASE terms = <<>>
  BY <1>2, <1>8, <1>10, <1>11, <1>12 DEF SearchInv, SearchFits
<1>13. CASE terms # <<>>
  <2>1. TermsFit'
    BY <1>3, <1>6, <1>7, <1>10, <1>13 DEF TermsFit
  <2>2. Len(terms) \in Nat
    BY <1>6, <1>7, SeqIs DEF AreTermsFor
  <2>3. ScoredSoFar'
    <3>1. 1 \in 1 .. Len(terms) + 1
      BY <2>2
    <3>2. QED BY <1>10, <3>1 DEF ScoredSoFar
  <2>4. QED BY <1>2, <1>8, <1>10, <1>11, <1>13, <2>1, <2>3 DEF SearchInv, SearchFits
<1>14. QED BY <1>12, <1>13

(* The list before the next term.                                           *)
LEMMA ScoredBefore ==
  ASSUME PassagesFit, TermsFit, ScoredSoFar
  PROVE  /\ ResultsFit(call.results, DOMAIN passages)
         /\ \A p \in DOMAIN passages : ScoredUpTo(call.results.items, p, call.next - 1)
<1>1. CASE call.next = 1 /\ call.results = EmptyResults
  <2>1. PICK r : r = call.results
    OBVIOUS
  <2>2. r = [items |-> <<>>, index |-> FreshIndex(FirstCapacity)]
    BY <1>1, <2>1 DEF EmptyResults
  <2>3. ResultsFit(r, DOMAIN passages)
    <3>1. DOMAIN <<>> = {} /\ <<>> \in Seq(Item)
      BY EmptySeq
    <3>2. Listed(<<>>, DOMAIN passages) /\ Entries(<<>>) = {}
      BY <3>1 DEF Listed, Entries
    <3>3. FirstCapacity \in Nat \ {0}
      BY RankingAssumption
    <3>4. IndexHolds(FreshIndex(FirstCapacity), FirstCapacity, {})
      BY <3>3, FreshHolds
    <3>5. HasRoom(FirstCapacity, {})
      BY <3>3, FS_EmptySet DEF HasRoom
    <3>6. QED BY <2>2, <3>2, <3>4, <3>5 DEF ResultsFit
  <2>4. \A p \in DOMAIN passages : ScoredUpTo(<<>>, p, 0)
    <3>1. \E X : call.terms \in Seq(X)
      BY DEF TermsFit, AreTermsFor
    <3>2. QED BY <3>1, NothingScored
  <2>5. call.next - 1 = 0 /\ call.results.items = <<>>
    BY <1>1, <2>1, <2>2
  <2>6. QED BY <2>1, <2>3, <2>4, <2>5
<1>2. QED BY <1>1 DEF ScoredSoFar

LEMMA SearchTermFits ==
  ASSUME SearchInv, SearchTerm
  PROVE  SearchInv'
<1>1. /\ SearchHasItsFields(call) /\ PassagesFit /\ passages' = passages
      /\ call.question \in TypedWords /\ TermsFit /\ ScoredSoFar /\ call.fused = FALSE
      /\ call.at = "search" /\ call.next <= Len(call.terms)
  BY DEF SearchTerm, SearchInv, SearchFits
<1>2. PICK X : call.terms \in Seq(X)
  BY <1>1 DEF TermsFit, AreTermsFor
<1>3. PICK l \in Nat : l = Len(call.terms)
  BY <1>2, SeqIs
<1>4. PICK k \in 1 .. l : k = call.next
  BY <1>1, <1>3 DEF ScoredSoFar
<1>5. PICK r : r = call.results
  OBVIOUS
<1>6. /\ ResultsFit(r, DOMAIN passages)
      /\ \A p \in DOMAIN passages : ScoredUpTo(r.items, p, k - 1)
  BY <1>1, <1>4, <1>5, ScoredBefore
<1>7. PICK now : now = Accumulate(r, Postings(call.terms[k]), Weight(k), Len(passages))
  OBVIOUS
<1>8. call' = [call EXCEPT !.results = now, !.next = @ + 1]
  BY <1>4, <1>5, <1>7 DEF SearchTerm, Weight
<1>9. /\ SearchHasItsFields(call') /\ "op" \in DOMAIN call' /\ call'.at = "search"
      /\ call'.fused = FALSE /\ call'.results = now /\ call'.next = k + 1
      /\ SameSearch
  BY <1>1, <1>4, <1>8 DEF SearchHasItsFields, SameSearch
<1>10. ASSUME NEW p \in DOMAIN passages
       PROVE  ResultsFit(now, DOMAIN passages) /\ ScoredUpTo(now.items, p, k)
  BY <1>1, <1>2, <1>3, <1>6, <1>7, TermScored
<1>11. ResultsFit(now, DOMAIN passages)
  <2>1. CASE DOMAIN passages = {}
    <3>1. PICK rows : rows = Postings(call.terms[k])
      OBVIOUS
    <3>2. PICK n : AreRows(rows, n, DOMAIN passages)
      BY <1>1, <3>1, PostingsAre
    <3>3. PICK weight \in Nat, total \in Nat : weight = Weight(k) /\ total = Len(passages)
      <4>1. k \in Nat
        BY <1>3
      <4>2. Weight(k) \in Nat
        BY <4>1, WeightIs
      <4>3. Len(passages) \in Nat
        BY <1>1, PassagesNumber
      <4>4. QED BY <4>2, <4>3
    <3>4. \A j \in 1 .. n : FALSE
      BY <2>1, <3>2 DEF AreRows
    <3>5. ScoresAreNumbers(rows, weight, total, n)
      BY <3>4 DEF ScoresAreNumbers
    <3>6. PICK P : P = DOMAIN passages /\ Hashed(P)
      BY <1>1, PassagesNumber
    <3>7. \E p : RowsRun(r, rows, weight, total, n, P, p)
      BY <1>6, <3>2, <3>5, <3>6, AccumulateIs
    <3>8. n \in 0 .. n
      BY <3>2 DEF AreRows
    <3>9. QED BY <1>7, <3>1, <3>3, <3>6, <3>7, <3>8 DEF RowsRun
  <2>2. CASE DOMAIN passages # {}
    BY <1>10, <2>2
  <2>3. QED BY <2>1, <2>2
<1>12. PICK items : items = now.items
  OBVIOUS
<1>13. \A p \in DOMAIN passages' : ScoredUpTo(items, p, k)'
  <2>1. \A p \in DOMAIN passages : ScoredUpTo(items, p, k)
    BY <1>10, <1>12
  <2>2. QED BY <1>1, <1>9, <2>1, ScoredStays
<1>14. ScoredSoFar'
  <2>1. call'.terms = call.terms /\ k + 1 \in 1 .. l + 1 /\ (k + 1) - 1 = k
    BY <1>9 DEF SameSearch
  <2>2. \A p \in DOMAIN passages' : ScoredUpTo(call.results.items, p, call.next - 1)'
    <3>1. ASSUME NEW p \in DOMAIN passages'
          PROVE  ScoredUpTo(call.results.items, p, call.next - 1)'
      <4>1. call'.results.items = items /\ call'.next - 1 = k
        BY <1>9, <1>12, <2>1
      <4>2. ScoredUpTo(items, p, k)'
        BY <1>13
      <4>3. QED BY <4>1, <4>2 DEF ScoredUpTo
    <3>2. QED BY <3>1
  <2>3. QED BY <1>1, <1>3, <1>9, <1>11, <2>1, <2>2 DEF ScoredSoFar
<1>15. /\ PassagesFit' /\ TermsFit' /\ call'.question = call.question
  BY <1>1, <1>9, TermsStay DEF SameSearch
<1>16. QED BY <1>1, <1>9, <1>14, <1>15 DEF SearchInv, SearchFits

LEMMA RankFits ==
  ASSUME SearchInv, Rank
  PROVE  SearchInv'
<1>1. /\ SearchHasItsFields(call) /\ PassagesFit /\ passages' = passages
      /\ call.question \in TypedWords /\ TermsFit /\ ScoredSoFar /\ call.fused = FALSE
      /\ call.at = "search" /\ call.next > Len(call.terms)
  BY DEF Rank, SearchInv, SearchFits
<1>2. PICK X : call.terms \in Seq(X)
  BY <1>1 DEF TermsFit, AreTermsFor
<1>3. PICK l \in Nat : l = Len(call.terms)
  BY <1>2, SeqIs
<1>4. call.next - 1 = l
  BY <1>1, <1>3 DEF ScoredSoFar
<1>5. /\ ResultsFit(call.results, DOMAIN passages)
      /\ \A p \in DOMAIN passages : ScoredUpTo(call.results.items, p, l)
  BY <1>1, <1>4, ScoredBefore
<1>6. AllScored
  BY <1>1, <1>2, <1>3, <1>5 DEF AllScored, ResultsFit
<1>7. PICK ranked : ranked = Ranked(call.results.items, Len(call.terms))
  OBVIOUS
<1>8. call' = [call EXCEPT !.ranked = ranked, !.ranking = ranked, !.at = "rerank"]
  BY <1>7 DEF Rank
<1>9. /\ SearchHasItsFields(call') /\ "op" \in DOMAIN call' /\ call'.at = "rerank"
      /\ call'.fused = FALSE /\ call'.results = call.results
      /\ call'.ranked = ranked /\ call'.ranking = ranked
      /\ SameSearch
  BY <1>1, <1>8 DEF SearchHasItsFields, SameSearch
<1>10. AllScored' /\ TermsFit' /\ PassagesFit'
  BY <1>1, <1>6, <1>9, RankingStays, TermsStay
<1>11. AreRanked'
  BY <1>7, <1>9, <1>10 DEF AreRanked, SameSearch
<1>12. QED BY <1>1, <1>9, <1>10, <1>11 DEF SearchInv, SearchFits, SameSearch

(* What stays of a ranking once it is made.                                 *)
LEMMA RankedStays ==
  ASSUME SameSearch, call'.results = call.results, call'.ranked = call.ranked, AreRanked
  PROVE  AreRanked'
<1>1. AllScored' /\ TermsFit'
  BY RankingStays, TermsStay DEF AreRanked
<1>2. QED BY <1>1 DEF AreRanked, SameSearch

LEMMA RerankFits ==
  ASSUME SearchInv, Rerank
  PROVE  SearchInv'
<1>1. /\ SearchHasItsFields(call) /\ PassagesFit /\ passages' = passages
      /\ call.question \in TypedWords /\ AreRanked /\ call.at = "rerank" /\ ~call.fused
  BY DEF Rerank, SearchInv, SearchFits
<1>2. PICK closest \in SetToSeqs(DOMAIN call.ranked) :
        call' = [call EXCEPT !.ranking = Rescored(call.ranked, closest),
                             !.closest = closest, !.fused = TRUE, !.at = "trim"]
  BY DEF Rerank
<1>3. PICK all : all = call.ranked
  OBVIOUS
<1>4. PICK n : n = Len(all)
  OBVIOUS
<1>5. InNewOrder(all)
  BY <1>1, <1>3, RankedFits DEF AreRanked
<1>6. /\ ScoredList(all, n) /\ InOrder(all, n)
      /\ \A k \in 1 .. n : all[k].passage \in DOMAIN passages
  BY <1>3, <1>4, <1>5 DEF InNewOrder
<1>7. DOMAIN all = 1 .. n
  BY <1>6 DEF ScoredList
<1>8. PICK new : new = Rescored(all, closest)
  OBVIOUS
<1>9. /\ ScoredList(new, n)
      /\ \A j, k \in 1 .. n : j < k => Ahead(new[j], new[k])
      /\ \A k \in 1 .. n : \E i \in 1 .. n : new[k].passage = all[i].passage
      /\ \A k \in 1 .. n : \E i \in 1 .. n : new[k] = Placed(all, closest, i)
      /\ \A i \in 1 .. n : \E k \in 1 .. n : new[k] = Placed(all, closest, i)
  <2>1. closest \in SetToSeqs(1 .. n)
    BY <1>2, <1>3, <1>7
  <2>2. Len(all) = n /\ \A j, k \in 1 .. n : j < k => Ahead(all[j], all[k])
    BY <1>4, <1>6 DEF InOrder
  <2>3. IsRescored(new, all, closest, n)
    BY <1>6, <1>8, <2>1, <2>2, RescoredIs
  <2>4. QED BY <2>3 DEF IsRescored
<1>10. call' = [call EXCEPT !.ranking = new, !.closest = closest, !.fused = TRUE, !.at = "trim"]
  BY <1>2, <1>3, <1>8
<1>11. /\ SearchHasItsFields(call') /\ "op" \in DOMAIN call' /\ call'.at = "trim"
       /\ call'.fused = TRUE /\ call'.results = call.results /\ call'.closest = closest
       /\ call'.ranked = all /\ call'.ranking = new
       /\ SameSearch
  BY <1>1, <1>3, <1>10 DEF SearchHasItsFields, SameSearch
<1>12. AreRanked' /\ PassagesFit'
  BY <1>1, <1>3, <1>11, RankedStays, TermsStay
<1>13. InNewOrder(call.ranking)'
  <2>1. \A k \in 1 .. n : new[k].passage \in DOMAIN passages'
    BY <1>1, <1>6, <1>9
  <2>2. \A i : Standing(i)' = Placed(all, closest, i)
    <3>1. n \in Nat
      BY <1>6 DEF ScoredList
    <3>2. QED BY <1>4, <1>11, <3>1 DEF Standing, Fused, Placed
  <2>3. AreStanding(new, n)'
    BY <1>9, <2>2 DEF AreStanding
  <2>4. QED BY <1>4, <1>9, <1>11, <2>1, <2>3 DEF InNewOrder, InOrder
<1>14. QED BY <1>1, <1>11, <1>12, <1>13 DEF SearchInv, SearchFits, SameSearch

LEMMA SkipFits ==
  ASSUME SearchInv, SkipReranker
  PROVE  SearchInv'
<1>1. /\ SearchHasItsFields(call) /\ PassagesFit /\ passages' = passages
      /\ call.question \in TypedWords /\ AreRanked /\ call.at = "rerank"
      /\ call.ranking = call.ranked /\ call.fused = FALSE
  BY DEF SkipReranker, SearchInv, SearchFits
<1>2. call' = [call EXCEPT !.at = "trim"]
  BY DEF SkipReranker
<1>3. PICK all : all = call.ranked
  OBVIOUS
<1>4. /\ SearchHasItsFields(call') /\ "op" \in DOMAIN call' /\ call'.at = "trim"
      /\ call'.fused = FALSE /\ call'.results = call.results
      /\ call'.ranked = all /\ call'.ranking = all
      /\ SameSearch
  BY <1>1, <1>2, <1>3 DEF SearchHasItsFields, SameSearch
<1>5. \A i : Standing(i)' = Standing(i)
  BY <1>1, <1>2, <1>3, <1>4 DEF Standing, Fused
<1>6. InNewOrder(all)
  BY <1>1, <1>3, RankedFits DEF AreRanked
<1>7. AreRanked' /\ PassagesFit'
  BY <1>1, <1>3, <1>4, RankedStays, TermsStay
<1>8. InNewOrder(call.ranking)'
  <2>1. AreStanding(all, Len(all))'
    BY <1>3, <1>5, <1>6 DEF InNewOrder, AreStanding
  <2>2. QED BY <1>3, <1>4, <1>6, <2>1 DEF InNewOrder, InOrder, SameSearch
<1>9. QED BY <1>1, <1>4, <1>7, <1>8 DEF SearchInv, SearchFits, SameSearch

LEMMA TrimFits ==
  ASSUME SearchInv, Trim
  PROVE  SearchInv'
<1>1. /\ SearchHasItsFields(call) /\ PassagesFit /\ passages' = passages
      /\ call.question \in TypedWords /\ AreRanked /\ call.at = "trim"
      /\ InNewOrder(call.ranking) /\ call.fused \in BOOLEAN
  BY DEF Trim, SearchInv, SearchFits
<1>2. PICK floored \in (IF call.fused THEN {FALSE} ELSE BOOLEAN) :
        call' = [call EXCEPT !.ranking = Trimmed(@, TokenCount, floored),
                             !.floored = floored, !.at = "done"]
  BY DEF Trim
<1>3. PICK before : before = call.ranking
  OBVIOUS
<1>4. PICK n : n = Len(call.ranked)
  OBVIOUS
<1>5. /\ ScoredList(before, n) /\ \A k \in 1 .. n : before[k].passage \in DOMAIN passages
  BY <1>1, <1>3, <1>4 DEF InNewOrder
<1>6. before \in Seq(Item) /\ Len(before) = n /\ \A i \in 1 .. n : before[i] \in Item
  <2>1. before \in [1 .. n -> Item] /\ n \in Nat
    BY <1>5 DEF ScoredList
  <2>2. before \in Seq(Item)
    BY <2>1, SeqDef
  <2>3. QED BY <2>1, <2>2, LenProperties
<1>7. PICK tokens : tokens = TokenCount
  OBVIOUS
<1>8. \A i \in 1 .. Len(before) : tokens[before[i].passage] \in Nat
  <2>1. \A p \in DOMAIN passages : TokenCount[p] \in Nat
    BY <1>1, TermsAre DEF TokenCount
  <2>2. QED BY <1>5, <1>6, <1>7, <2>1
<1>9. \A i \in 1 .. Len(before) : before[i].score \in Nat
  BY <1>6 DEF Item
<1>10. PICK k : TrimsTo(before, tokens, floored, k)
  BY <1>6, <1>8, <1>9, TrimmedIs
<1>11. Trimmed(before, tokens, floored) = SubSeq(before, 1, k)
  BY <1>10 DEF TrimsTo
<1>12. PICK kept : kept = SubSeq(before, 1, k)
  OBVIOUS
<1>13. call' = [call EXCEPT !.ranking = kept, !.floored = floored, !.at = "done"]
  BY <1>2, <1>3, <1>7, <1>11, <1>12
<1>14. /\ SearchHasItsFields(call') /\ "op" \in DOMAIN call' /\ call'.at = "done"
       /\ call'.fused = call.fused /\ call'.results = call.results /\ call'.floored = floored
       /\ call'.ranked = call.ranked /\ call'.ranking = kept /\ call'.closest = call.closest
       /\ SameSearch
  BY <1>1, <1>13 DEF SearchHasItsFields, SameSearch
<1>15. AreRanked' /\ PassagesFit' /\ TokenCount' = tokens
  BY <1>1, <1>7, <1>14, RankedStays, TermsStay
<1>16. InNewOrder(before)'
  <2>1. \A i : Standing(i)' = Standing(i)
    BY <1>14 DEF Standing, Fused
  <2>2. AreStanding(before, n)'
    BY <1>1, <1>3, <1>4, <2>1 DEF InNewOrder, AreStanding
  <2>3. QED BY <1>1, <1>3, <1>4, <1>14, <2>2 DEF InNewOrder, InOrder
<1>17. IsTrimmed'
  BY <1>2, <1>10, <1>12, <1>14, <1>15, <1>16 DEF IsTrimmed
<1>18. QED BY <1>1, <1>14, <1>15, <1>17 DEF SearchInv, SearchFits, SameSearch

(* Every other call of the engine.                                          *)
LEMMA NotASearch ==
  ASSUME "op" \in DOMAIN call,
         \/ Return \/ OpenTable \/ OpenAnyFile \/ ReadCsv \/ OpenDocument \/ Cut
         \/ BuildPrompt \/ BuildDeeperPrompt \/ SendRefused \/ Send \/ SampleText
         \/ DecodeToken \/ EndReply \/ DecodeFails \/ TakenForRefusal
  PROVE  "op" \in DOMAIN call' /\ call'.op # "search"
<1>1. CASE Return
  BY <1>1 DEF Return, Idle
<1>2. CASE OpenTable \/ OpenAnyFile
  BY <1>2 DEF OpenTable, OpenAnyFile
<1>3. CASE ReadCsv
  BY <1>3 DEF ReadCsv
<1>4. CASE OpenDocument
  BY <1>4 DEF OpenDocument
<1>5. CASE Cut
  BY <1>5 DEF Cut
<1>6. CASE BuildPrompt \/ BuildDeeperPrompt \/ TakenForRefusal
  BY <1>6 DEF BuildPrompt, BuildDeeperPrompt, TakenForRefusal, Prompted
<1>7. CASE SendRefused \/ Send
  BY <1>7 DEF SendRefused, Send
<1>8. CASE SampleText
  BY <1>8 DEF SampleText
<1>9. CASE DecodeToken
  BY <1>9 DEF DecodeToken, Show
<1>10. CASE EndReply \/ DecodeFails
  BY <1>10 DEF EndReply, DecodeFails, Show
<1>11. QED BY <1>1, <1>2, <1>3, <1>4, <1>5, <1>6, <1>7, <1>8, <1>9, <1>10

LEMMA SearchInvStep ==
  ASSUME ChunkInv, SearchInv, [Next]_vars
  PROVE  SearchInv'
<1>1. CASE UNCHANGED vars
  <2>1. "op" \in DOMAIN call' /\ passages' = passages /\ call' = call
    BY <1>1 DEF vars, SearchInv
  <2>2. ASSUME call.op = "search" PROVE SearchFits'
    <3>1. SearchFits
      BY <2>2 DEF SearchInv
    <3>2. SameSearch
      BY <2>1 DEF SameSearch
    <3>3. /\ PassagesFit /\ PassagesFit' /\ TokenCount' = TokenCount
          /\ TermsFit => TermsFit'
      BY <3>1, <3>2, TermsStay DEF SearchFits
    <3>4. AreRanked => AreRanked'
      BY <2>1, <3>2, RankedStays
    <3>5. ScoredSoFar => ScoredSoFar'
      <4>1. PICK items, k : items = call.results.items /\ k = call.next - 1
        OBVIOUS
      <4>2. (\A p \in DOMAIN passages : ScoredUpTo(items, p, k)) =>
              \A p \in DOMAIN passages' : ScoredUpTo(items, p, k)'
        BY <2>1, <3>2, ScoredStays
      <4>3. ASSUME NEW p \in DOMAIN passages, ScoredUpTo(items, p, k)'
            PROVE  ScoredUpTo(call.results.items, p, call.next - 1)'
        BY <2>1, <4>1, <4>3 DEF ScoredUpTo
      <4>4. QED BY <2>1, <4>1, <4>2, <4>3 DEF ScoredSoFar
    <3>6. \A i : Standing(i)' = Standing(i)
      BY <2>1 DEF Standing, Fused
    <3>7. \A items : InNewOrder(items) => InNewOrder(items)'
      BY <2>1, <3>6 DEF InNewOrder, AreStanding
    <3>8. InNewOrder(call.ranking) => InNewOrder(call.ranking)'
      BY <2>1, <3>6 DEF InNewOrder, AreStanding
    <3>9. IsTrimmed => IsTrimmed'
      BY <2>1, <3>3, <3>7 DEF IsTrimmed
    <3>10. QED BY <2>1, <3>1, <3>3, <3>4, <3>5, <3>8, <3>9 DEF SearchFits
  <2>3. QED BY <2>1, <2>2 DEF SearchInv
<1>2. CASE \/ Return \/ OpenTable \/ OpenAnyFile \/ ReadCsv \/ OpenDocument \/ Cut
           \/ BuildPrompt \/ BuildDeeperPrompt \/ SendRefused \/ Send \/ SampleText
           \/ DecodeToken \/ EndReply \/ DecodeFails \/ TakenForRefusal
  BY <1>2, NotASearch DEF SearchInv
<1>3. CASE Ask
  BY <1>3, AskFits
<1>4. CASE Expand
  BY <1>4, ExpandFits
<1>5. CASE SearchTerm
  BY <1>5, SearchTermFits
<1>6. CASE Rank
  BY <1>6, RankFits
<1>7. CASE Rerank
  BY <1>7, RerankFits
<1>8. CASE SkipReranker
  BY <1>8, SkipFits
<1>9. CASE Trim
  BY <1>9, TrimFits
<1>10. QED BY <1>1, <1>2, <1>3, <1>4, <1>5, <1>6, <1>7, <1>8, <1>9 DEF Next

(* A search that is ranked was one for the question.                        *)
LEMMA SearchTellsTheQuestion ==
  ASSUME SearchInv
  PROVE  SearchKeepsTheQuestion
<1>1. SUFFICES ASSUME call.op = "search", call.at = "rerank"
               PROVE  /\ \A p \in DOMAIN passages :
                           (\E i \in DOMAIN call.question, j \in DOMAIN passages[p] :
                              /\ InOnePiece(call.question[i]) /\ InOnePiece(passages[p][j])
                              /\ Spelling(call.question[i]) = Spelling(passages[p][j])
                              /\ Spelling(call.question[i]) \notin Stopwords) => Found(p)
                      /\ \A i, j \in DOMAIN call.terms : call.terms[i] = call.terms[j] => i = j
                      /\ \A i \in call.original + 1 .. Len(call.terms) :
                           \E j \in 1 .. call.original : IsRelated(call.terms[i], call.terms[j])
  BY DEF SearchKeepsTheQuestion
<1>2. call.question \in TypedWords /\ TermsFit /\ AllScored
  BY <1>1 DEF SearchInv, SearchFits, AreRanked
<1>3. PICK text : text = JoinWords(call.question)
  OBVIOUS
<1>4. /\ Once(call.terms)
      /\ ToSet(BaseForms(text)) \subseteq ToSet(call.terms)
      /\ \A i \in call.original + 1 .. Len(call.terms) :
           \E j \in 1 .. call.original :
             \E c \in Candidates(call.terms[j]) : Lower(c) = call.terms[i]
  BY <1>2, <1>3 DEF TermsFit, AreTermsFor
<1>5. ASSUME NEW p \in DOMAIN passages,
             NEW i \in DOMAIN call.question, NEW j \in DOMAIN passages[p],
             InOnePiece(call.question[i]), InOnePiece(passages[p][j]),
             Spelling(call.question[i]) = Spelling(passages[p][j]),
             Spelling(call.question[i]) \notin Stopwords
      PROVE  Found(p)
  BY <1>2, <1>3, <1>4, <1>5, SharedWordIsFound
<1>6. ASSUME NEW i \in call.original + 1 .. Len(call.terms)
      PROVE  \E j \in 1 .. call.original : IsRelated(call.terms[i], call.terms[j])
  <2>1. PICK j \in 1 .. call.original :
          \E c \in Candidates(call.terms[j]) : Lower(c) = call.terms[i]
    BY <1>4
  <2>2. QED BY <2>1, OfferedIsRelated
<1>7. \A i, j \in DOMAIN call.terms : call.terms[i] = call.terms[j] => i = j
  BY <1>4 DEF Once
<1>8. QED BY <1>5, <1>6, <1>7

(* A search that is done kept the best of what it ranked.                   *)
LEMMA SearchTellsTheBest ==
  ASSUME SearchInv
  PROVE  BestPassagesSurvive
<1>1. SUFFICES ASSUME call.op = "search", call.at = "done", call.terms # <<>>
               PROVE  BestPassagesSurvive
  BY DEF BestPassagesSurvive
<1>2. PassagesFit /\ AreRanked /\ IsTrimmed
  BY <1>1 DEF SearchInv, SearchFits
<1>3. QED BY <1>2, TrimmedIsSelection, SelectionIsBest

(* What a search relies on, and cutting provides: the passages are texts.   *)
AnalysisInv == ChunkInv /\ SearchInv

(* The inductive invariant of cutting and searching.                        *)
LEMMA AnalysisHolds == Spec => []AnalysisInv
<1>1. Init => AnalysisInv
  BY DEF Init, Idle, AnalysisInv, ChunkInv, SearchInv
<1>2. AnalysisInv /\ [Next]_vars => AnalysisInv'
  BY ChunkInvStep, SearchInvStep DEF AnalysisInv
<1>3. QED BY <1>1, <1>2, PTL DEF Spec

(* For every lexicon, document, question and reply of the model: a passage  *)
(* with a word of the question, stopwords aside, is found; every term is    *)
(* searched once; a term the model added is related to one that was asked   *)
(* for (query_formulation.c, tokenizer.c, bm25_search_weighted).            *)
THEOREM SearchAlwaysKeepsTheQuestion == Spec => []SearchKeepsTheQuestion
<1>1. AnalysisInv => SearchKeepsTheQuestion
  BY SearchTellsTheQuestion DEF AnalysisInv
<1>2. QED BY <1>1, AnalysisHolds, PTL

(* For every document, question and set of limits: the passages given to    *)
(* the model are the best there are, scored by exactly the terms they hold, *)
(* in order, each once and as many as the limits allow; behind the reranker *)
(* the best by the order it fuses, whatever order of similarity it found    *)
(* (bm25_search_weighted, bm25_result_set_trim, reranker_rescore).          *)
THEOREM BestPassagesAlwaysSurvive == Spec => []BestPassagesSurvive
<1>1. AnalysisInv => BestPassagesSurvive
  BY SearchTellsTheBest DEF AnalysisInv
<1>2. QED BY <1>1, AnalysisHolds, PTL

-----------------------------------------------------------------------------
(* Files, while they are read and when they have been.                      *)

(* A table that can be written is one the reader can be followed through.   *)
LEMMA WritableIs ==
  ASSUME NEW f, IsWritable(f)
  PROVE  FileIs(f)
<1>1. Seq(STRING) \subseteq Strings
  BY SeqGrows DEF Strings, Signs
<1>2. PICK A, B : A = Seq(STRING) /\ B = Strings
  OBVIOUS
<1>3. A \subseteq B
  BY <1>1, <1>2
<1>4. PICK C, D : C = Seq(A) /\ D = Seq(B)
  OBVIOUS
<1>5. C \subseteq D
  BY <1>3, <1>4, SeqGrows
<1>6. f.table \in Seq(C)
  BY <1>2, <1>4 DEF IsWritable
<1>7. f.table \in Seq(D)
  BY <1>5, <1>6, SeqGrows
<1>8. f.lineEnd \in Strings
  <2>1. Breaks \subseteq Signs
    BY DEF Breaks, Signs
  <2>2. f.lineEnd \in Seq(Breaks)
    BY DEF IsWritable
  <2>3. QED BY <2>1, <2>2, SeqGrows DEF Strings
<1>9. f.table \in Seq(Seq(Strings))
  BY <1>2, <1>4, <1>7
<1>10. QED BY <1>8, <1>9 DEF IsWritable, FileIs

(* From the beginning of a written file.                                    *)
LEMMA ReadsFromTheStart ==
  ASSUME NEW f, FileIs(f), NEW text, text = WriteTable(f.table, f.quoteAll, f.lineEnd, f.lastEnd)
  PROVE  text \in Strings /\ Reads(f, FreshReader, text)
<1>1. PICK n \in Nat \ {0} : n = Len(f.table) /\ 0 \in 0 .. n
  BY TableIs
<1>2. PICK rows \in Seq(Strings) : rows = WrittenRows(f) /\ Len(rows) = n
  BY <1>1, RowsAre
<1>3. text = FlattenSeq(rows)
  BY <1>2 DEF WriteTable, WrittenRows, RowEnd
<1>4. 0 \in 0 .. Len(rows)
  BY <1>1, <1>2
<1>5. text \in Strings /\ text = After(rows, 0)
  BY <1>3, <1>4, AfterStrings
<1>6. PICK r : r = FreshReader
  OBVIOUS
<1>7. ReaderIs(r) /\ AtBlank(r) /\ r.next = 1 /\ r.width = NoHeader /\ r.rows = <<>>
  BY <1>6 DEF FreshReader, ReaderIs, AtBlank
<1>8. HasRows(f, r, 0)
  BY <1>7, NoRowsAtFirst DEF HasRows
<1>9. \E e \in Seq(Breaks) : IsRest(text, r.next, e \o After(WrittenRows(f), 0))
  <2>1. <<>> \in Seq(Breaks)
    BY EmptySeq
  <2>2. <<>> \o text = text
    BY <1>5, JoinNothing
  <2>3. IsRest(text, 1, text)
    BY <1>5, RestAtFirst
  <2>4. IsRest(text, r.next, <<>> \o After(WrittenRows(f), 0))
    BY <1>2, <1>5, <1>7, <2>2, <2>3
  <2>5. QED BY <2>1, <2>4
<1>10. BetweenRows(f, r, text, 0)
  BY <1>1, <1>7, <1>8, <1>9 DEF BetweenRows
<1>11. QED BY <1>1, <1>5, <1>6, <1>10 DEF Reads

(* Through a written table the reader goes on, and ends with its rows.      *)
LEMMA TableIsReadOn ==
  ASSUME NEW f, FileIs(f), NEW r, NEW text, ReadUpTo(text, r), Reads(f, r, text),
         NEW s, s = ReadChar(r, text)
  PROVE  \/ s.outcome = "reading" /\ Reads(f, s, text)
         \/ s.outcome = "read" /\ s.rows = RowsUpTo(f, Len(f.table))
<1>1. PICK l \in Nat : l = Len(text)
  BY StringIs DEF ReadUpTo
<1>2. r.next \in 1 .. l + 1 /\ ReaderIs(r)
  BY <1>1 DEF ReadUpTo, ReadSoFar
<1>3. ReadsOn(f, r, text)
  BY TableIsRead
<1>4. CASE r.next > l
  BY <1>1, <1>2, <1>3, <1>4 DEF ReadsOn
<1>5. CASE ~(r.next > l)
  <2>1. PICK o : o = One(r, text)
    OBVIOUS
  <2>2. ReaderIs(o) /\ Reads(f, o, text)
    BY <1>1, <1>3, <1>5, <2>1 DEF ReadsOn
  <2>3. o.outcome = "reading" /\ r.next \in 1 .. l
    BY <1>2, <1>5, <2>2 DEF ReaderIs
  <2>4. s = o \/ (o.next \in 1 .. l /\ s = One(o, text))
    BY <1>1, <1>2, <2>1, <2>3, ReadsOneOrTwo
  <2>5. CASE s = o
    BY <2>2, <2>3, <2>5
  <2>6. CASE o.next \in 1 .. l /\ s = One(o, text)
    <3>1. ReadsOn(f, o, text)
      BY <2>2, TableIsRead
    <3>2. ~(o.next > l)
      BY <2>6
    <3>3. ReaderIs(s) /\ Reads(f, s, text)
      BY <1>1, <2>6, <3>1, <3>2 DEF ReadsOn
    <3>4. QED BY <3>3 DEF ReaderIs
  <2>7. QED BY <2>4, <2>5, <2>6
<1>6. QED BY <1>4, <1>5

-----------------------------------------------------------------------------
(* A file while it is read, and when it has been.                           *)

CsvHasItsFields(c) ==
  c = [op |-> c.op, at |-> c.at, table |-> c.table, text |-> c.text, reader |-> c.reader]

WasReadWhole(c) ==
  /\ c.reader.outcome = "read" <=> IsWellFormed(c.text)
  /\ c.table # <<>> =>
       /\ c.reader.outcome = "read"
       /\ c.reader.rows = [i \in 1 .. Len(c.table) - 1 |-> JoinWords(c.table[i+1])]

IsBeingRead(c) ==
  /\ ReadUpTo(c.text, c.reader)
  /\ c.table # <<>> => \E f : FileIs(f) /\ f.table = c.table /\ Reads(f, c.reader, c.text)

CsvFits(c) ==
  /\ CsvHasItsFields(c)
  /\ \/ c.at = "reading" /\ IsBeingRead(c)
     \/ c.at = "done" /\ WasReadWhole(c)

CsvInv ==
  /\ "op" \in DOMAIN call
  /\ call.op = "csv" => CsvFits(call)

(* A file that was opened is at its beginning.                              *)
LEMMA OpenedFits ==
  ASSUME NEW c, NEW table, NEW text \in Strings,
         c = [op |-> "csv", at |-> "reading", table |-> table, text |-> text,
              reader |-> FreshReader],
         table # <<>> => \E f : FileIs(f) /\ f.table = table /\ Reads(f, FreshReader, text)
  PROVE  CsvFits(c)
<1>1. /\ c.op = "csv" /\ c.at = "reading" /\ c.table = table /\ c.text = text
      /\ c.reader = FreshReader
  OBVIOUS
<1>2. CsvHasItsFields(c)
  BY <1>1 DEF CsvHasItsFields
<1>3. ReadUpTo(text, FreshReader)
  <2>1. FreshReader.next = 1 /\ 1 - 1 = 0
    BY DEF FreshReader
  <2>2. Len(text) \in Nat
    BY StringIs
  <2>3. 1 \in 1 .. Len(text) + 1
    BY <2>2
  <2>4. QED BY <2>1, <2>3, ReadAtFirst DEF ReadUpTo
<1>4. IsBeingRead(c)
  BY <1>1, <1>3 DEF IsBeingRead
<1>5. QED BY <1>1, <1>2, <1>4 DEF CsvFits

(* A file that is read on was read so far, or is done and was read whole.   *)
LEMMA ReadFits ==
  ASSUME NEW c, CsvFits(c), c.at = "reading", NEW r, r = ReadChar(c.reader, c.text), NEW d,
         d = [c EXCEPT !.reader = r, !.at = IF r.outcome = "reading" THEN "reading" ELSE "done"]
  PROVE  CsvFits(d)
<1>1. CsvHasItsFields(c) /\ IsBeingRead(c)
  BY DEF CsvFits
<1>2. PICK at : at = IF r.outcome = "reading" THEN "reading" ELSE "done"
  OBVIOUS
<1>3. d = [c EXCEPT !.reader = r, !.at = at]
  BY <1>2
<1>4. /\ CsvHasItsFields(d) /\ d.reader = r /\ d.at = at /\ d.text = c.text
      /\ d.table = c.table
  BY <1>1, <1>3 DEF CsvHasItsFields
<1>5. ReadUpTo(c.text, c.reader)
  BY <1>1 DEF IsBeingRead
<1>6. \/ r.outcome = "reading" /\ ReadUpTo(c.text, r)
      \/ r.outcome = "read" /\ IsWellFormed(c.text)
      \/ r.outcome = "failed" /\ ~IsWellFormed(c.text)
  BY <1>5, ReaderIsStrict
<1>7. ASSUME c.table # <<>>
      PROVE  \E f : /\ FileIs(f) /\ f.table = c.table
                    /\ \/ r.outcome = "reading" /\ Reads(f, r, c.text)
                       \/ r.outcome = "read" /\ r.rows = RowsUpTo(f, Len(f.table))
  <2>1. PICK f : FileIs(f) /\ f.table = c.table /\ Reads(f, c.reader, c.text)
    BY <1>1, <1>7 DEF IsBeingRead
  <2>2. \/ r.outcome = "reading" /\ Reads(f, r, c.text)
        \/ r.outcome = "read" /\ r.rows = RowsUpTo(f, Len(f.table))
    BY <1>5, <2>1, TableIsReadOn
  <2>3. QED BY <2>1, <2>2
<1>8. CASE r.outcome = "reading"
  <2>1. IsBeingRead(d)
    BY <1>4, <1>6, <1>7, <1>8 DEF IsBeingRead
  <2>2. QED BY <1>2, <1>4, <1>8, <2>1 DEF CsvFits
<1>9. CASE r.outcome # "reading"
  <2>1. r.outcome = "read" <=> IsWellFormed(c.text)
    BY <1>6, <1>9
  <2>2. ASSUME c.table # <<>>
        PROVE  /\ r.outcome = "read"
               /\ r.rows = [i \in 1 .. Len(c.table) - 1 |-> JoinWords(c.table[i+1])]
    BY <1>7, <1>9, <2>2 DEF RowsUpTo
  <2>3. WasReadWhole(d)
    BY <1>4, <2>1, <2>2 DEF WasReadWhole
  <2>4. QED BY <1>2, <1>4, <1>9, <2>3 DEF CsvFits
<1>10. QED BY <1>8, <1>9

(* Every step of the engine keeps what was read of a file a part of it.     *)
LEMMA CsvInvStep ==
  ASSUME CsvInv, [Next]_vars
  PROVE  CsvInv'
<1>1. CASE UNCHANGED vars
  BY <1>1 DEF CsvInv, vars
<1>2. CASE OpenTable
  <2>1. PICK f \in CsvFiles :
          call' = [op |-> "csv", at |-> "reading", table |-> f.table,
                   text |-> WriteTable(f.table, f.quoteAll, f.lineEnd, f.lastEnd),
                   reader |-> FreshReader]
    BY <1>2 DEF OpenTable
  <2>2. FileIs(f)
    BY AnswerPipelineAssumption, WritableIs
  <2>3. PICK text : text = WriteTable(f.table, f.quoteAll, f.lineEnd, f.lastEnd)
    OBVIOUS
  <2>4. text \in Strings /\ Reads(f, FreshReader, text)
    BY <2>2, <2>3, ReadsFromTheStart
  <2>5. CsvFits(call')
    BY <2>1, <2>2, <2>3, <2>4, OpenedFits
  <2>6. "op" \in DOMAIN call'
    BY <2>1
  <2>7. QED BY <2>5, <2>6 DEF CsvInv
<1>3. CASE OpenAnyFile
  <2>1. PICK text \in AnyFiles :
          call' = [op |-> "csv", at |-> "reading", table |-> <<>>, text |-> text,
                   reader |-> FreshReader]
    BY <1>3 DEF OpenAnyFile
  <2>2. text \in Strings
    <3>1. STRING \subseteq Signs /\ text \in Seq(STRING)
      BY AnswerPipelineAssumption DEF Signs
    <3>2. QED BY <3>1, SeqGrows DEF Strings
  <2>3. CsvFits(call')
    BY <2>1, <2>2, OpenedFits
  <2>4. QED BY <2>1, <2>3 DEF CsvInv
<1>4. CASE ReadCsv
  <2>1. PICK r : r = ReadChar(call.reader, call.text)
    OBVIOUS
  <2>2. /\ CsvFits(call) /\ call.at = "reading"
        /\ call' = [call EXCEPT !.reader = r,
                                !.at = IF r.outcome = "reading" THEN "reading" ELSE "done"]
    BY <1>4, <2>1 DEF ReadCsv, CsvInv
  <2>3. CsvFits(call')
    BY <2>1, <2>2, ReadFits
  <2>4. "op" \in DOMAIN call'
    BY <2>3 DEF CsvFits, CsvHasItsFields
  <2>5. QED BY <2>3, <2>4 DEF CsvInv
<1>5. CASE Return \/ OpenDocument \/ Cut \/ Ask
  <2>1. CASE Return
    BY <2>1 DEF Return, Idle, CsvInv
  <2>2. CASE OpenDocument
    BY <2>2 DEF OpenDocument, CsvInv
  <2>3. CASE Cut
    BY <2>3 DEF Cut, CsvInv
  <2>4. CASE Ask
    BY <2>4 DEF Ask, CsvInv
  <2>5. QED BY <1>5, <2>1, <2>2, <2>3, <2>4
<1>6. CASE Expand \/ SearchTerm \/ Rank \/ Rerank \/ SkipReranker \/ Trim
  <2>1. CASE Expand
    BY <2>1 DEF Expand, CsvInv
  <2>2. CASE SearchTerm
    BY <2>2 DEF SearchTerm, CsvInv
  <2>3. CASE Rank
    BY <2>3 DEF Rank, CsvInv
  <2>4. CASE Rerank \/ SkipReranker
    BY <2>4 DEF Rerank, SkipReranker, CsvInv
  <2>5. CASE Trim
    BY <2>5 DEF Trim, CsvInv
  <2>6. QED BY <1>6, <2>1, <2>2, <2>3, <2>4, <2>5
<1>7. CASE BuildPrompt \/ BuildDeeperPrompt \/ SendRefused \/ Send \/ SampleText
  <2>1. CASE BuildPrompt \/ BuildDeeperPrompt
    BY <2>1 DEF BuildPrompt, BuildDeeperPrompt, Prompted, CsvInv
  <2>2. CASE SendRefused \/ Send
    BY <2>2 DEF SendRefused, Send, CsvInv
  <2>3. CASE SampleText
    BY <2>3 DEF SampleText, CsvInv
  <2>4. QED BY <1>7, <2>1, <2>2, <2>3
<1>8. CASE DecodeToken \/ EndReply \/ DecodeFails \/ TakenForRefusal
  <2>1. CASE DecodeToken
    BY <2>1 DEF DecodeToken, Show, CsvInv
  <2>2. CASE EndReply \/ DecodeFails
    BY <2>2 DEF EndReply, DecodeFails, Show, CsvInv
  <2>3. CASE TakenForRefusal
    BY <2>3 DEF TakenForRefusal, CsvInv
  <2>4. QED BY <1>8, <2>1, <2>2, <2>3
<1>9. QED BY <1>1, <1>2, <1>3, <1>4, <1>5, <1>6, <1>7, <1>8 DEF Next

(* For every text of any characters, and every table however it is quoted   *)
(* and its lines are ended: the reader takes exactly the well-formed texts, *)
(* a table that was written comes back with every cell of every row, and a  *)
(* document's chunks are the document (csv_parse_file, ingest_chunk_words). *)
THEOREM DocumentsAlwaysAreReadWhole == Spec => []DocumentsAreReadWhole
<1>1. Init => CsvInv
  BY DEF Init, Idle, CsvInv
<1>2. CsvInv /\ [Next]_vars => CsvInv'
  BY CsvInvStep
<1>3. CsvInv => TablesAreReadWhole
  <2>1. SUFFICES ASSUME CsvInv, call.op = "csv", call.at = "done" PROVE TablesAreReadWhole
    BY DEF TablesAreReadWhole
  <2>2. WasReadWhole(call)
    BY <2>1 DEF CsvInv, CsvFits
  <2>3. QED BY <2>2 DEF WasReadWhole, TablesAreReadWhole
<1>4. TablesAreReadWhole /\ ChunksAreTheDocument => DocumentsAreReadWhole
  BY DEF DocumentsAreReadWhole
<1>5. QED BY <1>1, <1>2, <1>3, <1>4, ChunksAlwaysAreTheDocument, PTL DEF Spec
=============================================================================
