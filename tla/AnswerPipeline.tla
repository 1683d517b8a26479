--------------------------- MODULE AnswerPipeline ---------------------------
(***************************************************************************)
(* The engine's work on text, one call at a time: a file's text becomes    *)
(* rows or passages, a question becomes terms and the terms a choice of    *)
(* passages, a prompt gets the turns that go with it, and the model's      *)
(* reply, decoded token by token, becomes what is shown and what is kept.  *)
(* The IngestWorker and the QueryWorker make these calls; who may run when *)
(* is the matter of CorpusRebuild, GroupQuery and ChatSession.             *)
(***************************************************************************)
EXTENDS TextIngest, QueryTerms, Ranking, ContextWindow, ThinkGate

CONSTANTS
  CsvFiles,     (* written tables, [table, quoteAll, lineEnd, lastEnd]      *)
  AnyFiles,     (* texts, well-formed or not                                *)
  Documents,    (* sequences of words as typed: letters and marks           *)
  ChunkSizes, Overlaps,
  Questions, Rewritings, Replies,
  Turn, Prompt, (* what a turn and a prompt may measure                     *)
  MaxHistory,   (* bound: turns of a history                                *)
  TextSizes,    (* bytes of a document to be summarised, and its share      *)
  MaxReply,     (* bound: symbols of a reply                                *)
  MaxPiece      (* bound: symbols of a token                                *)

(* A text as words, each a sequence of characters.                          *)
TypedWords == Seq(Seq(STRING))

(* A table that can be written and read: as many cells in every row, and no *)
(* row that would be a blank line.                                          *)
IsWritable(f) ==
  /\ f.table \in Seq(Seq(Seq(STRING))) /\ f.table # <<>>
  /\ \A i \in DOMAIN f.table :
       /\ f.table[i] # <<>> /\ Len(f.table[i]) = Len(f.table[1])
       /\ f.table[i] = << <<>> >> => f.quoteAll
  /\ f.lineEnd \in Seq(Breaks) \ {<<>>}
  /\ f.quoteAll \in BOOLEAN /\ f.lastEnd \in BOOLEAN

ASSUME AnswerPipelineAssumption ==
  /\ Documents \union Questions \union Rewritings \subseteq TypedWords
  /\ \A reply \in Replies : reply.kind = "array" => reply.words \in TypedWords
  /\ \A f \in CsvFiles : IsWritable(f)
  /\ AnyFiles \subseteq Seq(STRING)
  /\ ChunkSizes \union Overlaps \subseteq Nat
  /\ \A words \in Documents : \A p \in DOMAIN words : Hash[p] \in Nat
  /\ \A t \in Turn \union Prompt : t.tokens \in Nat /\ t.counted \in BOOLEAN
  /\ \A p \in Prompt : p.bytes \in Nat
  /\ TextSizes \subseteq Nat /\ MaxHistory \in Nat

VARIABLES
  passages,   (* the index: its passages, each a sequence of typed words    *)
  call        (* the running call                                           *)

vars == <<passages, call>>

Idle == [op |-> "idle"]

Init == passages = <<>> /\ call = Idle

(* One piece of work at a time: the next begins without an index.           *)
Return ==
  /\ call.op # "idle" /\ call.at = "done"
  /\ call' = Idle /\ passages' = <<>>

-----------------------------------------------------------------------------
(* A CSV file, character by character.                                      *)

OpenTable ==
  /\ call = Idle
  /\ \E f \in CsvFiles :
       call' = [op |-> "csv", at |-> "reading", table |-> f.table,
                text |-> WriteTable(f.table, f.quoteAll, f.lineEnd, f.lastEnd),
                reader |-> FreshReader]
  /\ UNCHANGED passages

OpenAnyFile ==
  /\ call = Idle
  /\ \E text \in AnyFiles :
       call' = [op |-> "csv", at |-> "reading", table |-> <<>>, text |-> text,
                reader |-> FreshReader]
  /\ UNCHANGED passages

ReadCsv ==
  /\ call.op = "csv" /\ call.at = "reading"
  /\ LET r == ReadChar(call.reader, call.text)
     IN  call' = [call EXCEPT !.reader = r,
                              !.at = IF r.outcome = "reading" THEN "reading" ELSE "done"]
  /\ UNCHANGED passages

(* A document, chunk by chunk; its chunks are the index then.               *)
OpenDocument ==
  /\ call = Idle
  /\ \E words \in Documents, size \in ChunkSizes, overlap \in Overlaps :
       /\ IsChunking(size, overlap)
       /\ call' = [op |-> "chunk", at |-> "cutting", words |-> words, size |-> size,
                   overlap |-> overlap, cutter |-> FreshChunker]
  /\ UNCHANGED passages

Cut ==
  /\ call.op = "chunk" /\ call.at = "cutting"
  /\ LET c == CutChunk(call.cutter, call.words, call.size, call.overlap)
     IN  IF c.outcome = "cut"
         THEN /\ call' = [call EXCEPT !.cutter = c, !.at = "done"]
              /\ passages' = c.chunks
         ELSE call' = [call EXCEPT !.cutter = c] /\ UNCHANGED passages

-----------------------------------------------------------------------------
(* A search. The index as the loader makes it of the passages:              *)

Terms(p) == BaseForms(JoinWords(passages[p]))

Frequency(p, term) == Cardinality({i \in DOMAIN Terms(p) : Terms(p)[i] = term})

Holders(term) == {p \in DOMAIN passages : Frequency(p, term) > 0}

Postings(term) ==
  LET found == Ascending(Holders(term))
  IN  [k \in DOMAIN found |->
         [passage |-> found[k], frequency |-> Frequency(found[k], term)]]

TokenCount == [p \in DOMAIN passages |-> Len(Terms(p))]

Ask ==
  /\ call.op = "chunk" /\ call.at = "done"
  /\ \E question \in Questions, rewriting \in Rewritings, windowed \in {0, 1} :
       call' = [op |-> "search", at |-> "expand", question |-> question,
                rewriting |-> Contextualize(question, windowed, rewriting),
                terms |-> <<>>, original |-> 0, next |-> 1,
                results |-> EmptyResults, ranking |-> <<>>, ranked |-> <<>>,
                closest |-> <<>>, fused |-> FALSE, floored |-> FALSE]
  /\ UNCHANGED passages

(* Without a term nothing is searched; without a usable reply the search is *)
(* for the question's terms alone.                                          *)
Expand ==
  /\ call.op = "search" /\ call.at = "expand"
  /\ \E reply \in Replies :
       LET f == Formulate(JoinWords(call.question), JoinWords(call.rewriting), reply)
       IN  call' = [call EXCEPT !.terms = f.terms, !.original = f.original,
                                !.at = IF f.terms = <<>> THEN "done" ELSE "search"]
  /\ UNCHANGED passages

SearchTerm ==
  /\ call.op = "search" /\ call.at = "search" /\ call.next <= Len(call.terms)
  /\ LET weight == IF call.next <= call.original THEN FullWeight ELSE ExpansionWeight
     IN  call' = [call EXCEPT !.results = Accumulate(@, Postings(call.terms[call.next]),
                                                     weight, Len(passages)),
                              !.next = @ + 1]
  /\ UNCHANGED passages

Rank ==
  /\ call.op = "search" /\ call.at = "search" /\ call.next > Len(call.terms)
  /\ LET ranked == Ranked(call.results.items, Len(call.terms))
     IN  call' = [call EXCEPT !.ranked = ranked, !.ranking = ranked, !.at = "rerank"]
  /\ UNCHANGED passages

(* The reranker is optional, may fail, and finds any order of similarity.   *)
Rerank ==
  /\ call.op = "search" /\ call.at = "rerank"
  /\ \E closest \in SetToSeqs(DOMAIN call.ranked) :
       call' = [call EXCEPT !.ranking = Rescored(call.ranked, closest),
                            !.closest = closest, !.fused = TRUE, !.at = "trim"]
  /\ UNCHANGED passages

SkipReranker ==
  /\ call.op = "search" /\ call.at = "rerank"
  /\ call' = [call EXCEPT !.at = "trim"]
  /\ UNCHANGED passages

(* The floor is off for a retry, and after the reranker.                    *)
Trim ==
  /\ call.op = "search" /\ call.at = "trim"
  /\ \E floored \in (IF call.fused THEN {FALSE} ELSE BOOLEAN) :
       call' = [call EXCEPT !.ranking = Trimmed(@, TokenCount, floored),
                            !.floored = floored, !.at = "done"]
  /\ UNCHANGED passages

-----------------------------------------------------------------------------
(* A prompt and its history. carried: what the bridge to the screen still   *)
(* holds of the reply before; rerun: whether the answer was asked for twice *)

Prompted(kind, prompt, history, rerun, carried) ==
  LET declined == Declined(kind, prompt, history)
  IN  [op |-> "prompt", at |-> IF declined THEN "done" ELSE "send",
       kind |-> kind, prompt |-> prompt, history |-> history,
       turns |-> IF declined THEN <<>> ELSE Turns(kind, prompt, history),
       rerun |-> rerun, carried |-> carried]

BuildPrompt ==
  /\ call = Idle
  /\ \E kind \in Kinds, prompt \in Prompt, history \in BoundedSeq(Turn, MaxHistory) :
       call' = Prompted(kind, prompt, history, FALSE, <<>>)
  /\ UNCHANGED passages

(* After a refusal a deeper search gives a prompt of its own, with other    *)
(* passages; the turns are those of before, any being allowed here.         *)
BuildDeeperPrompt ==
  /\ call.op = "refusal"
  /\ \E prompt \in Prompt, history \in BoundedSeq(Turn, MaxHistory) :
       call' = Prompted("answer", prompt, history, TRUE, call.carried)
  /\ UNCHANGED passages

(* A prompt beyond the context is refused, without a token of a reply.      *)
SendRefused ==
  /\ call.op = "prompt" /\ call.at = "send" /\ Refused(call.turns)
  /\ call' = [call EXCEPT !.at = "done"]
  /\ UNCHANGED passages

Send ==
  /\ call.op = "prompt" /\ call.at = "send" /\ ~Refused(call.turns)
  /\ call' = [op |-> "decode", at |-> "decoding", room |-> Room(call.turns), reply |-> <<>>,
              gate |-> FreshGate, carried |-> call.carried, pending |-> call.carried,
              shown |-> <<>>, returned |-> <<>>, outcome |-> "none",
              repeats |-> call.kind = "answer" /\ ~call.rerun]
  /\ UNCHANGED passages

SampleText ==
  /\ call = Idle
  /\ \E size \in TextSizes, budget \in TextSizes \union {0} :
       call' = [op |-> "sample", at |-> "done", size |-> size, budget |-> budget,
                slices |-> Sampled(size, budget)]
  /\ UNCHANGED passages

-----------------------------------------------------------------------------
(* The reply, token by token.                                               *)

Show(c, text) ==
  LET b == Bridge(c.pending, text)
  IN  [c EXCEPT !.shown = @ \o b.shown, !.pending = b.pending]

Pieces == UNION {[1 .. n -> Symbols] : n \in 1 .. MaxPiece}

DecodeToken ==
  /\ call.op = "decode" /\ call.at = "decoding" /\ call.room > 0
  /\ \E piece \in Pieces :
       /\ Len(call.reply) + Len(piece) <= MaxReply
       /\ LET fed == Feed(call.gate, piece)
          IN  call' = Show([call EXCEPT !.reply = @ \o piece, !.gate = fed.gate,
                                        !.room = @ - 1], fed.out)
  /\ UNCHANGED passages

(* The end of the reply: the model's, or that of the room there is.         *)
EndReply ==
  /\ call.op = "decode" /\ call.at = "decoding"
  /\ call' = Show([call EXCEPT !.at = "done", !.outcome = "reply",
                               !.returned = StripLeadingThinkBlock(call.reply)],
                  Flush(call.gate))
  /\ UNCHANGED passages

(* A decoding error: what was held is shown, and nothing is returned.       *)
DecodeFails ==
  /\ call.op = "decode" /\ call.at = "decoding" /\ call.room > 0
  /\ call' = Show([call EXCEPT !.at = "done", !.outcome = "failed"], Flush(call.gate))
  /\ UNCHANGED passages

(* An answer of a search may read like a refusal: it is asked for again,    *)
(* once, and one bridge serves both replies.                                *)
TakenForRefusal ==
  /\ call.op = "decode" /\ call.outcome = "reply" /\ call.returned # <<>> /\ call.repeats
  /\ call' = [op |-> "refusal", at |-> "done", carried |-> call.pending]
  /\ UNCHANGED passages

Next ==
  \/ Return
  \/ OpenTable \/ OpenAnyFile \/ ReadCsv
  \/ OpenDocument \/ Cut
  \/ Ask \/ Expand \/ SearchTerm \/ Rank \/ Rerank \/ SkipReranker \/ Trim
  \/ BuildPrompt \/ BuildDeeperPrompt \/ SendRefused \/ Send \/ SampleText
  \/ DecodeToken \/ EndReply \/ DecodeFails \/ TakenForRefusal

Spec == Init /\ [][Next]_vars

-----------------------------------------------------------------------------
(* A file is read whole or refused: the reader takes the well-formed texts  *)
(* and no other, so that a text which breaks the format anywhere gives no   *)
(* rows at all; and whatever quoting and line ends a table was written      *)
(* with, it comes back row by row (csv_parse_file).                         *)
TablesAreReadWhole ==
  call.op = "csv" /\ call.at = "done" =>
    /\ call.reader.outcome = "read" <=> IsWellFormed(call.text)
    /\ call.table # <<>> =>
         /\ call.reader.outcome = "read"
         /\ call.reader.rows =
              [i \in 1 .. Len(call.table) - 1 |-> JoinWords(call.table[i+1])]

(* The chunks of a document, each without the words it repeats of the one   *)
(* before, are the document; only the last may be short, and even it has a  *)
(* word of its own (ingest_chunk_words).                                    *)
ChunksAreTheDocument ==
  call.op = "chunk" /\ call.at = "done" =>
    LET chunks == call.cutter.chunks
        Own(k) == IF k = 1 THEN chunks[k] ELSE SubSeq(chunks[k], call.overlap + 1, Len(chunks[k]))
    IN  /\ FlattenSeq([k \in DOMAIN chunks |-> Own(k)]) = call.words
        /\ \A k \in DOMAIN chunks : Own(k) # <<>>
        /\ \A k \in 1 .. Len(chunks) - 1 : Len(chunks[k]) = call.size

(* What the engine reads of a file is what the file says: nothing is lost,  *)
(* repeated or made up on the way from a table's cells to rows, nor from a  *)
(* document's words to the passages that are indexed.                       *)
DocumentsAreReadWhole == TablesAreReadWhole /\ ChunksAreTheDocument

-----------------------------------------------------------------------------
(* A word as it is spelled, without the marks around it; a word in one      *)
(* piece has no mark between its letters that would part it in two.         *)
Letters(word) == {i \in DOMAIN word : IsAlnum(word[i])}

InOnePiece(word) ==
  /\ Letters(word) # {}
  /\ \A i \in Min(Letters(word)) .. Max(Letters(word)) : InWord(word, i)

Spelling(word) == Lower(SubSeq(word, Min(Letters(word)), Max(Letters(word))))

Found(p) == \E i \in DOMAIN call.results.items : call.results.items[i].passage = p

IsSpelled(words, word) == \E v \in words : Lower(v) = word

IsRelated(word, term) ==
  \/ \E i \in DOMAIN SynonymRows :
       SynonymRows[i].word = term /\ IsSpelled(SynonymRows[i].neighbors, word)
  \/ \E pos \in PartsOfSpeech : \E s, t \in DataFiles[pos] :
       /\ s = t \/ \E p \in s.pointers : p.symbol = "@" /\ p.to = t.offset
       /\ IsSpelled(s.words, term) /\ IsSpelled(t.words, word)

(* Whatever the model makes of a question, the search is for the question:  *)
(* a passage with a word of it, stopwords aside, is found, however the word *)
(* is capitalised or punctuated and whatever the rewriting left out; every  *)
(* term is searched once, so that none counts twice in a score; and a term  *)
(* the model added is related to one that was asked for (query_formulation, *)
(* tokenizer and lemmatizer on both sides of the index).                    *)
SearchKeepsTheQuestion ==
  call.op = "search" /\ call.at = "rerank" =>
    /\ \A p \in DOMAIN passages :
         (\E i \in DOMAIN call.question, j \in DOMAIN passages[p] :
            /\ InOnePiece(call.question[i]) /\ InOnePiece(passages[p][j])
            /\ Spelling(call.question[i]) = Spelling(passages[p][j])
            /\ Spelling(call.question[i]) \notin Stopwords) => Found(p)
    /\ \A i, j \in DOMAIN call.terms : call.terms[i] = call.terms[j] => i = j
    /\ \A i \in call.original + 1 .. Len(call.terms) :
         \E j \in 1 .. call.original : IsRelated(call.terms[i], call.terms[j])

-----------------------------------------------------------------------------
(* The score of a passage, from the index and without the result list.      *)

Weight(i) == IF i <= call.original THEN FullWeight ELSE ExpansionWeight

TermPart(p, i) ==
  LET term == call.terms[i]
  IN  Weight(i) * ((Len(passages) - Cardinality(Holders(term)) + 1) * Frequency(p, term))

TrueScore(p) ==
  LET terms == DOMAIN call.terms
      matched == Cardinality({i \in terms : TermPart(p, i) > 0})
      sum == FoldSet(LAMBDA i, n : n + TermPart(p, i), 0, terms)
  IN  IF Len(call.terms) < 2 THEN sum
      ELSE sum * (Len(call.terms) - 1 + CoordBonus * (matched - 1))

Matching == {p \in DOMAIN passages : \E i \in DOMAIN call.terms : TermPart(p, i) > 0}

Tokens(items) == FoldLeft(LAMBDA n, item : n + TokenCount[item.passage], 0, items)

(* The candidates as they stand when the choice is made: by their scores,   *)
(* or, behind the reranker, by their places in the two orders it fuses.     *)
Fused == call.fused /\ Len(call.ranked) > 1

Standing(i) ==
  IF Fused
  THEN [call.ranked[i] EXCEPT !.score =
          RankPart(i) + RankPart(CHOOSE r \in DOMAIN call.closest : call.closest[r] = i)]
  ELSE call.ranked[i]

(* The passages given to the model are the best there are, each once, in    *)
(* the order of their scores and as many as its limits allow: none left out *)
(* is ahead of one kept, a passage is scored by exactly the terms it holds, *)
(* and the best is there however long it is (bm25_search_weighted,          *)
(* bm25_result_set_trim). All this of a reranked search too, where the      *)
(* passages left out and kept are compared by the fused order               *)
(* (retrieval.c, reranker.c).                                               *)
BestPassagesSurvive ==
  call.op = "search" /\ call.at = "done" /\ call.terms # <<>> =>
    LET kept == call.ranking
        all == call.ranked
        candidates == {Standing(i) : i \in DOMAIN all}
        dropped == candidates \ ToSet(kept)
        NextBest == CHOOSE n \in dropped : \A m \in dropped : n = m \/ Ahead(n, m)
    IN  /\ ToSet(kept) \subseteq candidates
        /\ \A i, j \in DOMAIN kept : i < j => Ahead(kept[i], kept[j])
        /\ \A i \in DOMAIN kept, p \in dropped : Ahead(kept[i], p)
        /\ dropped # {} =>
             \/ Len(kept) = MaxPassages
             \/ Tokens(kept) + TokenCount[NextBest.passage] > TokenBudget
             \/ /\ ~call.fused /\ call.floored
                /\ NextBest.score * FloorDen < kept[1].score * FloorNum
        /\ \A i \in DOMAIN all : all[i].score = TrueScore(all[i].passage)
        /\ \A p \in Matching \ {item.passage : item \in ToSet(all)} :
             /\ Len(all) = CandidateCeiling
             /\ \A i \in DOMAIN all : Ahead(all[i], [passage |-> p, score |-> TrueScore(p)])
        /\ kept = <<>> => all = <<>>
        /\ Len(kept) <= MaxPassages
        /\ Len(kept) > 1 => Tokens(kept) <= TokenBudget

-----------------------------------------------------------------------------
(* A prompt has the room it needs: it goes with the longest stretch of the  *)
(* newest turns that its budget allows, and where everything could be       *)
(* counted and the prompt is one that fits, the model does not refuse it.   *)
(* What is sent and nobody counts - the template's markup, and before a     *)
(* chat question its instructions - comes out of the headroom, and beyond   *)
(* it out of the longest reply, never out of anything else: as long as it   *)
(* is within the headroom, the longest reply fits ("history-budget headroom *)
(* for model output", generation.c:96). Excerpts for a summary keep to      *)
(* their budget, lie in the text and do not overlap.                        *)
AllCounted(c) == c.prompt.counted /\ \A i \in DOMAIN c.history : c.history[i].counted

PromptIsOneThatFits(c) ==
  CASE c.kind = "documents" -> c.prompt.bytes >= BytesPerToken * c.prompt.tokens
    [] c.kind \in {"answer", "converse"} -> c.prompt.tokens + Reserved <= NCtx
    [] c.kind = "route" -> c.prompt.tokens + Markup * Len(c.turns) < RouterReserve
    [] c.kind = "contextualize" ->
         c.prompt.tokens + Markup * Len(c.turns) < ContextualizeReserve

HistoryIsTheNewest(c) ==
  LET kept == Front(c.turns)
      budget == Budget(c.kind, c.prompt)
  IN  /\ Last(c.turns) = Sent(c.kind, c.prompt)
      /\ IsSuffix(kept, c.history)
      /\ AllCounted(c) =>
           \A i \in DOMAIN c.history :
             Measured(Newest(c.history, i)) <= budget =>
               Len(kept) >= Len(c.history) - i + 1

Uncounted(c) ==
  Markup * Len(c.turns) + (IF c.kind = "converse" THEN ConverseHead ELSE 0)

PromptFitsTheContext ==
  /\ call.op = "prompt" /\ call.turns # <<>> =>
       /\ HistoryIsTheNewest(call)
       /\ AllCounted(call) /\ PromptIsOneThatFits(call) =>
            CASE call.kind \in AnswerKinds ->
                   Uncounted(call) < Reserved =>
                     /\ ~Refused(call.turns)
                     /\ Room(call.turns) >= Min({MaxNew, Reserved - Uncounted(call)})
              [] OTHER -> ~Refused(call.turns)
  /\ call.op = "sample" =>
       LET all == UNION ToSet(call.slices)
       IN  /\ all \subseteq 1 .. call.size
           /\ Cardinality(all) <= call.budget
           /\ \A i, j \in DOMAIN call.slices :
                i # j => call.slices[i] \intersect call.slices[j] = {}
           /\ call.size <= call.budget => all = 1 .. call.size

-----------------------------------------------------------------------------
IsWholeText(text) ==
  \A i \in DOMAIN text : text[i] = Lead /\ i < Len(text) => text[i+1] = Continuation

(* The text shown while a reply is decoded is in the end the reply that is  *)
(* returned, so that nothing shown is ever taken back and no reasoning is   *)
(* shown that the reply leaves out, however the model cuts its tokens; and  *)
(* no half of a character is shown of well-formed text ("provably identical *)
(* outputs", local_llm_client.c:412). Two exceptions, and no more: the      *)
(* first half of a character at the very end of a reply is returned and not *)
(* shown; and when that reply is a refusal and the answer is asked for      *)
(* again, this half is shown in front of the second reply, as the bridge    *)
(* carries it over.                                                         *)
ShownTextIsTheReply ==
  call.op = "decode" =>
    /\ call.carried \in {<<>>, <<Lead>>}
    /\ IsWholeText(call.carried \o call.reply) /\ call.shown # <<>> =>
         Last(call.shown) # Lead
    /\ call.outcome = "reply" =>
         /\ call.carried \o call.returned = call.shown \o call.pending
         /\ call.pending \in {<<>>, <<Lead>>}
=============================================================================
