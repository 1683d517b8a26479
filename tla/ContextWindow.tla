--------------------------- MODULE ContextWindow ---------------------------
(***************************************************************************)
(* Making a prompt and a conversation fit the model's context: which turns *)
(* of the history go with a prompt (generation.c, query_formulation.c,     *)
(* tool_router.c, QueryWorker.cpp), which excerpts of the documents go     *)
(* into a summary's prompt (corpus_summary.c), and what the model client   *)
(* makes of the result (local_llm_client.c).                               *)
(* A turn is its true number of tokens and whether it could be counted.    *)
(***************************************************************************)
EXTENDS Integers, Sequences, FiniteSets, SequencesExt, FiniteSetsExt

CONSTANTS
  NCtx,                  (* LOCAL_LLM_N_CTX                                 *)
  MaxNew,                (* LOCAL_LLM_MAX_NEW_TOKENS                        *)
  Headroom,              (* the 256 tokens left for the template's markup   *)
  RouterReserve,         (* TOOL_ROUTER_RESERVED_TOKENS                     *)
  ContextualizeReserve,  (* QUERY_FORMULATION_CONTEXTUALIZE_RESERVED_TOKENS *)
  BytesPerToken,         (* GENERATION_BYTES_PER_TOKEN                      *)
  ExcerptsPerDoc, MinExcerpt,
  Markup,                (* what the template really adds to every turn     *)
  ConverseHead           (* tokens of LEXIS_PROMPT_CONVERSE_HEAD            *)

ASSUME ContextWindowAssumption ==
  /\ {NCtx, MaxNew, BytesPerToken, ExcerptsPerDoc} \subseteq Nat \ {0}
  /\ {Headroom, RouterReserve, ContextualizeReserve, MinExcerpt, Markup, ConverseHead}
       \subseteq Nat
  /\ MaxNew + Headroom < NCtx /\ RouterReserve <= NCtx

Reserved == MaxNew + Headroom

(* local_llm_count_tokens: the number, or -1.                               *)
CountTokens(turn) == IF turn.counted THEN turn.tokens ELSE -1

AtLeastZero(n) == Max({n, 0})

(* Tokens of a stretch of history, a turn without a count being free.       *)
Measured(turns) ==
  FoldSeq(LAMBDA turn, sum : AtLeastZero(CountTokens(turn)) + sum, 0, turns)

Newest(turns, i) == SubSeq(turns, i, Len(turns))

(* From the newest turn backwards, up to the first that does not fit.       *)
WindowHistory(history, budget) ==
  LET fits == {s \in 1 .. Len(history) + 1 :
                 \A i \in s .. Len(history) : Measured(Newest(history, i)) <= budget}
  IN  Newest(history, Min(fits))

(* The chat pipeline's own copy stops at a turn it cannot count.            *)
ConverseWindow(history, budget) ==
  LET fits == {s \in 1 .. Len(history) + 1 :
                 \A i \in s .. Len(history) :
                   history[i].counted /\ Measured(Newest(history, i)) <= budget}
  IN  Newest(history, Min(fits))

(* Mutant: the history may have the room of the reply.                      *)
AnswerBudgetWithoutReserve(prompt) ==
  LET tokens == IF CountTokens(prompt) < 0 THEN NCtx ELSE CountTokens(prompt)
  IN  AtLeastZero(NCtx - tokens)

(* A prompt that cannot be counted leaves nothing to the history.           *)
AnswerBudget(prompt) ==
  LET tokens == IF CountTokens(prompt) < 0 THEN NCtx ELSE CountTokens(prompt)
  IN  AtLeastZero(NCtx - tokens - Reserved)

(* The question alone is counted, not the instructions sent in front of it. *)
ConverseBudget(question) ==
  NCtx - Reserved - AtLeastZero(CountTokens(question))

(* Whole documents are only read if a guess from their bytes fits: the      *)
(* guess must not be too low.                                               *)
TooBig(prompt) == prompt.bytes \div BytesPerToken + 1 + Reserved > NCtx

Kinds == {"answer", "documents", "converse", "route", "contextualize"}

(* The pipelines that hold the reply's own length back from the history.    *)
AnswerKinds == {"answer", "documents", "converse"}

Budget(kind, prompt) ==
  CASE kind \in {"answer", "documents"} -> AnswerBudget(prompt)
    [] kind = "converse" -> ConverseBudget(prompt)
    [] kind = "route" -> NCtx - RouterReserve
    [] kind = "contextualize" -> NCtx - ContextualizeReserve

(* What is sent: turns of the history and the prompt behind them, or        *)
(* nothing at all.                                                          *)
Declined(kind, prompt, history) ==
  \/ kind = "documents" /\ TooBig(prompt)
  \/ kind = "contextualize" /\ WindowHistory(history, Budget(kind, prompt)) = <<>>

Sent(kind, prompt) ==
  IF kind = "converse"
  THEN [tokens |-> prompt.tokens + ConverseHead, counted |-> prompt.counted]
  ELSE prompt

Turns(kind, prompt, history) ==
  LET budget == Budget(kind, prompt)
      window == IF kind = "converse" THEN ConverseWindow(history, budget)
                ELSE WindowHistory(history, budget)
  IN  Append(window, Sent(kind, prompt))

(* The template adds to every turn; the whole is counted exactly now.       *)
TrueTokens(turns) == FoldSeq(LAMBDA turn, sum : turn.tokens + Markup + sum, 0, turns)

Refused(turns) == TrueTokens(turns) >= NCtx

(* How many tokens the decode loop will produce at most.                    *)
Room(turns) == Min({MaxNew, NCtx - TrueTokens(turns)})

-----------------------------------------------------------------------------
(* append_sampled_text: a text within its budget is taken whole; else       *)
(* slices spread over it, or one from its head if they would get too small. *)
(* A slice is the set of the byte positions it takes.                       *)

PerExcerpt(budget) ==
  IF budget \div ExcerptsPerDoc < MinExcerpt THEN budget ELSE budget \div ExcerptsPerDoc

Slice(len, budget, i, taken) ==
  LET start == (len \div ExcerptsPerDoc) * i
      take == Min({PerExcerpt(budget), budget - taken, len - start})
  IN  (start + 1) .. (start + take)

Sampled(len, budget) ==
  IF len <= budget THEN << 1 .. len >>
  ELSE LET slices[i \in 0 .. ExcerptsPerDoc] ==
             IF i = 0 THEN [cut |-> <<>>, taken |-> 0]
             ELSE LET before == slices[i-1]
                      slice == Slice(len, budget, i - 1, before.taken)
                  IN  IF before.taken >= budget THEN before
                      ELSE [cut   |-> Append(before.cut, slice),
                            taken |-> before.taken + Cardinality(slice)]
       IN  slices[ExcerptsPerDoc].cut
=============================================================================
