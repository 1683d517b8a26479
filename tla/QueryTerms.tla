----------------------------- MODULE QueryTerms -----------------------------
(***************************************************************************)
(* From a question to the words it is searched by (query_formulation.c,    *)
(* retrieval.c): the question's own base forms, those of its rewriting,    *)
(* and the related words the model picked from what it was offered.        *)
(***************************************************************************)
EXTENDS Lexicon

(* What the model may answer: no reply, a reply that is no JSON array, or   *)
(* the array's strings.                                                     *)
NoReply == [kind |-> "none"]
Unparseable == [kind |-> "prose"]
Picks(words) == [kind |-> "array", words |-> words]

Distinct(words) ==
  FoldLeft(LAMBDA kept, w : IF \E i \in DOMAIN kept : kept[i] = w
                            THEN kept ELSE Append(kept, w), <<>>, words)

Holds(words, w) == \E i \in DOMAIN words : words[i] = w

-----------------------------------------------------------------------------
(* The related words of a term that may come back, in any case of letters:  *)
(* hyponyms never do.                                                       *)
Candidates(term) ==
  Neighbors(term) \union
  (IF InWordNet(term)
   THEN WordNetTable[term].synonyms \union WordNetTable[term].hypernyms
   ELSE {})

IsOffered(terms, word) ==
  \E i \in DOMAIN terms : \E c \in Candidates(terms[i]) : Lower(c) = Lower(word)

(* In small letters, and nothing but letters.                               *)
IsPlain(word) == word # <<>> /\ \A i \in DOMAIN word : IsAlnum(word[i])

(* The question's terms first, each once; then what the reply adds to them. *)
ParseSelectedTerms(reply, terms) ==
  LET original == Distinct(terms)
      Accept(kept, word) ==
        IF IsPlain(word) /\ ~Holds(kept, Lower(word)) /\ IsOffered(terms, Lower(word))
        THEN Append(kept, Lower(word)) ELSE kept
  IN  IF reply.kind # "array" THEN original
      ELSE FoldLeft(Accept, original, reply.words)

TermsOnly(question) == ParseSelectedTerms(NoReply, BaseForms(question))

(* A rewriting adds to the question's terms and takes nothing away.         *)
(* Mutant: it takes the question's place.                                   *)
RewritingOnly(question, rewriting) == TermsOnly(rewriting)

TermsUnion(question, rewriting) ==
  IF rewriting = question THEN TermsOnly(question)
  ELSE Distinct(TermsOnly(question) \o TermsOnly(rewriting))

(* The model's rewriting; the question where no turn of a history went with *)
(* it, or no reply or an empty one came back.                               *)
Contextualize(question, windowed, reply) ==
  IF windowed = 0 \/ reply = <<>> THEN question ELSE reply

(* What retrieval searches for, and how many of it the question asked for.  *)
Formulate(question, rewriting, reply) ==
  LET base == TermsUnion(question, rewriting)
  IN  [terms    |-> IF base = <<>> THEN <<>> ELSE ParseSelectedTerms(reply, base),
       original |-> Len(base)]
=============================================================================
