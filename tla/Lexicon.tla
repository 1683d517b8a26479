------------------------------ MODULE Lexicon ------------------------------
(***************************************************************************)
(* Words as the engine sees them, on the way into the index and on the way *)
(* into a search: tokens, stopwords, base forms (lemmatizer.c), WordNet's  *)
(* related words (wordnet.c) and the learned neighbours of a word          *)
(* (synonym_table.c). A word is a sequence of letters.                     *)
(***************************************************************************)
EXTENDS Naturals, Sequences, FiniteSets, SequencesExt, FiniteSetsExt

CONSTANTS
  Stopwords,     (* stopwords.txt: a set of words                           *)
  Exceptions,    (* the *.exc files: irregular form -> its first base       *)
  DataFiles,     (* data.noun .. data.adv: part of speech -> set of lines   *)
                 (* [offset, words, pointers], a pointer being [symbol, to] *)
  SynonymRows    (* synonyms.tsv: a sequence of [word, neighbors]           *)

PartsOfSpeech == DOMAIN DataFiles

ASSUME LexiconAssumption ==
  /\ \A pos \in PartsOfSpeech : \A s, t \in DataFiles[pos] :
       s.offset = t.offset => s = t
  /\ SynonymRows \in Seq([word : Seq(STRING), neighbors : SUBSET Seq(STRING)])

-----------------------------------------------------------------------------
(* Letters: small and capital, digits, the marks kept inside a word, others *)

Capitals == [K |-> "k", L |-> "l"]
Alphabet == {"a", "d", "e", "g", "h", "i", "k", "l", "n", "o", "r", "s", "t", "u", "w"}
Connectors == {"-", "."}

ToLower(c) == IF c \in DOMAIN Capitals THEN Capitals[c] ELSE c
IsAlnum(c) == ToLower(c) \in Alphabet
Lower(word) == [i \in DOMAIN word |-> ToLower(word[i])]

(* A letter, or a mark with a letter of the same word on either side.       *)
InWord(text, i) ==
  \/ IsAlnum(text[i])
  \/ /\ text[i] \in Connectors /\ 1 < i /\ i < Len(text)
     /\ IsAlnum(text[i-1]) /\ IsAlnum(text[i+1])

(* The members of a finite set of numbers, from the least on.               *)
Ascending(numbers) ==
  [k \in 1 .. Cardinality(numbers) |->
     CHOOSE n \in numbers : Cardinality({m \in numbers : m < n}) = k - 1]

(* Maximal runs of such characters, in small letters, in order.             *)
Tokenize(text) ==
  LET inside == {i \in DOMAIN text : InWord(text, i)}
      starts == Ascending({i \in inside : i - 1 \notin inside})
      End(i) == Min({j \in i .. Len(text) : j + 1 \notin inside})
  IN  [k \in DOMAIN starts |-> Lower(SubSeq(text, starts[k], End(starts[k])))]

WithoutStopwords(words) ==
  LET kept == Ascending({i \in DOMAIN words : words[i] \notin Stopwords})
  IN  [k \in DOMAIN kept |-> words[kept[k]]]

-----------------------------------------------------------------------------
(* WordNet. Only two kinds of pointer are kept, and not the part of speech  *)
(* a pointer leads to.                                                      *)
Targets(line, symbol) == {p.to : p \in {q \in line.pointers : q.symbol = symbol}}

Synset(line) ==
  [offset |-> line.offset, words |-> line.words,
   hypernyms |-> Targets(line, "@"), hyponyms |-> Targets(line, "~")]

SynsetIndex(pos) == {Synset(line) : line \in DataFiles[pos]}

(* The index files: every word of the data files, in small letters, with    *)
(* the synsets it is in.                                                    *)
Lemmas(pos) == {Lower(w) : w \in UNION {s.words : s \in SynsetIndex(pos)}}

Entry(pos, lemma) == {s \in SynsetIndex(pos) : \E w \in s.words : Lower(w) = lemma}

(* An offset counts within the pointer's own part of speech.                *)
Resolve(pos, offsets) ==
  UNION {s.words : s \in {t \in SynsetIndex(pos) : t.offset \in offsets}}

(* Merged over the parts of speech, at start-up.                            *)
WordNetTable ==
  [word \in UNION {Lemmas(pos) : pos \in PartsOfSpeech} |->
     LET Merged(Words(_, _)) ==
           UNION {UNION {Words(pos, s) : s \in Entry(pos, word)} : pos \in PartsOfSpeech}
     IN  [synonyms  |-> Merged(LAMBDA pos, s : s.words) \ {word},
          hypernyms |-> Merged(LAMBDA pos, s : Resolve(pos, s.hypernyms)),
          hyponyms  |-> Merged(LAMBDA pos, s : Resolve(pos, s.hyponyms))]]

InWordNet(word) == word \in DOMAIN WordNetTable

(* A word's last row counts: a chain of the table grows at its head. Rows   *)
(* without neighbours are not kept.                                         *)
Neighbors(word) ==
  LET rows == {i \in DOMAIN SynonymRows :
                 SynonymRows[i].word = word /\ SynonymRows[i].neighbors # {}}
  IN  IF rows = {} THEN {} ELSE SynonymRows[Max(rows)].neighbors

-----------------------------------------------------------------------------
(* Base forms. Rules are tried in their order, and only a result that       *)
(* WordNet knows is taken.                                                  *)

Rule(suffix, replacement) == [suffix |-> suffix, replacement |-> replacement]

NounRules == << Rule(<<"s">>, <<>>), Rule(<<"s","e","s">>, <<"s">>),
                Rule(<<"i","e","s">>, <<"y">>) >>
VerbRules == << Rule(<<"s">>, <<>>), Rule(<<"i","e","s">>, <<"y">>),
                Rule(<<"e","s">>, <<"e">>), Rule(<<"e","s">>, <<>>),
                Rule(<<"e","d">>, <<"e">>), Rule(<<"e","d">>, <<>>),
                Rule(<<"i","n","g">>, <<"e">>), Rule(<<"i","n","g">>, <<>>) >>
AdjectiveRules == << Rule(<<"e","r">>, <<>>), Rule(<<"e","r">>, <<"e">>) >>

SuffixRules == NounRules \o VerbRules \o AdjectiveRules

EndsWith(word, suffix) == IsSuffix(suffix, word)

StripAndReplace(word, rule) ==
  SubSeq(word, 1, Len(word) - Len(rule.suffix)) \o rule.replacement

Lemmatize(word) ==
  IF word \in DOMAIN Exceptions THEN Exceptions[word]
  ELSE IF InWordNet(word) THEN word
  ELSE LET hits == {i \in DOMAIN SuffixRules :
                      /\ EndsWith(word, SuffixRules[i].suffix)
                      /\ InWordNet(StripAndReplace(word, SuffixRules[i]))}
       IN  IF hits = {} THEN word
           ELSE StripAndReplace(word, SuffixRules[Min(hits)])

(* The words of a text, ready for the index or for a search.                *)
BaseForms(text) ==
  LET words == WithoutStopwords(Tokenize(text))
  IN  [i \in DOMAIN words |-> Lemmatize(words[i])]
=============================================================================
