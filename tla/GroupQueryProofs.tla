-------------------------- MODULE GroupQueryProofs --------------------------
(***************************************************************************)
(* Proofs about questions of changing groups, for any number of groups,    *)
(* documents, ingests, removals and questions: types and references, the   *)
(* cached summary of a growing group, answers that stay in their group, and*)
(* the sources shown with an answer.                                       *)
(***************************************************************************)
EXTENDS GroupQuery, FiniteSetTheorems, TLAPS

-----------------------------------------------------------------------------
(* The inductive invariant.                                                 *)

(* The tables refer to what exists, and a group's index holds documents the *)
(* group has had, of which there are finitely many.                         *)
TablesAreSound ==
  /\ corpora \subseteq issued /\ issued \subseteq Groups
  /\ live = [g \in Groups |-> live[g]]
  /\ \A g \in Groups :
       /\ IsInjective(live[g].passages) /\ IsInjective(live[g].terms)
       /\ AllDocuments(live[g]) \subseteq held[g]
  /\ held \in [Groups -> SUBSET Document]
  /\ \A g \in Groups : IsFiniteSet(held[g])
  /\ active \in corpora \union {NoGroup}
  /\ ingest = NoIngest \/ (ingest.group \in corpora /\ ingest.brings \subseteq Uploads)
  /\ ingest.group \in corpora \union {NoGroup}

(* A summary of a group that has only grown was made from documents the     *)
(* group still has, and some of them -- those that were counted -- are as   *)
(* many as it is cached under.                                              *)
SummariesAreSound ==
  /\ summaries \subseteq [group : corpora, count : Nat, of : SUBSET Document]
  /\ \A r, s \in summaries : r.group = s.group => r = s
  /\ \A r \in summaries : r.of \subseteq held[r.group]
  /\ \A r \in summaries :
       r.group \notin shrunk =>
         /\ r.of \subseteq AllDocuments(live[r.group])
         /\ \E C \in SUBSET r.of : Cardinality(C) = r.count

QueryHasItsFields ==
  /\ query = [at |-> query.at, group |-> query.group, retry |-> query.retry,
              terms |-> query.terms, term |-> query.term, hits |-> query.hits,
              todo |-> query.todo, read |-> query.read, stands |-> query.stands,
              shown |-> query.shown, tool |-> query.tool,
              count |-> query.count, fromCache |-> query.fromCache,
              counted |-> query.counted, disturbed |-> query.disturbed]
  /\ query.at \in Stations
  /\ query.fromCache \in BOOLEAN
  /\ query.at # "idle" => query.group \in issued
  /\ query.group # NoGroup => query.group \in issued

(* A question whose group exists has read and shows what the group has had, *)
(* in the run that stands meanwhile, too.                                   *)
QueryStaysInItsGroup ==
  /\ (query.group # NoGroup /\ "deletion" \notin query.disturbed) =>
        query.group \in corpora
  /\ query.group \in corpora =>
        /\ query.read \subseteq held[query.group]
        /\ query.stands.read \subseteq held[query.group]
        /\ query.shown \subseteq held[query.group]

(* Between the count and the summary, the documents counted are still there *)
(* in a group that has only grown; a cached summary is of no others, since  *)
(* it was stored before they were counted.                                  *)
Counting == {"cached", "build", "store"}

CountIsSound ==
  /\ (query.at \in Counting /\ query.group \in corpora) =>
       /\ IsFiniteSet(query.counted)
       /\ query.count = Cardinality(query.counted)
       /\ query.group \notin shrunk =>
            query.counted \subseteq AllDocuments(live[query.group])
  /\ (query.at = "store" /\ query.group \in corpora /\ query.group \notin shrunk) =>
       /\ query.counted \subseteq query.read
       /\ query.read \subseteq AllDocuments(live[query.group])
  /\ (query.at = "cached" /\ query.group \notin shrunk) =>
       \A r \in summaries : r.group = query.group => r.of \subseteq query.counted
  /\ query.fromCache =>
       /\ query.at \in {"summarise", "listing", "done"}
       /\ query.group \notin shrunk => query.read = query.counted

GroupInv ==
  /\ TablesAreSound
  /\ SummariesAreSound
  /\ QueryHasItsFields
  /\ QueryStaysInItsGroup
  /\ CountIsSound
-----------------------------------------------------------------------------
(* Lemmas about the operators of the model.                                 *)

(* A schema as the loader leaves it holds exactly the documents it was      *)
(* loaded with, each under one number.                                      *)
LEMMA LoadedIsWhole ==
  ASSUME NEW S, IsFiniteSet(S), NEW s \in Loaded(S)
  PROVE  /\ AllDocuments(s) = S
         /\ IsInjective(s.passages) /\ IsInjective(s.terms)
<1> DEFINE N == 1 .. Cardinality(S)
<1>1. s.passages \in Numbering(S) /\ s.terms \in Numbering(IndexedTerms(S))
  BY DEF Loaded
<1>2. IsInjective(s.passages) /\ IsInjective(s.terms)
  BY <1>1 DEF Numbering, IsInjective
<1>3. s.passages \in Injection(N, S)
  BY <1>1, <1>2 DEF Numbering, Injection
<1>4. IsFiniteSet(N) /\ Cardinality(N) = Cardinality(S)
  <2>1. Cardinality(S) \in Nat
    BY FS_CardinalityType
  <2>2. QED BY <2>1, FS_Interval
<1>5. s.passages \in Surjection(N, S)
  BY <1>3, <1>4, FS_Injection
<1>6. Range(s.passages) = S
  BY <1>5 DEF Surjection, Range
<1>7. QED BY <1>2, <1>6 DEF AllDocuments

(* A removal keeps the numbers of the documents that stay.                  *)
LEMMA RemovalKeepsNumbers ==
  ASSUME NEW s, NEW n, IsInjective(s.passages), IsInjective(s.terms)
  PROVE  LET left == WithoutDocument(s, n)
         IN  /\ AllDocuments(left) \subseteq AllDocuments(s)
             /\ IsInjective(left.passages) /\ IsInjective(left.terms)
  BY DEF WithoutDocument, AllDocuments, Range, Restrict, IsInjective

(* An empty schema holds nothing.                                           *)
LEMMA EmptyIsEmpty ==
  /\ AllDocuments(EmptySchema) = {}
  /\ IsInjective(EmptySchema.passages) /\ IsInjective(EmptySchema.terms)
  BY DEF EmptySchema, AllDocuments, Range, IsInjective

(* A passage that loads is one of the schema's.                             *)
LEMMA PassageIsStored ==
  ASSUME NEW s, NEW i
  PROVE  Passage(s, i) \subseteq AllDocuments(s)
  BY DEF Passage, AllDocuments, Range

(* What a group holds is a finite set of documents.                         *)
LEMMA IndexIsFinite ==
  ASSUME TablesAreSound, NEW g \in Groups
  PROVE  /\ IsFiniteSet(AllDocuments(live[g]))
         /\ AllDocuments(live[g]) \subseteq Document
         /\ Cardinality(AllDocuments(live[g])) \in Nat
<1>1. IsFiniteSet(held[g]) /\ AllDocuments(live[g]) \in SUBSET held[g]
  BY DEF TablesAreSound
<1>2. IsFiniteSet(AllDocuments(live[g]))
  BY <1>1, FS_Subset
<1>3. AllDocuments(live[g]) \subseteq Document
  BY DEF TablesAreSound
<1>4. QED BY <1>2, <1>3, FS_CardinalityType

-----------------------------------------------------------------------------
(* Initially there are no groups and no question.                           *)
LEMMA InitSound == Init => GroupInv
<1> SUFFICES ASSUME Init PROVE GroupInv
  OBVIOUS
<1> USE GroupQueryAssumption
<1>1. TablesAreSound
  <2>1. \A g \in Groups : IsFiniteSet(held[g])
    BY FS_EmptySet DEF Init
  <2>2. QED BY <2>1, EmptyIsEmpty DEF Init, TablesAreSound, NoIngest
<1>2. SummariesAreSound
  BY DEF Init, SummariesAreSound
<1>3. QueryHasItsFields
  BY DEF Init, QueryHasItsFields, Idle, Stations
<1>4. QueryStaysInItsGroup
  BY DEF Init, QueryStaysInItsGroup, Idle, NoRun
<1>5. CountIsSound
  BY DEF Init, CountIsSound, Idle, Counting
<1>6. QED BY <1>1, <1>2, <1>3, <1>4, <1>5 DEF GroupInv
-----------------------------------------------------------------------------
(* Steps of the query worker.                                               *)

(* The tables and everything else that is not the worker's stay.            *)
LEMMA WorkerKeepsTables ==
  ASSUME TablesAreSound, Keep
  PROVE  TablesAreSound'
  BY DEF TablesAreSound, Keep, AllDocuments, NoIngest, historyVars

LEMMA WorkerKeepsSummaries ==
  ASSUME SummariesAreSound, Keep, UNCHANGED summaries
  PROVE  SummariesAreSound'
  BY DEF SummariesAreSound, Keep, AllDocuments, historyVars

(* The group of a question is met in its own tables as long as it exists.   *)
LEMMA GroupIsMet ==
  ASSUME TablesAreSound, query.group \in corpora
  PROVE  /\ query.group \in Groups
         /\ Schema(query.group) = live[query.group]
         /\ AllDocuments(Schema(query.group)) \subseteq held[query.group]
         /\ AllDocuments(Schema(query.group)) = AllDocuments(live[query.group])
  BY DEF TablesAreSound, Schema

(* A step of the worker outside of the counting, which reads and shows no   *)
(* more than its group holds at that instant.                               *)
LEMMA QuietStep ==
  ASSUME GroupInv,
         Keep, UNCHANGED summaries,
         QueryHasItsFields',
         query'.group = query.group, query'.disturbed = query.disturbed,
         query'.at \notin Counting,
         query'.fromCache =>
           /\ query.fromCache /\ query'.at \in {"summarise", "listing", "done"}
           /\ query'.read = query.read /\ query'.counted = query.counted,
         query'.read \subseteq query.read \union query.stands.read
                                \union AllDocuments(Schema(query.group)),
         query'.stands.read \subseteq query.read \union query.stands.read,
         query'.shown \subseteq query.shown \union AllDocuments(Schema(query.group))
  PROVE  GroupInv'
<1>1. TablesAreSound'
  BY WorkerKeepsTables DEF GroupInv
<1>2. SummariesAreSound'
  BY WorkerKeepsSummaries DEF GroupInv
<1>3. QueryStaysInItsGroup'
  <2>1. corpora' = corpora /\ held' = held
    BY DEF Keep, historyVars
  <2>2. query.group \in corpora =>
          AllDocuments(Schema(query.group)) \subseteq held[query.group]
    BY GroupIsMet DEF GroupInv
  <2>3. QED BY <2>1, <2>2 DEF GroupInv, QueryStaysInItsGroup
<1>4. CountIsSound'
  <2>1. shrunk' = shrunk
    BY DEF Keep, historyVars
  <2>2. QED BY <2>1 DEF GroupInv, CountIsSound, Counting
<1>5. QED BY <1>1, <1>2, <1>3, <1>4 DEF GroupInv

(* Outside of the last stations nothing comes from the cache.               *)
LEMMA CacheIsServedLast ==
  ASSUME GroupInv, query.at \notin {"summarise", "listing", "done"}
  PROVE  query.fromCache = FALSE
  BY DEF GroupInv, CountIsSound, QueryHasItsFields

(* The worker ends, with an answer or without one, or leaves the search.    *)
LEMMA LeavingSound ==
  ASSUME GroupInv, query.at # "idle", Keep, UNCHANGED summaries,
         query' \in {Over, Failed}
           \/ (query' = RefusalIsLeft
                 /\ query.at \notin {"summarise", "listing", "done"})
  PROVE  GroupInv'
<1>1. QueryHasItsFields
  BY DEF GroupInv
<1>2. QueryHasItsFields'
  <2>1. CASE query' = Over
    BY <1>1, <2>1 DEF QueryHasItsFields, Stations, Keep, Over
  <2>2. CASE query' = Failed
    BY <1>1, <2>2 DEF QueryHasItsFields, Stations, Keep, Over, Failed
  <2>3. CASE query' = RefusalIsLeft
    BY <1>1, <2>3 DEF QueryHasItsFields, Stations, Keep, RefusalIsLeft
  <2>4. QED BY <2>1, <2>2, <2>3
<1>3. /\ query'.group = query.group /\ query'.disturbed = query.disturbed
      /\ query'.read = query.read /\ query'.shown = query.shown
      /\ query'.stands = NoRun /\ query'.counted = query.counted
      /\ query'.fromCache = query.fromCache
      /\ query'.at \in {"done", "fallback"}
      /\ query'.at = "fallback" => query.at \notin {"summarise", "listing", "done"}
  <2>1. CASE query' = Over
    BY <1>1, <2>1 DEF QueryHasItsFields, Over
  <2>2. CASE query' = Failed
    BY <1>1, <2>2 DEF QueryHasItsFields, Over, Failed
  <2>3. CASE query' = RefusalIsLeft
    <3>1. query'.at = "fallback"
      BY <1>1, <2>3 DEF QueryHasItsFields, RefusalIsLeft
    <3>2. query.at \notin {"summarise", "listing", "done"}
      <4>1. ASSUME query' \in {Over, Failed} PROVE FALSE
        BY <1>1, <3>1, <4>1 DEF QueryHasItsFields, Over, Failed
      <4>2. QED BY <4>1
    <3>3. QED BY <1>1, <2>3, <3>2 DEF QueryHasItsFields, RefusalIsLeft
  <2>4. QED BY <2>1, <2>2, <2>3
<1>4. NoRun.read = {}
  BY DEF NoRun
<1>5. query'.fromCache => query'.at \in {"summarise", "listing", "done"}
  BY <1>3, CacheIsServedLast
<1>6. QED BY <1>2, <1>3, <1>4, <1>5, QuietStep DEF Counting

(* The search and the reading of documents.                                 *)
LEMMA SearchSound ==
  ASSUME GroupInv,
         \/ \E t \in Terms : LookUp(t)
         \/ ReadPostings
         \/ SearchIsOver \/ SearchFails
         \/ \E i \in 1 .. Cardinality(Names) : BuildPrompt(i) \/ CollectSource(i)
         \/ Answers \/ Refuses \/ FindsNoAnswer
  PROVE  GroupInv'
<1> USE DEF QueryOnly, Worker
<1>1. QueryHasItsFields
  BY DEF GroupInv
<1>2. CASE \E t \in Terms : LookUp(t)
  <2>1. PICK t \in Terms : LookUp(t)
    BY <1>2
  <2>2. query.at = "lookup" /\ query'.at \in {"lookup", "postings"}
    BY <1>1, <2>1 DEF LookUp, QueryHasItsFields
  <2>3. QueryHasItsFields'
    <3>1. issued' = issued
      BY <2>1 DEF LookUp, Keep
    <3>2. CASE LookupTerm(Schema(query.group), t) = {}
      <4>1. query' = [query EXCEPT !.terms = @ \ {t}]
        BY <2>1, <3>2 DEF LookUp
      <4>2. QED BY <1>1, <3>1, <4>1 DEF QueryHasItsFields
    <3>3. CASE LookupTerm(Schema(query.group), t) # {}
      <4>1. PICK id : query' = [query EXCEPT !.at = "postings", !.terms = @ \ {t},
                                            !.term = id]
        BY <2>1, <3>3 DEF LookUp
      <4>2. QED BY <1>1, <2>2, <3>1, <4>1 DEF QueryHasItsFields, Stations
    <3>4. QED BY <3>2, <3>3
  <2>4. QED BY <1>1, <2>1, <2>2, <2>3, QuietStep, CacheIsServedLast
         DEF LookUp, QueryHasItsFields, Counting
<1>3. CASE ReadPostings
  <2>1. query.at = "postings" /\ query'.at = "lookup"
    BY <1>1, <1>3 DEF ReadPostings, QueryHasItsFields
  <2>2. QueryHasItsFields'
    BY <1>1, <1>3 DEF ReadPostings, QueryHasItsFields, Stations, Keep
  <2>3. QED BY <1>1, <1>3, <2>1, <2>2, QuietStep, CacheIsServedLast
         DEF ReadPostings, QueryHasItsFields, Counting
<1>4. CASE SearchIsOver
  <2>1. query.at = "lookup" /\ Keep /\ UNCHANGED summaries
    BY <1>4 DEF SearchIsOver
  <2>2. \/ query' = RefusalIsLeft
        \/ \E kept : query' = [query EXCEPT !.at = "prompt", !.hits = kept, !.todo = kept]
    BY <1>4 DEF SearchIsOver
  <2>3. CASE query' = RefusalIsLeft
    BY <2>1, <2>3, LeavingSound
  <2>4. CASE \E kept : query' = [query EXCEPT !.at = "prompt", !.hits = kept, !.todo = kept]
    <3>1. PICK kept : query' = [query EXCEPT !.at = "prompt", !.hits = kept, !.todo = kept]
      BY <2>4
    <3>2. QueryHasItsFields'
      BY <1>1, <2>1, <3>1 DEF QueryHasItsFields, Stations, Keep
    <3>3. /\ query'.at = "prompt" /\ query'.group = query.group
          /\ query'.disturbed = query.disturbed /\ query'.fromCache = query.fromCache
          /\ query'.read = query.read /\ query'.stands = query.stands
          /\ query'.shown = query.shown
      BY <1>1, <3>1 DEF QueryHasItsFields
    <3>4. QED BY <2>1, <3>2, <3>3, QuietStep, CacheIsServedLast DEF Counting
  <2>5. QED BY <2>2, <2>3, <2>4
<1>5. CASE \E i \in 1 .. Cardinality(Names) : BuildPrompt(i)
  <2>1. PICK i \in 1 .. Cardinality(Names) : BuildPrompt(i)
    BY <1>5
  <2> DEFINE rest == query.todo \ {i}
             read == query.read \union Passage(Schema(query.group), i)
  <2>2. query.at = "prompt" /\ Keep /\ UNCHANGED summaries
    BY <2>1 DEF BuildPrompt
  <2>3. \/ query' \in {RefusalIsLeft, Failed}
        \/ query' = [query EXCEPT !.todo = rest, !.read = read,
                                  !.at = IF rest = {} THEN "generate" ELSE "prompt"]
    BY <2>1 DEF BuildPrompt
  <2>4. CASE query' \in {RefusalIsLeft, Failed}
    BY <2>2, <2>4, LeavingSound
  <2>5. CASE query' = [query EXCEPT !.todo = rest, !.read = read,
                                    !.at = IF rest = {} THEN "generate" ELSE "prompt"]
    <3> HIDE DEF rest, read
    <3>1. QueryHasItsFields'
      BY <1>1, <2>2, <2>5 DEF QueryHasItsFields, Stations, Keep
    <3>2. /\ query'.at \in {"prompt", "generate"} /\ query'.group = query.group
          /\ query'.disturbed = query.disturbed /\ query'.fromCache = query.fromCache
          /\ query'.read = read /\ query'.stands = query.stands
          /\ query'.shown = query.shown
      BY <1>1, <2>5 DEF QueryHasItsFields
    <3>3. read \subseteq query.read \union AllDocuments(Schema(query.group))
      BY PassageIsStored DEF read
    <3>4. QED BY <2>2, <3>1, <3>2, <3>3, QuietStep, CacheIsServedLast DEF Counting
  <2>6. QED BY <2>3, <2>4, <2>5
<1>6. CASE \E i \in 1 .. Cardinality(Names) : CollectSource(i)
  <2>1. PICK i \in 1 .. Cardinality(Names) : CollectSource(i)
    BY <1>6
  <2> DEFINE rest == query.todo \ {i}
             shown == query.shown \union Passage(Schema(query.group), i)
  <2>2. query.at = "sources" /\ Keep /\ UNCHANGED summaries
    BY <2>1 DEF CollectSource
  <2>3. \/ query' = [query EXCEPT !.todo = rest, !.shown = shown]
        \/ query' = [query EXCEPT !.todo = rest, !.shown = shown, !.at = "done", !.hits = {}]
    BY <1>1, <2>1 DEF CollectSource, QueryHasItsFields
  <2> HIDE DEF rest, shown
  <2>4. QueryHasItsFields'
    BY <1>1, <2>2, <2>3 DEF QueryHasItsFields, Stations, Keep
  <2>5. /\ query'.at \in {"sources", "done"} /\ query'.group = query.group
        /\ query'.disturbed = query.disturbed /\ query'.fromCache = query.fromCache
        /\ query'.read = query.read /\ query'.stands = query.stands
        /\ query'.shown = shown
    BY <1>1, <2>2, <2>3 DEF QueryHasItsFields
  <2>6. shown \subseteq query.shown \union AllDocuments(Schema(query.group))
    BY PassageIsStored DEF shown
  <2>7. QED BY <2>2, <2>4, <2>5, <2>6, QuietStep, CacheIsServedLast DEF Counting
<1>7. CASE Answers
  <2>1. query.at = "generate" /\ query'.at = "sources"
    BY <1>1, <1>7 DEF Answers, QueryHasItsFields
  <2>2. QueryHasItsFields'
    BY <1>1, <1>7 DEF Answers, QueryHasItsFields, Stations, Keep
  <2>3. QED BY <1>1, <1>7, <2>1, <2>2, QuietStep, CacheIsServedLast
         DEF Answers, QueryHasItsFields, Counting, NoRun
<1>8. CASE Refuses
  <2> DEFINE refused == [hits |-> query.hits, read |-> query.read]
  <2>1. query.at = "generate" /\ Keep /\ UNCHANGED summaries
    BY <1>8 DEF Refuses
  <2>2. \/ query' = [query EXCEPT !.at = "fallback", !.stands = refused]
        \/ query' = [query EXCEPT !.at = "lookup", !.terms = Question,
                                  !.hits = {}, !.read = {}, !.stands = refused]
    BY <1>8 DEF Refuses
  <2>3. refused.read = query.read
    OBVIOUS
  <2> HIDE DEF refused
  <2>4. QueryHasItsFields'
    BY <1>1, <2>1, <2>2 DEF QueryHasItsFields, Stations, Keep
  <2>5. /\ query'.at \in {"fallback", "lookup"} /\ query'.group = query.group
        /\ query'.disturbed = query.disturbed /\ query'.fromCache = query.fromCache
        /\ query'.read \subseteq query.read /\ query'.stands = refused
        /\ query'.shown = query.shown
    BY <1>1, <2>2 DEF QueryHasItsFields
  <2>6. QED BY <2>1, <2>3, <2>4, <2>5, QuietStep, CacheIsServedLast DEF Counting
<1>9. CASE FindsNoAnswer \/ SearchFails
  BY <1>9, LeavingSound DEF FindsNoAnswer, SearchFails
<1>10. QED BY <1>2, <1>3, <1>4, <1>5, <1>6, <1>7, <1>8, <1>9
(* The choice of a tool, the reading of whole documents and the answer from *)
(* a summary.                                                               *)
LEMMA ReadingSound ==
  ASSUME GroupInv,
         \/ UseCorpus \/ SearchFallback \/ ReadDocuments \/ CollectDocuments
         \/ AnswerFromSummary \/ ListDocuments \/ Decline
  PROVE  GroupInv'
<1> USE DEF QueryOnly, Worker
<1>1. QueryHasItsFields
  BY DEF GroupInv
<1>2. CASE UseCorpus
  <2>1. query.at = "open" /\ Keep /\ UNCHANGED summaries
    BY <1>2 DEF UseCorpus
  <2>2. \/ query' = Over
        \/ query' = [query EXCEPT !.at = "lookup", !.tool = "search", !.terms = Question]
        \/ query' = [query EXCEPT !.at = "count", !.tool = "summary"]
    BY <1>2 DEF UseCorpus
  <2>3. CASE query' = Over
    BY <2>1, <2>3, LeavingSound
  <2>4. CASE \/ query' = [query EXCEPT !.at = "lookup", !.tool = "search",
                                      !.terms = Question]
             \/ query' = [query EXCEPT !.at = "count", !.tool = "summary"]
    <3>1. QueryHasItsFields'
      BY <1>1, <2>1, <2>4 DEF QueryHasItsFields, Stations, Keep
    <3>2. /\ query'.at \in {"lookup", "count"} /\ query'.group = query.group
          /\ query'.disturbed = query.disturbed /\ query'.fromCache = query.fromCache
          /\ query'.read = query.read /\ query'.stands = query.stands
          /\ query'.shown = query.shown
      BY <1>1, <2>4 DEF QueryHasItsFields
    <3>3. QED BY <2>1, <3>1, <3>2, QuietStep, CacheIsServedLast DEF Counting
  <2>5. QED BY <2>2, <2>3, <2>4
<1>3. CASE SearchFallback
  <2>1. query.at = "fallback" /\ query'.at \in {"count", "read"}
    BY <1>1, <1>3 DEF SearchFallback, QueryHasItsFields
  <2>2. QueryHasItsFields'
    <3>1. \/ query' = [query EXCEPT !.at = "count", !.tool = "summary", !.retry = FALSE]
          \/ query' = [query EXCEPT !.at = "read", !.tool = "read"]
      BY <1>3 DEF SearchFallback
    <3>2. issued' = issued
      BY <1>3 DEF SearchFallback, Keep
    <3>3. QED BY <1>1, <2>1, <3>1, <3>2 DEF QueryHasItsFields, Stations
  <2>3. QED BY <1>1, <1>3, <2>1, <2>2, QuietStep, CacheIsServedLast
         DEF SearchFallback, QueryHasItsFields, Counting
<1>4. CASE ReadDocuments
  <2> DEFINE docs == AllDocuments(Schema(query.group))
  <2>1. query.at = "read" /\ Keep /\ UNCHANGED summaries
    BY <1>4 DEF ReadDocuments
  <2>2. \/ query' = Failed
        \/ query' = [query EXCEPT !.at = "readSources", !.read = docs]
        \/ query' = [query EXCEPT !.at = "count", !.tool = "summary"]
    BY <1>4 DEF ReadDocuments
  <2>3. CASE query' = Failed
    BY <2>1, <2>3, LeavingSound
  <2>4. CASE \/ query' = [query EXCEPT !.at = "readSources", !.read = docs]
             \/ query' = [query EXCEPT !.at = "count", !.tool = "summary"]
    <3> HIDE DEF docs
    <3>1. QueryHasItsFields'
      BY <1>1, <2>1, <2>4 DEF QueryHasItsFields, Stations, Keep
    <3>2. /\ query'.at \in {"readSources", "count"} /\ query'.group = query.group
          /\ query'.disturbed = query.disturbed /\ query'.fromCache = query.fromCache
          /\ query'.read \in {docs, query.read} /\ query'.stands = query.stands
          /\ query'.shown = query.shown
      BY <1>1, <2>4 DEF QueryHasItsFields
    <3>3. QED BY <2>1, <3>1, <3>2, QuietStep, CacheIsServedLast DEF Counting, docs
  <2>5. QED BY <2>2, <2>3, <2>4
<1>5. CASE CollectDocuments \/ ListDocuments
  <2> DEFINE docs == AllDocuments(Schema(query.group))
  <2>1. query.at \in {"readSources", "listing"} /\ Keep /\ UNCHANGED summaries
    BY <1>5 DEF CollectDocuments, ListDocuments
  <2>2. query' = [query EXCEPT !.at = "done", !.retry = FALSE, !.hits = {},
                               !.stands = NoRun, !.shown = docs]
    BY <1>1, <1>5 DEF CollectDocuments, ListDocuments, Over, QueryHasItsFields
  <2> HIDE DEF docs
  <2>3. QueryHasItsFields'
    BY <1>1, <2>1, <2>2 DEF QueryHasItsFields, Stations, Keep
  <2>4. /\ query'.at = "done" /\ query'.group = query.group
        /\ query'.disturbed = query.disturbed /\ query'.fromCache = query.fromCache
        /\ query'.read = query.read /\ query'.stands = NoRun
        /\ query'.counted = query.counted /\ query'.shown = docs
    BY <1>1, <2>2 DEF QueryHasItsFields
  <2>5. NoRun.read = {}
    BY DEF NoRun
  <2>6. QED BY <2>1, <2>3, <2>4, <2>5, QuietStep DEF Counting, docs
<1>6. CASE AnswerFromSummary
  <2>1. query.at = "summarise" /\ Keep /\ UNCHANGED summaries
    BY <1>6 DEF AnswerFromSummary
  <2>2. query' = Failed \/ query' = [query EXCEPT !.at = "listing"]
    BY <1>6 DEF AnswerFromSummary
  <2>3. CASE query' = Failed
    BY <2>1, <2>3, LeavingSound
  <2>4. CASE query' = [query EXCEPT !.at = "listing"]
    <3>1. QueryHasItsFields'
      BY <1>1, <2>1, <2>4 DEF QueryHasItsFields, Stations, Keep
    <3>2. QED BY <1>1, <2>1, <2>4, <3>1, QuietStep DEF QueryHasItsFields, Counting
  <2>5. QED BY <2>2, <2>3, <2>4
<1>7. CASE Decline
  <2>1. query.at \in {"readSources", "listing"} /\ Keep /\ UNCHANGED summaries
    BY <1>7 DEF Decline
  <2>2. \/ query' = Failed
        \/ query' = [query EXCEPT !.at = "sources", !.tool = "search",
                                  !.hits = query.stands.hits,
                                  !.todo = query.stands.hits,
                                  !.read = query.stands.read,
                                  !.stands = NoRun, !.retry = FALSE,
                                  !.fromCache = FALSE, !.counted = {}]
    BY <1>7 DEF Decline
  <2>3. CASE query' = Failed
    BY <2>1, <2>3, LeavingSound
  <2>4. CASE query' = [query EXCEPT !.at = "sources", !.tool = "search",
                                    !.hits = query.stands.hits,
                                    !.todo = query.stands.hits,
                                    !.read = query.stands.read,
                                    !.stands = NoRun, !.retry = FALSE,
                                    !.fromCache = FALSE, !.counted = {}]
    <3>1. QueryHasItsFields'
      BY <1>1, <2>1, <2>4 DEF QueryHasItsFields, Stations, Keep
    <3>2. /\ query'.at = "sources" /\ query'.group = query.group
          /\ query'.disturbed = query.disturbed /\ query'.fromCache = FALSE
          /\ query'.read = query.stands.read /\ query'.stands = NoRun
          /\ query'.shown = query.shown
      BY <1>1, <2>4 DEF QueryHasItsFields
    <3>3. NoRun.read = {}
      BY DEF NoRun
    <3>4. QED BY <2>1, <3>1, <3>2, <3>3, QuietStep DEF Counting
  <2>5. QED BY <2>2, <2>3, <2>4
<1>8. QED BY <1>2, <1>3, <1>4, <1>5, <1>6, <1>7

(* The documents are counted: a summary that is cached for them describes   *)
(* none that the group has not got, for a group that has only grown.        *)
LEMMA CountSound ==
  ASSUME GroupInv, CountDocuments
  PROVE  GroupInv'
<1> DEFINE g == query.group
           docs == AllDocuments(Schema(g))
<1>1. query.at = "count" /\ Keep /\ UNCHANGED summaries
  BY DEF CountDocuments, QueryOnly, Worker
<1>2. \/ query' = Over
      \/ query' = [query EXCEPT !.at = "cached", !.count = Cardinality(docs),
                                !.counted = docs]
  BY DEF CountDocuments, QueryOnly, Worker
<1>3. CASE query' = Over
  BY <1>1, <1>3, LeavingSound
<1>4. CASE query' = [query EXCEPT !.at = "cached", !.count = Cardinality(docs),
                                  !.counted = docs]
  <2>1. TablesAreSound' /\ SummariesAreSound'
    BY <1>1, WorkerKeepsTables, WorkerKeepsSummaries DEF GroupInv
  <2>2. QueryHasItsFields'
    BY <1>1, <1>4 DEF GroupInv, QueryHasItsFields, Stations, Keep
  <2>3. /\ query'.at = "cached" /\ query'.group = g
        /\ query'.read = query.read /\ query'.shown = query.shown
        /\ query'.stands = query.stands
        /\ query'.disturbed = query.disturbed
        /\ query'.fromCache = query.fromCache
        /\ query'.counted = docs /\ query'.count = Cardinality(docs)
    BY <1>4 DEF GroupInv, QueryHasItsFields
  <2>4. /\ corpora' = corpora /\ held' = held /\ shrunk' = shrunk /\ live' = live
        /\ summaries' = summaries
    BY <1>1 DEF Keep, historyVars
  <2>5. QueryStaysInItsGroup'
    BY <2>3, <2>4 DEF GroupInv, QueryStaysInItsGroup
  <2>6. CountIsSound'
    <3>1. query'.fromCache = FALSE
      BY <1>1, <2>3, CacheIsServedLast
    <3>2. g \in corpora => IsFiniteSet(docs) /\ docs = AllDocuments(live[g])
      BY GroupIsMet, IndexIsFinite DEF GroupInv
    <3>3. \A r \in summaries : r.group = g /\ g \notin shrunk => r.of \subseteq docs
      BY <3>2 DEF GroupInv, SummariesAreSound
    <3>4. AllDocuments(live[g])' = AllDocuments(live[g])
      BY <2>3, <2>4 DEF AllDocuments
    <3>5. QED BY <2>3, <2>4, <3>1, <3>2, <3>3, <3>4 DEF CountIsSound, Counting
  <2>7. QED BY <2>1, <2>2, <2>5, <2>6 DEF GroupInv
<1>5. QED BY <1>2, <1>3, <1>4

(* A summary served from the cache is of exactly the documents counted, in  *)
(* a group that has only grown: it is of no others, and those it was cached *)
(* for, as many, are among them.                                            *)
LEMMA ServeSound ==
  ASSUME GroupInv, GetCorpusSummary
  PROVE  GroupInv'
<1> DEFINE g == query.group
           rows == {r \in summaries : r.group = g /\ CachedIsCurrent(r, query.count)}
<1>1. TablesAreSound' /\ SummariesAreSound'
  BY WorkerKeepsTables, WorkerKeepsSummaries
     DEF GroupInv, GetCorpusSummary, QueryOnly, Worker
<1>2. query.at = "cached" /\ Keep /\ UNCHANGED summaries
  BY DEF GetCorpusSummary, QueryOnly, Worker
<1>3. /\ corpora' = corpora /\ held' = held /\ shrunk' = shrunk /\ live' = live
      /\ summaries' = summaries /\ issued' = issued
  BY <1>2 DEF Keep, historyVars
<1>4. QueryHasItsFields /\ query.fromCache = FALSE
  BY <1>2, CacheIsServedLast DEF GroupInv
<1>5. CASE rows = {}
  <2>1. query' = [query EXCEPT !.at = "build"]
    BY <1>5 DEF GetCorpusSummary, QueryOnly, Worker
  <2>2. QueryHasItsFields'
    BY <1>2, <1>3, <1>4, <2>1 DEF QueryHasItsFields, Stations
  <2>3. /\ query'.at = "build" /\ query'.group = g
        /\ query'.read = query.read /\ query'.shown = query.shown
        /\ query'.stands = query.stands
        /\ query'.disturbed = query.disturbed /\ query'.fromCache = FALSE
        /\ query'.counted = query.counted /\ query'.count = query.count
    BY <1>4, <2>1 DEF QueryHasItsFields
  <2>4. QueryStaysInItsGroup'
    BY <1>3, <2>3 DEF GroupInv, QueryStaysInItsGroup
  <2>5. CountIsSound'
    BY <1>2, <1>3, <2>3 DEF GroupInv, CountIsSound, Counting
  <2>6. QED BY <1>1, <2>2, <2>4, <2>5 DEF GroupInv
<1>6. CASE rows # {}
  <2>1. PICK r \in rows :
          query' = [query EXCEPT !.at = "summarise", !.fromCache = TRUE, !.read = r.of]
    BY <1>6 DEF GetCorpusSummary, QueryOnly, Worker
  <2>2. /\ r \in summaries /\ r.group = g /\ r.count = query.count
        /\ g \in corpora /\ r.of \subseteq Document
    BY <2>1 DEF GroupInv, SummariesAreSound, CachedIsCurrent
  <2>3. QueryHasItsFields'
    BY <1>2, <1>3, <1>4, <2>1 DEF QueryHasItsFields, Stations
  <2>4. /\ query'.at = "summarise" /\ query'.group = g
        /\ query'.read = r.of /\ query'.shown = query.shown
        /\ query'.stands = query.stands
        /\ query'.disturbed = query.disturbed
        /\ query'.counted = query.counted
    BY <1>4, <2>1 DEF QueryHasItsFields
  <2>5. g \notin shrunk => r.of = query.counted
    <3>1. SUFFICES ASSUME g \notin shrunk PROVE r.of = query.counted
      OBVIOUS
    <3>2. r.of \subseteq query.counted
      BY <1>2, <2>2, <3>1 DEF GroupInv, CountIsSound
    <3>3. IsFiniteSet(query.counted) /\ Cardinality(query.counted) = r.count
      BY <1>2, <2>2 DEF GroupInv, CountIsSound, Counting
    <3>4. PICK C \in SUBSET r.of : Cardinality(C) = r.count
      BY <2>2, <3>1 DEF GroupInv, SummariesAreSound
    <3>5. C = query.counted
      BY <3>2, <3>3, <3>4, FS_Subset
    <3>6. QED BY <3>2, <3>4, <3>5
  <2>6. QueryStaysInItsGroup'
    BY <1>3, <2>2, <2>4 DEF GroupInv, QueryStaysInItsGroup, SummariesAreSound, TablesAreSound
  <2>7. CountIsSound'
    BY <1>3, <2>4, <2>5 DEF CountIsSound, Counting
  <2>8. QED BY <1>1, <2>3, <2>6, <2>7 DEF GroupInv
<1>7. QED BY <1>5, <1>6
(* The documents are read for a summary: those that were counted are still  *)
(* among them, in a group that has only grown.                              *)
LEMMA BuildSound ==
  ASSUME GroupInv, BuildSummary
  PROVE  GroupInv'
<1> DEFINE g == query.group
           docs == AllDocuments(Schema(g))
<1>1. TablesAreSound' /\ SummariesAreSound'
  BY WorkerKeepsTables, WorkerKeepsSummaries
     DEF GroupInv, BuildSummary, QueryOnly, Worker
<1>2. query.at = "build" /\ Keep /\ UNCHANGED summaries
  BY DEF BuildSummary, QueryOnly, Worker
<1>3. /\ corpora' = corpora /\ held' = held /\ shrunk' = shrunk /\ live' = live
      /\ summaries' = summaries /\ issued' = issued
  BY <1>2 DEF Keep, historyVars
<1>4. query' = Over \/ query' = [query EXCEPT !.at = "store", !.read = docs]
  BY DEF BuildSummary, QueryOnly, Worker
<1>5. CASE query' = Over
  BY <1>2, <1>5, LeavingSound
<1>6. CASE query' = [query EXCEPT !.at = "store", !.read = docs]
  <2>1. QueryHasItsFields /\ query.fromCache = FALSE
    BY <1>2, CacheIsServedLast DEF GroupInv
  <2>2. QueryHasItsFields'
    BY <1>2, <1>3, <1>6, <2>1 DEF QueryHasItsFields, Stations
  <2>3. /\ query'.at = "store" /\ query'.group = g
        /\ query'.read = docs /\ query'.shown = query.shown
        /\ query'.stands = query.stands
        /\ query'.disturbed = query.disturbed /\ query'.fromCache = FALSE
        /\ query'.counted = query.counted /\ query'.count = query.count
    BY <1>6, <2>1 DEF QueryHasItsFields
  <2>4. g \in corpora => docs \subseteq held[g] /\ docs = AllDocuments(live[g])
    BY GroupIsMet DEF GroupInv
  <2>5. QueryStaysInItsGroup'
    BY <1>3, <2>3, <2>4 DEF GroupInv, QueryStaysInItsGroup
  <2>6. CountIsSound'
    <3>1. AllDocuments(live[g])' = AllDocuments(live[g])
      BY <1>3, <2>3 DEF AllDocuments
    <3>2. QED BY <1>2, <1>3, <2>3, <2>4, <3>1 DEF GroupInv, CountIsSound, Counting
  <2>7. QED BY <1>1, <2>2, <2>5, <2>6 DEF GroupInv
<1>7. QED BY <1>4, <1>5, <1>6

(* A summary is stored for a group that exists, or not at all.              *)
LEMMA StoreSound ==
  ASSUME GroupInv, SetCorpusSummary
  PROVE  GroupInv'
<1> DEFINE g == query.group
           row == [group |-> g, count |-> query.count, of |-> query.read]
<1>1. TablesAreSound'
  BY WorkerKeepsTables DEF GroupInv, SetCorpusSummary, Worker
<1>2. /\ query.at = "store" /\ Keep
      /\ query' = [query EXCEPT !.at = "summarise"]
      /\ \/ g \in corpora /\ summaries' = {r \in summaries : r.group # g} \union {row}
         \/ summaries' = summaries
  BY DEF SetCorpusSummary, Worker
<1>3. /\ corpora' = corpora /\ held' = held /\ shrunk' = shrunk /\ live' = live
      /\ issued' = issued
  BY <1>2 DEF Keep, historyVars
<1>4. SummariesAreSound'
  <2>1. CASE summaries' = summaries
    BY <1>3, <2>1 DEF GroupInv, SummariesAreSound, AllDocuments
  <2>2. CASE g \in corpora /\ summaries' = {r \in summaries : r.group # g} \union {row}
    <3>1. query.read \subseteq held[g] /\ held[g] \subseteq Document
      BY <2>2 DEF GroupInv, QueryStaysInItsGroup, TablesAreSound
    <3>2. IsFiniteSet(query.counted) /\ query.count = Cardinality(query.counted)
      BY <1>2, <2>2 DEF GroupInv, CountIsSound, Counting
    <3>3. query.count \in Nat
      BY <3>2, FS_CardinalityType
    <3>4. g \notin shrunk => /\ query.counted \subseteq query.read
                            /\ query.read \subseteq AllDocuments(live[g])
      BY <1>2, <2>2 DEF GroupInv, CountIsSound
    <3>5. row \in [group : corpora, count : Nat, of : SUBSET Document]
      BY <2>2, <3>1, <3>3
    <3>6. /\ summaries' \subseteq [group : corpora, count : Nat, of : SUBSET Document]
          /\ \A r, s \in summaries' : r.group = s.group => r = s
      BY <2>2, <3>5 DEF GroupInv, SummariesAreSound
    <3>7. ASSUME NEW r \in summaries'
          PROVE  /\ r.of \subseteq held[r.group]
                 /\ r.group \notin shrunk =>
                      /\ r.of \subseteq AllDocuments(live[r.group])
                      /\ \E C \in SUBSET r.of : Cardinality(C) = r.count
      <4>1. CASE r \in summaries
        BY <4>1 DEF GroupInv, SummariesAreSound
      <4>2. CASE r = row
        BY <3>1, <3>2, <3>4, <4>2
      <4>3. QED BY <2>2, <4>1, <4>2
    <3>8. QED BY <1>3, <3>6, <3>7 DEF SummariesAreSound, AllDocuments
  <2>3. QED BY <1>2, <2>1, <2>2
<1>5. QueryHasItsFields /\ query.fromCache = FALSE
  BY <1>2, CacheIsServedLast DEF GroupInv
<1>6. QueryHasItsFields'
  BY <1>2, <1>3, <1>5 DEF QueryHasItsFields, Stations
<1>7. /\ query'.at = "summarise" /\ query'.group = g
      /\ query'.read = query.read /\ query'.shown = query.shown
      /\ query'.stands = query.stands
      /\ query'.disturbed = query.disturbed /\ query'.fromCache = FALSE
  BY <1>2, <1>5 DEF QueryHasItsFields
<1>8. QueryStaysInItsGroup' /\ CountIsSound'
  BY <1>3, <1>7 DEF GroupInv, QueryStaysInItsGroup, CountIsSound, Counting
<1>9. QED BY <1>1, <1>4, <1>6, <1>8 DEF GroupInv
-----------------------------------------------------------------------------
(* Steps of the user and of the ingest worker.                              *)

(* A question is told what happened to its group, and nothing else changes. *)
LEMMA DisturbedQuestion ==
  ASSUME QueryHasItsFields, issued \subseteq issued',
         NEW g, NEW what, query' = Disturb(g, what)
  PROVE  /\ QueryHasItsFields'
         /\ query'.at = query.at /\ query'.group = query.group
         /\ query'.read = query.read /\ query'.shown = query.shown
         /\ query'.stands = query.stands
         /\ query'.count = query.count /\ query'.counted = query.counted
         /\ query'.fromCache = query.fromCache
         /\ query.disturbed \subseteq query'.disturbed
         /\ query.group = g => what \in query'.disturbed
<1>1. CASE query.group = g
  <2>1. query' = [query EXCEPT !.disturbed = @ \union {what}]
    BY <1>1 DEF Disturb
  <2>2. QED BY <1>1, <2>1 DEF QueryHasItsFields
<1>2. CASE query.group # g
  <2>1. query' = query
    BY <1>2 DEF Disturb
  <2>2. QED BY <1>2, <2>1 DEF QueryHasItsFields
<1>3. QED BY <1>1, <1>2

(* Groups come, go, grow, and lose documents on record: the summaries and   *)
(* the running question stay sound.                                         *)
LEMMA TablesChange ==
  ASSUME GroupInv, TablesAreSound', QueryHasItsFields',
         query'.at = query.at, query'.group = query.group,
         query'.read = query.read, query'.shown = query.shown,
         query'.stands = query.stands,
         query'.count = query.count, query'.counted = query.counted,
         query'.fromCache = query.fromCache,
         query.disturbed \subseteq query'.disturbed,
         (query.group \in corpora /\ "deletion" \notin query'.disturbed) =>
           query.group \in corpora',
         query.group \in corpora' => query.group \in corpora,
         summaries' = {r \in summaries : r.group \in corpora'},
         shrunk \subseteq shrunk',
         \A h \in corpora \intersect corpora' :
           /\ held[h] \subseteq held'[h]
           /\ h \notin shrunk' => AllDocuments(live[h]) \subseteq AllDocuments(live'[h])
  PROVE  GroupInv'
<1>1. SummariesAreSound'
  <2>1. \A r \in summaries' : r \in summaries /\ r.group \in corpora \intersect corpora'
    BY DEF GroupInv, SummariesAreSound
  <2>2. /\ summaries' \subseteq [group : corpora', count : Nat, of : SUBSET Document]
        /\ \A r, s \in summaries' : r.group = s.group => r = s
    BY DEF GroupInv, SummariesAreSound
  <2>3. \A r \in summaries' : r.of \subseteq held'[r.group]
    BY <2>1 DEF GroupInv, SummariesAreSound
  <2>4. \A r \in summaries' :
          r.group \notin shrunk' =>
            /\ r.of \subseteq AllDocuments(live'[r.group])
            /\ \E C \in SUBSET r.of : Cardinality(C) = r.count
    BY <2>1 DEF GroupInv, SummariesAreSound
  <2>5. QED BY <2>2, <2>3, <2>4 DEF SummariesAreSound, AllDocuments
<1>2. QueryStaysInItsGroup'
  BY DEF GroupInv, QueryStaysInItsGroup
<1>3. CountIsSound'
  <2>1. (query'.at \in Counting /\ query'.group \in corpora') =>
          /\ IsFiniteSet(query'.counted)
          /\ query'.count = Cardinality(query'.counted)
          /\ query'.group \notin shrunk' =>
               query'.counted \subseteq AllDocuments(live'[query'.group])
    BY DEF GroupInv, CountIsSound
  <2>2. (query'.at = "store" /\ query'.group \in corpora' /\ query'.group \notin shrunk') =>
          /\ query'.counted \subseteq query'.read
          /\ query'.read \subseteq AllDocuments(live'[query'.group])
    BY DEF GroupInv, CountIsSound
  <2>3. (query'.at = "cached" /\ query'.group \notin shrunk') =>
          \A r \in summaries' : r.group = query'.group => r.of \subseteq query'.counted
    BY DEF GroupInv, CountIsSound
  <2>4. query'.fromCache =>
          /\ query'.at \in {"summarise", "listing", "done"}
          /\ query'.group \notin shrunk' => query'.read = query'.counted
    BY DEF GroupInv, CountIsSound
  <2>5. QED BY <2>1, <2>2, <2>3, <2>4 DEF CountIsSound, Counting, AllDocuments
<1>4. QED BY <1>1, <1>2, <1>3 DEF GroupInv

(* A new group has a number of its own and an empty index.                  *)
LEMMA CreateSound ==
  ASSUME GroupInv, NEW g \in Groups, CreateGroup(g)
  PROVE  GroupInv'
<1>1. /\ g \notin issued /\ issued' = issued \union {g}
      /\ corpora' = corpora \union {g}
      /\ live' = [live EXCEPT ![g] = EmptySchema]
      /\ UNCHANGED <<summaries, active, ingest, query, held, shrunk>>
  BY DEF CreateGroup, CreateCorpus, historyVars
<1>2. live' = [h \in Groups |-> IF h = g THEN EmptySchema ELSE live[h]]
  BY <1>1 DEF GroupInv, TablesAreSound
<1>3. g \notin corpora /\ g # NoGroup /\ query.group # g
  BY <1>1, GroupQueryAssumption DEF GroupInv, TablesAreSound, QueryHasItsFields
<1>4. TablesAreSound'
  <2>1. \A h \in Groups :
          /\ IsInjective(live'[h].passages) /\ IsInjective(live'[h].terms)
          /\ AllDocuments(live'[h]) \subseteq held[h]
    BY <1>2, EmptyIsEmpty DEF GroupInv, TablesAreSound
  <2>2. QED BY <1>1, <1>2, <2>1 DEF GroupInv, TablesAreSound, AllDocuments, NoIngest
<1>5. QueryHasItsFields'
  BY <1>1 DEF GroupInv, QueryHasItsFields
<1>6. summaries' = {r \in summaries : r.group \in corpora'}
  BY <1>1 DEF GroupInv, SummariesAreSound
<1>7. \A h \in corpora : h \in Groups /\ AllDocuments(live'[h]) = AllDocuments(live[h])
  BY <1>2, <1>3 DEF GroupInv, TablesAreSound
<1>8. QED BY <1>1, <1>3, <1>4, <1>5, <1>6, <1>7, TablesChange

(* A group goes with its index and its summary, and the question in it is   *)
(* told; nothing refers to it afterwards, since it is not being rebuilt.    *)
LEMMA DeleteSound ==
  ASSUME GroupInv, NEW g \in Groups, DeleteGroup(g)
  PROVE  GroupInv'
<1>1. /\ g # ingest.group /\ g \in corpora
      /\ corpora' = corpora \ {g} /\ issued' = issued
      /\ live' = [live EXCEPT ![g] = EmptySchema]
      /\ summaries' = {r \in summaries : r.group # g}
      /\ active' = IF active = g THEN NoGroup ELSE active
      /\ query' = Disturb(g, "deletion")
      /\ UNCHANGED <<ingest, held, shrunk>>
  BY DEF DeleteGroup, DeleteCorpus, historyVars
<1>2. live' = [h \in Groups |-> IF h = g THEN EmptySchema ELSE live[h]]
  BY <1>1 DEF GroupInv, TablesAreSound
<1>3. TablesAreSound'
  <2>1. \A h \in Groups :
          /\ IsInjective(live'[h].passages) /\ IsInjective(live'[h].terms)
          /\ AllDocuments(live'[h]) \subseteq held[h]
    BY <1>2, EmptyIsEmpty DEF GroupInv, TablesAreSound
  <2>2. active' \in corpora' \union {NoGroup}
    BY <1>1 DEF GroupInv, TablesAreSound
  <2>3. QED BY <1>1, <1>2, <2>1, <2>2 DEF GroupInv, TablesAreSound, AllDocuments, NoIngest
<1>4. QueryHasItsFields /\ issued \subseteq issued'
  BY <1>1 DEF GroupInv
<1>5. summaries' = {r \in summaries : r.group \in corpora'}
  BY <1>1 DEF GroupInv, SummariesAreSound
<1>6. \A h \in corpora \intersect corpora' : AllDocuments(live'[h]) = AllDocuments(live[h])
  BY <1>1, <1>2 DEF GroupInv, TablesAreSound
<1>7. QED BY <1>1, <1>3, <1>4, <1>5, <1>6, DisturbedQuestion, TablesChange

(* A group that loses a document is on record as one that did.              *)
LEMMA RemoveSound ==
  ASSUME GroupInv, NEW n \in Names, RemoveDocument(n)
  PROVE  GroupInv'
<1>1. /\ active # NoGroup
      /\ live' = [live EXCEPT ![active] = WithoutDocument(@, n)]
      /\ query' = Disturb(active, "removal")
      /\ shrunk' = shrunk \union {active}
      /\ UNCHANGED <<corpora, issued, summaries, active, ingest, held>>
  BY DEF RemoveDocument
<1>2. active \in Groups /\ active \in corpora
  BY <1>1 DEF GroupInv, TablesAreSound
<1>3. live' = [h \in Groups |-> IF h = active THEN WithoutDocument(live[h], n) ELSE live[h]]
  BY <1>1, <1>2 DEF GroupInv, TablesAreSound
<1>4. TablesAreSound'
  <2>1. \A h \in Groups :
          /\ IsInjective(live'[h].passages) /\ IsInjective(live'[h].terms)
          /\ AllDocuments(live'[h]) \subseteq held[h]
    BY <1>3, RemovalKeepsNumbers DEF GroupInv, TablesAreSound
  <2>2. QED BY <1>1, <1>3, <2>1 DEF GroupInv, TablesAreSound, AllDocuments, NoIngest
<1>5. QueryHasItsFields /\ issued \subseteq issued'
  BY <1>1 DEF GroupInv
<1>6. summaries' = {r \in summaries : r.group \in corpora'}
  BY <1>1 DEF GroupInv, SummariesAreSound
<1>7. \A h \in corpora :
        h \notin shrunk' => AllDocuments(live'[h]) = AllDocuments(live[h])
  BY <1>1, <1>3 DEF GroupInv, TablesAreSound
<1>8. QED BY <1>1, <1>4, <1>5, <1>6, <1>7, DisturbedQuestion, TablesChange

(* A rebuilt group holds the merged documents; unless something was         *)
(* replaced it has only grown.                                              *)
LEMMA SwapSound ==
  ASSUME GroupInv, SwapCorpusSchema
  PROVE  GroupInv'
<1> DEFINE g == ingest.group
           old == AllDocuments(live[g])
           new == Merged(old, ingest.brings)
<1>1. /\ ingest # NoIngest
      /\ held' = [held EXCEPT ![g] = @ \union new]
      /\ shrunk' = IF old \subseteq new THEN shrunk ELSE shrunk \union {g}
      /\ query' = Disturb(g, "swap")
      /\ ingest' = NoIngest
      /\ UNCHANGED <<corpora, issued, summaries, active>>
  BY DEF SwapCorpusSchema
<1>2. PICK s \in Loaded(new) : live' = [live EXCEPT ![g] = s]
  BY DEF SwapCorpusSchema
<1>3. g \in Groups /\ g \in corpora /\ ingest.brings \subseteq Uploads
  BY <1>1 DEF GroupInv, TablesAreSound
<1>4. IsFiniteSet(new) /\ new \subseteq Document
  <2>1. IsFiniteSet(old) /\ old \subseteq Document
    BY <1>3, IndexIsFinite DEF GroupInv
  <2>2. IsFiniteSet(ingest.brings)
    BY <1>3, FS_Subset, GroupQueryAssumption
  <2>3. IsFiniteSet({d \in old : \A e \in ingest.brings : e.name # d.name})
    BY <2>1, FS_Subset
  <2>4. IsFiniteSet(new)
    BY <2>2, <2>3, FS_Union DEF Merged
  <2>5. QED BY <1>3, <2>1, <2>4, GroupQueryAssumption DEF Merged
<1>5. AllDocuments(s) = new /\ IsInjective(s.passages) /\ IsInjective(s.terms)
  BY <1>2, <1>4, LoadedIsWhole
<1>6. /\ live' = [h \in Groups |-> IF h = g THEN s ELSE live[h]]
      /\ held' = [h \in Groups |-> IF h = g THEN held[h] \union new ELSE held[h]]
  BY <1>1, <1>2, <1>3 DEF GroupInv, TablesAreSound
<1>7. TablesAreSound'
  <2>1. \A h \in Groups :
          /\ IsInjective(live'[h].passages) /\ IsInjective(live'[h].terms)
          /\ AllDocuments(live'[h]) \subseteq held'[h]
    BY <1>5, <1>6 DEF GroupInv, TablesAreSound
  <2>2. /\ held' \in [Groups -> SUBSET Document]
        /\ \A h \in Groups : IsFiniteSet(held'[h])
    BY <1>4, <1>6, FS_Union DEF GroupInv, TablesAreSound
  <2>3. QED BY <1>1, <1>6, <2>1, <2>2 DEF GroupInv, TablesAreSound, AllDocuments, NoIngest
<1>8. QueryHasItsFields /\ issued \subseteq issued'
  BY <1>1 DEF GroupInv
<1>9. summaries' = {r \in summaries : r.group \in corpora'}
  BY <1>1 DEF GroupInv, SummariesAreSound
<1>10. \A h \in corpora :
         /\ held[h] \subseteq held'[h]
         /\ h \notin shrunk' => AllDocuments(live[h]) \subseteq AllDocuments(live'[h])
  <2>1. corpora \subseteq Groups
    BY DEF GroupInv, TablesAreSound
  <2>2. \A h \in corpora : held[h] \subseteq held'[h]
    BY <1>6, <2>1
  <2>3. ASSUME g \notin shrunk' PROVE old \subseteq AllDocuments(s)
    BY <1>1, <1>5, <2>3
  <2>4. QED BY <1>6, <2>1, <2>2, <2>3
<1>11. QED BY <1>1, <1>7, <1>8, <1>9, <1>10, DisturbedQuestion, TablesChange
(* The rest of the user's steps, and an ingest that ends without a swap.    *)
LEMMA UserSound ==
  ASSUME GroupInv,
         \/ \E g \in Groups : SelectGroup(g)
         \/ \E D \in Drops : StartIngest(D)
         \/ AbandonIngest
         \/ UNCHANGED vars
  PROVE  GroupInv'
<1>1. UNCHANGED <<corpora, issued, live, summaries, query, held, shrunk>>
  BY DEF SelectGroup, StartIngest, AbandonIngest, vars, storeVars, historyVars, countVars
<1>2. /\ active' \in corpora \union {NoGroup}
      /\ ingest' = NoIngest \/ (ingest'.group \in corpora /\ ingest'.brings \subseteq Uploads)
      /\ ingest'.group \in corpora \union {NoGroup}
  <2>1. CASE \E g \in Groups : SelectGroup(g)
    BY <2>1 DEF GroupInv, TablesAreSound, SelectGroup
  <2>2. CASE \E D \in Drops : StartIngest(D)
    BY <2>2 DEF GroupInv, TablesAreSound, StartIngest, Drops
  <2>3. CASE AbandonIngest
    BY <2>3 DEF GroupInv, TablesAreSound, AbandonIngest, NoIngest
  <2>4. CASE UNCHANGED vars
    BY <2>4 DEF GroupInv, TablesAreSound, vars, storeVars
  <2>5. QED BY <2>1, <2>2, <2>3, <2>4
<1>3. TablesAreSound'
  BY <1>1, <1>2 DEF GroupInv, TablesAreSound, AllDocuments, NoIngest
<1>4. SummariesAreSound'
  BY <1>1 DEF GroupInv, SummariesAreSound, AllDocuments
<1>5. QueryHasItsFields' /\ QueryStaysInItsGroup'
  BY <1>1 DEF GroupInv, QueryHasItsFields, QueryStaysInItsGroup
<1>6. CountIsSound'
  BY <1>1 DEF GroupInv, CountIsSound, AllDocuments
<1>7. QED BY <1>3, <1>4, <1>5, <1>6 DEF GroupInv

(* A question begins in the group on screen and has read nothing.           *)
LEMMA QuestionSound ==
  ASSUME GroupInv, SendChatMessage \/ OnQueryFinished
  PROVE  GroupInv'
<1>1. /\ UNCHANGED <<corpora, issued, live, summaries, active, ingest, held, shrunk>>
      /\ \/ /\ active # NoGroup
            /\ \E again \in BOOLEAN :
                 query' = [Idle EXCEPT !.at = "open", !.group = active, !.retry = again]
         \/ query' = Idle
  BY DEF SendChatMessage, OnQueryFinished, storeVars, historyVars, countVars
<1>2. TablesAreSound' /\ SummariesAreSound'
  BY <1>1 DEF GroupInv, TablesAreSound, SummariesAreSound, AllDocuments, NoIngest
<1>3. /\ query'.at \in {"idle", "open"}
      /\ query'.at = "idle" => query'.group = NoGroup
      /\ query'.at = "open" => query'.group = active /\ active # NoGroup
      /\ query'.read = {} /\ query'.shown = {} /\ query'.disturbed = {}
      /\ query'.stands = NoRun /\ query'.fromCache = FALSE
  <2>1. CASE query' = Idle
    BY <2>1 DEF Idle
  <2>2. CASE /\ active # NoGroup
             /\ \E again \in BOOLEAN :
                  query' = [Idle EXCEPT !.at = "open", !.group = active, !.retry = again]
    <3>1. PICK again \in BOOLEAN :
            query' = [at |-> "open", group |-> active, retry |-> again, terms |-> {},
              term |-> 0, hits |-> {}, todo |-> {}, read |-> {}, stands |-> NoRun,
              shown |-> {}, tool |-> "none", count |-> 0, fromCache |-> FALSE,
              counted |-> {}, disturbed |-> {}]
      BY <2>2 DEF Idle
    <3>2. active # NoGroup
      BY <2>2
    <3>3. QED BY <3>1, <3>2
  <2>3. QED BY <1>1, <2>1, <2>2
<1>4. /\ active # NoGroup => active \in corpora /\ active \in issued
      /\ NoGroup \notin corpora
  BY GroupQueryAssumption DEF GroupInv, TablesAreSound
<1>5. QueryHasItsFields'
  <2>1. query'.at \in Stations /\ query'.fromCache \in BOOLEAN
    BY <1>3 DEF Stations
  <2>2. query'.group # NoGroup => query'.group \in issued'
    BY <1>1, <1>3, <1>4
  <2>3. query'.at # "idle" => query'.group \in issued'
    BY <1>1, <1>3, <1>4
  <2>4. query' = [at |-> query'.at, group |-> query'.group, retry |-> query'.retry,
              terms |-> query'.terms, term |-> query'.term, hits |-> query'.hits,
              todo |-> query'.todo, read |-> query'.read, stands |-> query'.stands,
              shown |-> query'.shown, tool |-> query'.tool,
              count |-> query'.count, fromCache |-> query'.fromCache,
              counted |-> query'.counted, disturbed |-> query'.disturbed]
    BY <1>1 DEF Idle
  <2>5. QED BY <2>1, <2>2, <2>3, <2>4 DEF QueryHasItsFields
<1>6. QueryStaysInItsGroup'
  <2>1. query'.stands.read = {}
    BY <1>3 DEF NoRun
  <2>2. QED BY <1>1, <1>3, <1>4, <2>1 DEF QueryStaysInItsGroup
<1>7. CountIsSound'
  BY <1>3 DEF CountIsSound, Counting
<1>8. QED BY <1>2, <1>5, <1>6, <1>7 DEF GroupInv

-----------------------------------------------------------------------------
(* The tables, the cached summaries and the running question are sound at   *)
(* all times: the inductive invariant.                                      *)
THEOREM GroupsAreSound == Spec => []GroupInv
<1>1. GroupInv /\ [Next]_vars => GroupInv'
  <2> SUFFICES ASSUME GroupInv, [Next]_vars PROVE GroupInv'
    OBVIOUS
  <2>1. CASE UserStep
    BY <2>1, CreateSound, DeleteSound, RemoveSound, UserSound, QuestionSound
       DEF UserStep
  <2>2. CASE QueryStep
    BY <2>2, SearchSound, ReadingSound, CountSound, ServeSound, BuildSound, StoreSound
       DEF QueryStep
  <2>3. CASE OnQueryFinished \/ SwapCorpusSchema \/ AbandonIngest \/ UNCHANGED vars
    BY <2>3, QuestionSound, SwapSound, UserSound
  <2>4. QED BY <2>1, <2>2, <2>3 DEF Next
<1>2. QED BY <1>1, InitSound, PTL DEF Spec

(* Types, and references between the tables: no summary of a group that is  *)
(* gone, no group with two, for any number of groups and any order in which *)
(* they come, go and are asked (GroupTypeOK).                               *)
THEOREM ReferencesHold == Spec => []GroupTypeOK
<1>1. GroupInv => GroupTypeOK
  BY DEF GroupInv, GroupTypeOK, TablesAreSound, SummariesAreSound, QueryHasItsFields
<1>2. QED BY <1>1, GroupsAreSound, PTL

(* In a group that only grows the number of documents is enough to tell     *)
(* whether a cached summary is of the documents counted                     *)
(* (GrowingGroupServesItsSummary).                                          *)
THEOREM CountTellsTheSummary == Spec => []GrowingGroupServesItsSummary
<1>1. GroupInv => GrowingGroupServesItsSummary
  BY DEF GroupInv, GrowingGroupServesItsSummary, CountIsSound
<1>2. QED BY <1>1, GroupsAreSound, PTL

(* An answer rests on and shows documents of its own group, unless the      *)
(* group was deleted meanwhile (AnswersStayInTheirGroup).                   *)
THEOREM NoAnswerLeaks == Spec => []AnswersStayInTheirGroup
<1>1. GroupInv => AnswersStayInTheirGroup
  BY DEF GroupInv, AnswersStayInTheirGroup, QueryStaysInItsGroup
<1>2. QED BY <1>1, GroupsAreSound, PTL

-----------------------------------------------------------------------------
(* The sources of an answer: what the running question q has in hand and    *)
(* what the numbers in it name in the index s of its group.                 *)

(* The documents a set of passage numbers names.                            *)
Passages(s, I) == UNION {Passage(s, i) : i \in I}

IsRelevant(d) == \E t \in Question : d.text \in Mentions[t]

(* Nothing but removals has happened to the question's group.               *)
IsCalm(q) == q.group # NoGroup /\ q.disturbed \subseteq {"removal"}

(* The number looked up stands for a word of the question, and the passages *)
(* found mention one.                                                       *)
SearchIsSound(q, s) ==
  /\ q.at \in {"lookup", "postings"} => q.terms \subseteq Question
  /\ (q.at = "postings" /\ q.term \in DOMAIN s.terms) => s.terms[q.term] \in Question
  /\ \A d \in Passages(s, q.hits) : IsRelevant(d)

(* What has been read is what the numbers done with name, or more than that *)
(* after a removal.                                                         *)
ReadIsSound(q, s) ==
  /\ q.at \in {"open", "lookup", "postings"} => q.read = {}
  /\ q.at = "open" => q.hits = {}
  /\ q.at = "prompt" =>
       /\ q.todo \subseteq q.hits
       /\ Passages(s, q.hits \ q.todo) \subseteq q.read
       /\ q.disturbed = {} => q.read = Passages(s, q.hits \ q.todo)
  /\ q.at \in {"generate", "sources"} =>
       /\ Passages(s, q.hits) \subseteq q.read
       /\ q.disturbed = {} => q.read = Passages(s, q.hits)
  /\ q.at \in {"prompt", "generate", "sources"} => \A d \in q.read : IsRelevant(d)
  /\ q.at = "readSources" =>
       /\ AllDocuments(s) \subseteq q.read
       /\ q.disturbed = {} => q.read = AllDocuments(s)

(* The run whose refusal stands was read as it was found.                   *)
StandsIsSound(q, s) ==
  /\ Passages(s, q.stands.hits) \subseteq q.stands.read
  /\ q.disturbed = {} => q.stands.read = Passages(s, q.stands.hits)
  /\ \A d \in q.stands.read : IsRelevant(d)

(* What has been shown is what the numbers done with named.                 *)
ShownIsSound(q, s) ==
  /\ q.at \notin {"sources", "done"} => q.shown = {}
  /\ q.at = "sources" =>
       /\ q.todo \subseteq q.hits
       /\ q.shown \subseteq q.read
       /\ q.disturbed = {} => q.shown = Passages(s, q.hits \ q.todo)

(* The tool on record is the one the answer is made with.                   *)
ToolIsSound(q) ==
  /\ q.at = "open" => q.tool = "none"
  /\ q.at \in {"read", "readSources"} => q.tool = "read"
  /\ q.at \in {"count", "cached", "build", "store", "summarise", "listing"} =>
       q.tool = "summary"

(* What SourcesAreWhatWasRead promises of the answer.                       *)
AnswerIsSound(q) ==
  /\ q.shown \subseteq q.read
  /\ q.disturbed = {} => q.shown = q.read
  /\ q.tool = "search" => \A d \in q.read : IsRelevant(d)

QuestionIsSound(q, s) ==
  /\ SearchIsSound(q, s) /\ ReadIsSound(q, s) /\ ShownIsSound(q, s)
  /\ StandsIsSound(q, s)
  /\ q.at = "done" /\ q.tool \in {"search", "read"} => AnswerIsSound(q)

SourcesInv ==
  /\ ToolIsSound(query)
  /\ IsCalm(query) => QuestionIsSound(query, live[query.group])

LEMMA SourcesFollow ==
  ASSUME GroupInv, SourcesInv
  PROVE  SourcesAreWhatWasRead
<1>1. query.at = "done" => query.group # NoGroup
  BY GroupQueryAssumption DEF GroupInv, QueryHasItsFields, TablesAreSound
<1>2. QED
  BY <1>1 DEF SourcesInv, QuestionIsSound, AnswerIsSound, IsCalm, IsRelevant,
              SourcesAreWhatWasRead

-----------------------------------------------------------------------------
(* Steps that are not the worker's.                                         *)

LEMMA NothingHappens ==
  ASSUME SourcesInv, query' = query,
         IsCalm(query) => live'[query.group] = live[query.group]
  PROVE  SourcesInv'
  BY DEF SourcesInv

(* A swap or a deletion ends all promises about the question's sources.     *)
LEMMA CalmEnds ==
  ASSUME GroupInv, SourcesInv, NEW what, what # "removal",
         query' = Disturb(query.group, what)
  PROVE  SourcesInv'
<1>1. query' = [query EXCEPT !.disturbed = @ \union {what}]
  BY DEF Disturb
<1>2. /\ query'.at = query.at /\ query'.tool = query.tool
      /\ query'.disturbed = query.disturbed \union {what}
  BY <1>1 DEF GroupInv, QueryHasItsFields
<1>3. ~IsCalm(query')
  BY <1>2 DEF IsCalm
<1>4. ToolIsSound(query')
  BY <1>2 DEF SourcesInv, ToolIsSound
<1>5. QED BY <1>3, <1>4 DEF SourcesInv

(* A removal makes passages and words disappear, and leaves the numbers of  *)
(* the others with what they stood for.                                     *)
LEMMA RemovalOnlyTakesAway ==
  ASSUME NEW s, NEW n
  PROVE  LET left == WithoutDocument(s, n)
         IN  /\ \A I : Passages(left, I) \subseteq Passages(s, I)
             /\ AllDocuments(left) \subseteq AllDocuments(s)
             /\ \A id \in DOMAIN left.terms :
                  id \in DOMAIN s.terms /\ left.terms[id] = s.terms[id]
<1> DEFINE left == WithoutDocument(s, n)
           kept == {i \in DOMAIN s.passages : s.passages[i].name # n}
           docs == {s.passages[i] : i \in kept}
           ids == {i \in DOMAIN s.terms : s.terms[i] \in IndexedTerms(docs)}
<1>1. left.passages = [i \in kept |-> s.passages[i]]
  BY DEF WithoutDocument, Restrict
<1>2. left.terms = [i \in ids |-> s.terms[i]]
  BY DEF WithoutDocument, Restrict
<1> HIDE DEF left, docs
<1>3. \A i : Passage(left, i) \subseteq Passage(s, i)
  BY <1>1 DEF Passage
<1>4. \A I : Passages(left, I) \subseteq Passages(s, I)
  BY <1>3 DEF Passages
<1>5. AllDocuments(left) \subseteq AllDocuments(s)
  BY <1>1 DEF AllDocuments, Range
<1>6. \A id \in DOMAIN left.terms : id \in DOMAIN s.terms /\ left.terms[id] = s.terms[id]
  BY <1>2
<1>7. QED BY <1>4, <1>5, <1>6 DEF left

LEMMA RemovalKeepsSources ==
  ASSUME GroupInv, SourcesInv, NEW n,
         query' = Disturb(query.group, "removal"),
         IsCalm(query) => live'[query.group] = WithoutDocument(live[query.group], n)
  PROVE  SourcesInv'
<1>1. query' = [query EXCEPT !.disturbed = @ \union {"removal"}]
  BY DEF Disturb
<1>2. /\ query'.at = query.at /\ query'.group = query.group /\ query'.terms = query.terms
      /\ query'.term = query.term /\ query'.hits = query.hits /\ query'.todo = query.todo
      /\ query'.read = query.read /\ query'.shown = query.shown /\ query'.tool = query.tool
      /\ query'.stands = query.stands
      /\ query'.disturbed = query.disturbed \union {"removal"}
  BY <1>1 DEF GroupInv, QueryHasItsFields
<1>3. ToolIsSound(query')
  BY <1>2 DEF SourcesInv, ToolIsSound
<1>4. ASSUME IsCalm(query') PROVE QuestionIsSound(query', live'[query'.group])
  <2> DEFINE s == live[query.group]
             left == WithoutDocument(s, n)
  <2>1. IsCalm(query) /\ query'.disturbed # {}
    BY <1>2, <1>4 DEF IsCalm
  <2>2. QuestionIsSound(query, s)
    BY <2>1 DEF SourcesInv
  <2>3. live'[query'.group] = left
    BY <1>2, <2>1
  <2>4. /\ \A I : Passages(left, I) \subseteq Passages(s, I)
        /\ AllDocuments(left) \subseteq AllDocuments(s)
        /\ \A id \in DOMAIN left.terms :
             id \in DOMAIN s.terms /\ left.terms[id] = s.terms[id]
    BY RemovalOnlyTakesAway
  <2> HIDE DEF s, left
  <2>5. SearchIsSound(query', left)
    BY <1>2, <2>2, <2>4 DEF QuestionIsSound, SearchIsSound
  <2>6. ReadIsSound(query', left)
    BY <1>2, <2>1, <2>2, <2>4 DEF QuestionIsSound, ReadIsSound
  <2>7. ShownIsSound(query', left)
    BY <1>2, <2>1, <2>2, <2>4 DEF QuestionIsSound, ShownIsSound
  <2>8. query'.at = "done" /\ query'.tool \in {"search", "read"} => AnswerIsSound(query')
    BY <1>2, <2>1, <2>2 DEF QuestionIsSound, AnswerIsSound
  <2>9. StandsIsSound(query', left)
    BY <1>2, <2>1, <2>2, <2>4 DEF QuestionIsSound, StandsIsSound
  <2>10. QED BY <2>3, <2>5, <2>6, <2>7, <2>8, <2>9 DEF QuestionIsSound
<1>5. QED BY <1>3, <1>4 DEF SourcesInv

LEMMA UserKeepsSources ==
  ASSUME GroupInv, SourcesInv,
         UserStep \/ OnQueryFinished \/ SwapCorpusSchema \/ AbandonIngest \/ UNCHANGED vars
  PROVE  SourcesInv'
<1>1. /\ live = [g \in Groups |-> live[g]] /\ corpora \subseteq Groups
      /\ NoGroup \notin issued
      /\ query.group # NoGroup => query.group \in Groups /\ query.group \in issued
  BY GroupQueryAssumption DEF GroupInv, TablesAreSound, QueryHasItsFields
<1>2. ASSUME NEW g \in Groups, CreateGroup(g) PROVE SourcesInv'
  <2>1. query' = query /\ g \notin issued /\ live' = [live EXCEPT ![g] = EmptySchema]
    BY <1>2 DEF CreateGroup, CreateCorpus
  <2>2. QED BY <1>1, <2>1, NothingHappens DEF IsCalm
<1>3. ASSUME NEW g \in Groups, DeleteGroup(g) PROVE SourcesInv'
  <2>1. query' = Disturb(g, "deletion") /\ live' = [live EXCEPT ![g] = EmptySchema]
    BY <1>3 DEF DeleteGroup, DeleteCorpus
  <2>2. CASE query.group = g
    BY <2>1, <2>2, CalmEnds
  <2>3. CASE query.group # g
    BY <1>1, <2>1, <2>3, NothingHappens DEF IsCalm, Disturb
  <2>4. QED BY <2>2, <2>3
<1>4. ASSUME NEW n \in Names, RemoveDocument(n) PROVE SourcesInv'
  <2>1. /\ query' = Disturb(active, "removal")
        /\ live' = [live EXCEPT ![active] = WithoutDocument(@, n)]
    BY <1>4 DEF RemoveDocument
  <2>2. CASE query.group = active
    <3>1. IsCalm(query) => live'[query.group] = WithoutDocument(live[query.group], n)
      BY <1>1, <2>1, <2>2 DEF IsCalm
    <3>2. QED BY <2>1, <2>2, <3>1, RemovalKeepsSources
  <2>3. CASE query.group # active
    BY <1>1, <2>1, <2>3, NothingHappens DEF IsCalm, Disturb
  <2>4. QED BY <2>2, <2>3
<1>5. CASE SwapCorpusSchema
  <2>1. PICK s : /\ live' = [live EXCEPT ![ingest.group] = s]
                 /\ query' = Disturb(ingest.group, "swap")
    BY <1>5 DEF SwapCorpusSchema
  <2>2. CASE query.group = ingest.group
    BY <2>1, <2>2, CalmEnds
  <2>3. CASE query.group # ingest.group
    BY <1>1, <2>1, <2>3, NothingHappens DEF IsCalm, Disturb
  <2>4. QED BY <2>2, <2>3
<1>6. CASE SendChatMessage \/ OnQueryFinished
  <2>1. \/ \E again \in BOOLEAN :
             query' = [Idle EXCEPT !.at = "open", !.group = active, !.retry = again]
        \/ query' = Idle
    BY <1>6 DEF SendChatMessage, OnQueryFinished
  <2>2. /\ query'.at \in {"idle", "open"} /\ query'.tool = "none"
        /\ query'.read = {} /\ query'.shown = {} /\ query'.hits = {}
        /\ query'.stands = NoRun
    <3>1. CASE query' = Idle
      BY <3>1 DEF Idle
    <3>2. CASE \E again \in BOOLEAN :
                 query' = [Idle EXCEPT !.at = "open", !.group = active, !.retry = again]
      <4>1. PICK again \in BOOLEAN :
              query' = [at |-> "open", group |-> active, retry |-> again, terms |-> {},
                term |-> 0, hits |-> {}, todo |-> {}, read |-> {}, stands |-> NoRun,
                shown |-> {}, tool |-> "none", count |-> 0, fromCache |-> FALSE,
                counted |-> {}, disturbed |-> {}]
        BY <3>2 DEF Idle
      <4>2. QED BY <4>1
    <3>3. QED BY <2>1, <3>1, <3>2
  <2>3. \A s : QuestionIsSound(query', s)
    BY <2>2 DEF QuestionIsSound, SearchIsSound, ReadIsSound, ShownIsSound, StandsIsSound,
                Passages, NoRun
  <2>4. ToolIsSound(query')
    BY <2>2 DEF ToolIsSound
  <2>5. QED BY <2>3, <2>4 DEF SourcesInv
<1>7. CASE \/ \E g \in Groups : SelectGroup(g)
           \/ \E D \in Drops : StartIngest(D)
           \/ AbandonIngest \/ UNCHANGED vars
  <2>1. query' = query /\ live' = live
    BY <1>7 DEF SelectGroup, StartIngest, AbandonIngest, vars, storeVars
  <2>2. QED BY <2>1, NothingHappens
<1>8. QED BY <1>2, <1>3, <1>4, <1>5, <1>6, <1>7 DEF UserStep

-----------------------------------------------------------------------------
(* Steps of the worker.                                                     *)

(* A worker's step stays in its group, whose tables it meets.               *)
LEMMA WorkerKeepsSources ==
  ASSUME GroupInv, Keep,
         query'.group = query.group, query'.disturbed = query.disturbed,
         ToolIsSound(query'),
         IsCalm(query) => QuestionIsSound(query', Schema(query.group))
  PROVE  SourcesInv'
<1>1. IsCalm(query') => IsCalm(query)
  BY DEF IsCalm
<1>2. live' = live
  BY DEF Keep
<1>3. IsCalm(query) => Schema(query.group) = live[query.group]
  BY GroupIsMet DEF GroupInv, QueryStaysInItsGroup, IsCalm
<1>4. QED BY <1>1, <1>2, <1>3 DEF SourcesInv

LEMMA CalmQuestion ==
  ASSUME GroupInv, SourcesInv, IsCalm(query)
  PROVE  QuestionIsSound(query, Schema(query.group))
<1>1. Schema(query.group) = live[query.group]
  BY GroupIsMet DEF GroupInv, QueryStaysInItsGroup, IsCalm
<1>2. QED BY <1>1 DEF SourcesInv

LEMMA PassagesOfUnion ==
  ASSUME NEW s, NEW I, NEW J
  PROVE  Passages(s, I \union J) = Passages(s, I) \union Passages(s, J)
  BY DEF Passages

(* What the postings of a word of the question lead to mentions it.         *)
LEMMA PostingsAreRelevant ==
  ASSUME NEW s, NEW id, id \in DOMAIN s.terms => s.terms[id] \in Question,
         NEW d \in Passages(s, Postings(s, id))
  PROVE  IsRelevant(d)
  BY DEF Passages, Passage, Postings, IsRelevant

(* The worker leaves with no sources to answer for, or goes on to the       *)
(* fallback.                                                                *)
LEMMA LeavingKeepsSources ==
  ASSUME GroupInv, SourcesInv, Keep, query.at # "idle",
         \/ query' = Failed
         \/ query' = Over /\ query.tool \notin {"search", "read"}
         \/ query' = RefusalIsLeft /\ query.at \notin {"sources", "done"}
  PROVE  SourcesInv'
<1> DEFINE s == Schema(query.group)
<1>1. QueryHasItsFields
  BY DEF GroupInv
<1>2. IsCalm(query) => QuestionIsSound(query, s)
  BY CalmQuestion
<1> HIDE DEF s
<1>3. NoRun.hits = {} /\ NoRun.read = {}
  BY DEF NoRun
<1>4. /\ query'.group = query.group /\ query'.disturbed = query.disturbed
      /\ query'.shown = query.shown /\ query'.stands = NoRun
      /\ query'.hits \in {{}, query.hits}
      /\ \/ query'.at = "done" /\ query'.tool \notin {"search", "read"}
         \/ query'.at = "fallback" /\ query.at \notin {"sources", "done"}
  <2>1. CASE query' = Failed
    BY <1>1, <2>1 DEF QueryHasItsFields, Failed, Over
  <2>2. CASE query' = Over /\ query.tool \notin {"search", "read"}
    BY <1>1, <2>2 DEF QueryHasItsFields, Over
  <2>3. CASE query' = RefusalIsLeft /\ query.at \notin {"sources", "done"}
    BY <1>1, <2>3 DEF QueryHasItsFields, RefusalIsLeft
  <2>4. QED BY <2>1, <2>2, <2>3
<1>5. ToolIsSound(query')
  BY <1>4 DEF ToolIsSound
<1>6. Passages(s, {}) = {}
  BY DEF Passages
<1>7. ASSUME QuestionIsSound(query, s) PROVE QuestionIsSound(query', s)
  <2>1. SearchIsSound(query', s)
    BY <1>4, <1>6, <1>7 DEF QuestionIsSound, SearchIsSound
  <2>2. ReadIsSound(query', s)
    BY <1>4 DEF ReadIsSound
  <2>3. ShownIsSound(query', s)
    BY <1>4, <1>7 DEF QuestionIsSound, ShownIsSound
  <2>4. StandsIsSound(query', s)
    BY <1>3, <1>4, <1>6 DEF StandsIsSound
  <2>5. QED BY <1>4, <2>1, <2>2, <2>3, <2>4 DEF QuestionIsSound
<1>8. QED BY <1>2, <1>4, <1>5, <1>7, WorkerKeepsSources DEF s

LEMMA SearchKeepsSources ==
  ASSUME GroupInv, SourcesInv,
         \/ UseCorpus
         \/ \E t \in Terms : LookUp(t)
         \/ ReadPostings
         \/ SearchIsOver \/ SearchFails
  PROVE  SourcesInv'
<1> USE DEF QueryOnly, Worker
<1> DEFINE s == Schema(query.group)
<1>1. QueryHasItsFields
  BY DEF GroupInv
<1>2. IsCalm(query) => QuestionIsSound(query, s)
  BY CalmQuestion
<1> HIDE DEF s
<1>3. CASE UseCorpus
  <2>1. Keep /\ query.at = "open"
    BY <1>3 DEF UseCorpus
  <2>2. query.tool = "none"
    BY <2>1 DEF SourcesInv, ToolIsSound
  <2>3. CASE query' = Over
    BY <2>1, <2>2, <2>3, LeavingKeepsSources
  <2>4. CASE \/ query' = [query EXCEPT !.at = "lookup", !.tool = "search",
                                      !.terms = Question]
             \/ query' = [query EXCEPT !.at = "count", !.tool = "summary"]
    <3>1. /\ query'.group = query.group
          /\ query'.disturbed = query.disturbed
          /\ query'.read = query.read /\ query'.shown = query.shown
          /\ query'.hits = query.hits /\ query'.stands = query.stands
          /\ \/ query'.at = "lookup" /\ query'.terms = Question
             \/ query'.at = "count" /\ query'.tool = "summary"
      BY <1>1, <2>4 DEF QueryHasItsFields
    <3>2. ToolIsSound(query')
      BY <3>1 DEF ToolIsSound
    <3>3. QuestionIsSound(query, s) => QuestionIsSound(query', s)
      BY <2>1, <3>1 DEF QuestionIsSound, SearchIsSound, ReadIsSound, ShownIsSound,
                        StandsIsSound
    <3>4. QED BY <1>2, <2>1, <3>1, <3>2, <3>3, WorkerKeepsSources DEF s
  <2>5. QED BY <1>3, <2>3, <2>4 DEF UseCorpus
<1>4. CASE \E t \in Terms : LookUp(t)
  <2>1. PICK t \in Terms : LookUp(t)
    BY <1>4
  <2> DEFINE ids == LookupTerm(s, t)
             id == CHOOSE i \in ids : TRUE
  <2>2. /\ Keep /\ query.at = "lookup" /\ t \in query.terms
        /\ query' = IF ids # {}
                    THEN [query EXCEPT !.at = "postings", !.terms = query.terms \ {t},
                                       !.term = id]
                    ELSE [query EXCEPT !.terms = query.terms \ {t}]
    BY <2>1 DEF LookUp, s
  <2>3. ids # {} => id \in DOMAIN s.terms /\ s.terms[id] = t
    BY DEF LookupTerm
  <2> HIDE DEF ids, id
  <2>4. /\ query'.group = query.group /\ query'.disturbed = query.disturbed
        /\ query'.read = query.read /\ query'.shown = query.shown
        /\ query'.hits = query.hits /\ query'.tool = query.tool
        /\ query'.stands = query.stands
        /\ query'.terms = query.terms \ {t}
        /\ \/ query'.at = "lookup"
           \/ query'.at = "postings" /\ ids # {} /\ query'.term = id
    <3>1. CASE ids # {}
      BY <1>1, <2>2, <3>1 DEF QueryHasItsFields
    <3>2. CASE ids = {}
      BY <1>1, <2>2, <3>2 DEF QueryHasItsFields
    <3>3. QED BY <3>1, <3>2
  <2>5. ToolIsSound(query')
    BY <2>4 DEF ToolIsSound
  <2>6. QuestionIsSound(query, s) => QuestionIsSound(query', s)
    BY <2>2, <2>3, <2>4 DEF QuestionIsSound, SearchIsSound, ReadIsSound, ShownIsSound, StandsIsSound
  <2>7. QED BY <1>2, <2>2, <2>4, <2>5, <2>6, WorkerKeepsSources DEF s
<1>5. CASE ReadPostings
  <2> DEFINE new == Postings(s, query.term)
  <2>1. /\ Keep /\ query.at = "postings"
        /\ query' = [query EXCEPT !.at = "lookup", !.hits = query.hits \union new]
    BY <1>5 DEF ReadPostings, s
  <2> HIDE DEF new
  <2>2. /\ query'.at = "lookup"
        /\ query'.group = query.group /\ query'.disturbed = query.disturbed
        /\ query'.read = query.read /\ query'.shown = query.shown
        /\ query'.hits = query.hits \union new
        /\ query'.terms = query.terms /\ query'.stands = query.stands
    BY <1>1, <2>1 DEF QueryHasItsFields
  <2>3. ToolIsSound(query')
    BY <2>2 DEF ToolIsSound
  <2>4. ASSUME QuestionIsSound(query, s) PROVE QuestionIsSound(query', s)
    <3>1. \A d \in Passages(s, new) : IsRelevant(d)
      BY <2>1, <2>4, PostingsAreRelevant DEF QuestionIsSound, SearchIsSound, new
    <3>2. \A d \in Passages(s, query'.hits) : IsRelevant(d)
      BY <2>2, <2>4, <3>1, PassagesOfUnion DEF QuestionIsSound, SearchIsSound
    <3>3. QED
      BY <2>1, <2>2, <2>4, <3>2
         DEF QuestionIsSound, SearchIsSound, ReadIsSound, ShownIsSound, StandsIsSound
  <2>5. QED BY <1>2, <2>1, <2>2, <2>3, <2>4, WorkerKeepsSources DEF s
<1>6. CASE SearchIsOver
  <2>1. Keep /\ query.at = "lookup"
    BY <1>6 DEF SearchIsOver
  <2>2. \/ query' = RefusalIsLeft
        \/ \E kept \in SUBSET query.hits :
             query' = [query EXCEPT !.at = "prompt", !.hits = kept, !.todo = kept]
    BY <1>6 DEF SearchIsOver
  <2>3. CASE query' = RefusalIsLeft
    BY <2>1, <2>3, LeavingKeepsSources
  <2>4. CASE \E kept \in SUBSET query.hits :
               query' = [query EXCEPT !.at = "prompt", !.hits = kept, !.todo = kept]
    <3>1. PICK kept \in SUBSET query.hits :
            query' = [query EXCEPT !.at = "prompt", !.hits = kept, !.todo = kept]
      BY <2>4
    <3>2. /\ query'.at = "prompt" /\ query'.todo = kept
          /\ query'.group = query.group /\ query'.disturbed = query.disturbed
          /\ query'.read = query.read /\ query'.shown = query.shown
          /\ query'.hits = kept /\ query'.stands = query.stands
      BY <1>1, <3>1 DEF QueryHasItsFields
    <3>3. ToolIsSound(query')
      BY <3>2 DEF ToolIsSound
    <3>4. Passages(s, kept \ kept) = {} /\ Passages(s, kept) \subseteq Passages(s, query.hits)
      BY DEF Passages
    <3>5. QuestionIsSound(query, s) => QuestionIsSound(query', s)
      BY <2>1, <3>2, <3>4
         DEF QuestionIsSound, SearchIsSound, ReadIsSound, ShownIsSound, StandsIsSound
    <3>6. QED BY <1>2, <2>1, <3>2, <3>3, <3>5, WorkerKeepsSources DEF s
  <2>5. QED BY <2>2, <2>3, <2>4
<1>7. CASE SearchFails
  BY <1>7, LeavingKeepsSources DEF SearchFails
<1>8. QED BY <1>3, <1>4, <1>5, <1>6, <1>7 DEF s

(* The prompt and the sources shown with the answer.                        *)
LEMMA AnswerKeepsSources ==
  ASSUME GroupInv, SourcesInv,
         \/ \E i \in 1 .. Cardinality(Names) : BuildPrompt(i) \/ CollectSource(i)
         \/ Answers \/ Refuses \/ FindsNoAnswer
  PROVE  SourcesInv'
<1> USE DEF QueryOnly, Worker
<1> DEFINE s == Schema(query.group)
<1>1. QueryHasItsFields
  BY DEF GroupInv
<1>2. IsCalm(query) => QuestionIsSound(query, s)
  BY CalmQuestion
<1> HIDE DEF s
<1>3. CASE \E i \in 1 .. Cardinality(Names) : BuildPrompt(i)
  <2>1. PICK i \in 1 .. Cardinality(Names) : BuildPrompt(i)
    BY <1>3
  <2> DEFINE rest == query.todo \ {i}
             read == query.read \union Passage(s, i)
  <2>2. /\ Keep /\ query.at = "prompt" /\ i \in query.todo
        /\ \/ query' \in {RefusalIsLeft, Failed}
           \/ query' = [query EXCEPT !.todo = rest, !.read = read,
                                     !.at = IF rest = {} THEN "generate" ELSE "prompt"]
    BY <2>1 DEF BuildPrompt, s
  <2>3. CASE query' \in {RefusalIsLeft, Failed}
    BY <2>2, <2>3, LeavingKeepsSources
  <2> HIDE DEF rest, read
  <2>4. CASE query' = [query EXCEPT !.todo = rest, !.read = read,
                                    !.at = IF rest = {} THEN "generate" ELSE "prompt"]
    <3>1. /\ query'.group = query.group /\ query'.disturbed = query.disturbed
          /\ query'.read = read /\ query'.shown = query.shown
          /\ query'.hits = query.hits /\ query'.todo = rest
          /\ query'.stands = query.stands
          /\ \/ query'.at = "prompt"
             \/ query'.at = "generate" /\ rest = {}
      BY <1>1, <2>4 DEF QueryHasItsFields
    <3>2. ToolIsSound(query')
      BY <3>1 DEF ToolIsSound
    <3>3. ASSUME QuestionIsSound(query, s) PROVE QuestionIsSound(query', s)
      <4>1. /\ query.todo \subseteq query.hits
            /\ Passages(s, query.hits \ query.todo) \subseteq query.read
            /\ query.disturbed = {} => query.read = Passages(s, query.hits \ query.todo)
            /\ \A d \in query.read \union Passages(s, query.hits) : IsRelevant(d)
            /\ query.shown = {}
        BY <2>2, <3>3 DEF QuestionIsSound, SearchIsSound, ReadIsSound, ShownIsSound
      <4>2. Passages(s, query.hits \ rest) =
              Passages(s, query.hits \ query.todo) \union Passage(s, i)
        <5>1. i \in query.todo /\ i \in query.hits
          BY <2>2, <4>1
        <5>2. query.hits \ rest = (query.hits \ query.todo) \union {i}
          BY <5>1 DEF rest
        <5>3. Passages(s, {i}) = Passage(s, i)
          BY DEF Passages
        <5>4. QED BY <5>2, <5>3, PassagesOfUnion
      <4>3. /\ Passages(s, query.hits \ rest) \subseteq read
            /\ query.disturbed = {} => read = Passages(s, query.hits \ rest)
        BY <4>1, <4>2 DEF read
      <4>4. \A d \in read : IsRelevant(d)
        <5>1. Passage(s, i) \subseteq Passages(s, query.hits)
          BY <2>2, <4>1 DEF Passages
        <5>2. QED BY <4>1, <5>1 DEF read
      <4>5. rest \subseteq query.hits /\ (rest = {} => query.hits \ rest = query.hits)
        BY <4>1 DEF rest
      <4>6. SearchIsSound(query', s)
        BY <3>1, <3>3 DEF QuestionIsSound, SearchIsSound
      <4>7. ReadIsSound(query', s)
        BY <3>1, <4>3, <4>4, <4>5 DEF ReadIsSound
      <4>8. ShownIsSound(query', s)
        BY <3>1, <4>1 DEF ShownIsSound
      <4>9. StandsIsSound(query', s)
        BY <3>1, <3>3 DEF QuestionIsSound, StandsIsSound
      <4>10. QED BY <3>1, <4>6, <4>7, <4>8, <4>9 DEF QuestionIsSound
    <3>4. QED BY <1>2, <2>2, <3>1, <3>2, <3>3, WorkerKeepsSources DEF s
  <2>5. QED BY <2>2, <2>3, <2>4
<1>4. CASE \E i \in 1 .. Cardinality(Names) : CollectSource(i)
  <2>1. PICK i \in 1 .. Cardinality(Names) : CollectSource(i)
    BY <1>4
  <2> DEFINE rest == query.todo \ {i}
             shown == query.shown \union Passage(s, i)
  <2>2. /\ Keep /\ query.at = "sources" /\ i \in query.todo
        /\ \/ rest # {} /\ query' = [query EXCEPT !.todo = rest, !.shown = shown]
           \/ rest = {} /\ query' = [query EXCEPT !.todo = rest, !.shown = shown,
                                                  !.at = "done", !.hits = {}]
    BY <1>1, <2>1 DEF CollectSource, s, QueryHasItsFields
  <2> HIDE DEF rest, shown
  <2>3. /\ query'.group = query.group /\ query'.disturbed = query.disturbed
        /\ query'.read = query.read /\ query'.shown = shown
        /\ query'.todo = rest /\ query'.stands = query.stands
        /\ \/ query'.at = "sources" /\ query'.hits = query.hits
           \/ query'.at = "done" /\ rest = {} /\ query'.hits = {}
    BY <1>1, <2>2 DEF QueryHasItsFields
  <2>4. ToolIsSound(query')
    BY <2>3 DEF ToolIsSound
  <2>5. ASSUME QuestionIsSound(query, s) PROVE QuestionIsSound(query', s)
    <3>1. /\ query.todo \subseteq query.hits
          /\ Passages(s, query.hits) \subseteq query.read
          /\ query.shown \subseteq query.read
          /\ query.disturbed = {} =>
               /\ query.read = Passages(s, query.hits)
               /\ query.shown = Passages(s, query.hits \ query.todo)
          /\ \A d \in query.read : IsRelevant(d)
      BY <2>2, <2>5 DEF QuestionIsSound, ReadIsSound, ShownIsSound
    <3>2. Passages(s, query.hits \ rest) =
            Passages(s, query.hits \ query.todo) \union Passage(s, i)
      <4>1. i \in query.todo /\ i \in query.hits
        BY <2>2, <3>1
      <4>2. query.hits \ rest = (query.hits \ query.todo) \union {i}
        BY <4>1 DEF rest
      <4>3. Passages(s, {i}) = Passage(s, i)
        BY DEF Passages
      <4>4. QED BY <4>2, <4>3, PassagesOfUnion
    <3>3. shown \subseteq query.read
      <4>1. Passage(s, i) \subseteq Passages(s, query.hits)
        BY <2>2, <3>1 DEF Passages
      <4>2. QED BY <3>1, <4>1 DEF shown
    <3>4. query.disturbed = {} => shown = Passages(s, query.hits \ rest)
      BY <3>1, <3>2 DEF shown
    <3>5. rest \subseteq query.hits /\ (rest = {} => query.hits \ rest = query.hits)
      BY <3>1 DEF rest
    <3>6. SearchIsSound(query', s)
      <4>1. Passages(s, {}) = {}
        BY DEF Passages
      <4>2. QED BY <2>3, <2>5, <4>1 DEF QuestionIsSound, SearchIsSound
    <3>7. ReadIsSound(query', s)
      BY <2>3, <3>1 DEF ReadIsSound
    <3>8. ShownIsSound(query', s)
      BY <2>3, <3>3, <3>4, <3>5 DEF ShownIsSound
    <3>9. query'.at = "done" => AnswerIsSound(query')
      <4> SUFFICES ASSUME query'.at = "done" PROVE AnswerIsSound(query')
        OBVIOUS
      <4>1. rest = {}
        BY <2>3
      <4>2. query.disturbed = {} => shown = query.read
        BY <3>1, <3>4, <3>5, <4>1
      <4>3. QED BY <2>3, <3>1, <3>3, <4>2 DEF AnswerIsSound
    <3>10. StandsIsSound(query', s)
      BY <2>3, <2>5 DEF QuestionIsSound, StandsIsSound
    <3>11. QED BY <3>6, <3>7, <3>8, <3>9, <3>10 DEF QuestionIsSound
  <2>6. QED BY <1>2, <2>2, <2>3, <2>4, <2>5, WorkerKeepsSources DEF s
<1>5. CASE Answers
  <2>1. /\ Keep /\ query.at = "generate"
        /\ query' = [query EXCEPT !.at = "sources", !.todo = query.hits,
                                  !.hits = query.hits, !.stands = NoRun, !.retry = FALSE]
    BY <1>5 DEF Answers, AdoptedRun
  <2>2. /\ query'.group = query.group /\ query'.disturbed = query.disturbed
        /\ query'.read = query.read /\ query'.shown = query.shown
        /\ query'.hits = query.hits /\ query'.stands = NoRun
        /\ query'.at = "sources" /\ query'.todo = query.hits
    BY <1>1, <2>1 DEF QueryHasItsFields
  <2>3. ToolIsSound(query')
    BY <2>2 DEF ToolIsSound
  <2>4. Passages(s, query.hits \ query.hits) = {} /\ Passages(s, {}) = {}
    BY DEF Passages
  <2>5. NoRun.hits = {} /\ NoRun.read = {}
    BY DEF NoRun
  <2>6. QuestionIsSound(query, s) => QuestionIsSound(query', s)
    BY <2>1, <2>2, <2>4, <2>5
       DEF QuestionIsSound, SearchIsSound, ReadIsSound, ShownIsSound, StandsIsSound
  <2>7. QED BY <1>2, <2>1, <2>2, <2>3, <2>6, WorkerKeepsSources DEF s
<1>6. CASE Refuses
  <2> DEFINE refused == [hits |-> query.hits, read |-> query.read]
  <2>1. /\ Keep /\ query.at = "generate"
        /\ \/ query' = [query EXCEPT !.at = "fallback", !.stands = refused]
           \/ query' = [query EXCEPT !.at = "lookup", !.terms = Question,
                                     !.hits = {}, !.read = {}, !.stands = refused]
    BY <1>6 DEF Refuses
  <2>2. refused.hits = query.hits /\ refused.read = query.read
    OBVIOUS
  <2> HIDE DEF refused
  <2>3. /\ query'.group = query.group /\ query'.disturbed = query.disturbed
        /\ query'.shown = query.shown /\ query'.stands = refused
        /\ \/ query'.at = "fallback" /\ query'.hits = query.hits
           \/ /\ query'.at = "lookup" /\ query'.terms = Question
              /\ query'.hits = {} /\ query'.read = {}
    BY <1>1, <2>1 DEF QueryHasItsFields
  <2>4. ToolIsSound(query')
    BY <2>3 DEF ToolIsSound
  <2>5. Passages(s, {}) = {}
    BY DEF Passages
  <2>6. ASSUME QuestionIsSound(query, s) PROVE QuestionIsSound(query', s)
    <3>1. SearchIsSound(query', s)
      BY <2>3, <2>5, <2>6 DEF QuestionIsSound, SearchIsSound
    <3>2. ReadIsSound(query', s)
      BY <2>3 DEF ReadIsSound
    <3>3. ShownIsSound(query', s)
      BY <2>1, <2>3, <2>6 DEF QuestionIsSound, ShownIsSound
    <3>4. StandsIsSound(query', s)
      BY <2>1, <2>2, <2>3, <2>6 DEF QuestionIsSound, ReadIsSound, StandsIsSound
    <3>5. QED BY <2>3, <3>1, <3>2, <3>3, <3>4 DEF QuestionIsSound
  <2>7. QED BY <1>2, <2>1, <2>3, <2>4, <2>6, WorkerKeepsSources DEF s
<1>7. CASE FindsNoAnswer
  BY <1>7, LeavingKeepsSources DEF FindsNoAnswer
<1>8. QED BY <1>3, <1>4, <1>5, <1>6, <1>7

(* The reading of documents, and the answer from a summary, which promises  *)
(* nothing about its sources.                                               *)
LEMMA ReadingKeepsSources ==
  ASSUME GroupInv, SourcesInv,
         \/ SearchFallback \/ ReadDocuments \/ CollectDocuments \/ Decline
         \/ CountDocuments \/ GetCorpusSummary \/ BuildSummary \/ SetCorpusSummary
         \/ AnswerFromSummary \/ ListDocuments
  PROVE  SourcesInv'
<1> USE DEF QueryOnly, Worker
<1> DEFINE s == Schema(query.group)
<1>1. QueryHasItsFields
  BY DEF GroupInv
<1>2. IsCalm(query) => QuestionIsSound(query, s)
  BY CalmQuestion
<1> HIDE DEF s
<1>3. CASE SearchFallback
  <2>1. /\ Keep /\ query.at = "fallback"
        /\ \/ query' = [query EXCEPT !.at = "count", !.tool = "summary", !.retry = FALSE]
           \/ query' = [query EXCEPT !.at = "read", !.tool = "read"]
    BY <1>3 DEF SearchFallback
  <2>2. /\ query'.group = query.group /\ query'.disturbed = query.disturbed
        /\ query'.hits = query.hits /\ query'.stands = query.stands
        /\ query'.shown = query.shown
        /\ \/ query'.at = "count" /\ query'.tool = "summary"
           \/ query'.at = "read" /\ query'.tool = "read"
    BY <1>1, <2>1 DEF QueryHasItsFields
  <2>3. ToolIsSound(query')
    BY <2>2 DEF ToolIsSound
  <2>4. QuestionIsSound(query, s) => QuestionIsSound(query', s)
    BY <2>1, <2>2
       DEF QuestionIsSound, SearchIsSound, ReadIsSound, ShownIsSound, StandsIsSound
  <2>5. QED BY <1>2, <2>1, <2>2, <2>3, <2>4, WorkerKeepsSources DEF s
<1>4. CASE ReadDocuments
  <2>1. /\ Keep /\ query.at = "read"
        /\ \/ query' = [query EXCEPT !.at = "readSources", !.read = AllDocuments(s)]
           \/ query' = [query EXCEPT !.at = "count", !.tool = "summary"]
           \/ query' = Failed
    BY <1>4 DEF ReadDocuments, s
  <2>2. CASE query' = Failed
    BY <2>1, <2>2, LeavingKeepsSources
  <2>3. CASE \/ query' = [query EXCEPT !.at = "readSources", !.read = AllDocuments(s)]
             \/ query' = [query EXCEPT !.at = "count", !.tool = "summary"]
    <3>1. /\ query'.group = query.group /\ query'.disturbed = query.disturbed
          /\ query'.hits = query.hits /\ query'.stands = query.stands
          /\ query'.shown = query.shown
          /\ \/ query'.at = "readSources" /\ query'.read = AllDocuments(s)
                  /\ query'.tool = query.tool
             \/ query'.at = "count" /\ query'.tool = "summary"
      BY <1>1, <2>3 DEF QueryHasItsFields
    <3>2. ToolIsSound(query')
      BY <2>1, <3>1 DEF SourcesInv, ToolIsSound
    <3>3. QuestionIsSound(query, s) => QuestionIsSound(query', s)
      BY <2>1, <3>1
         DEF QuestionIsSound, SearchIsSound, ReadIsSound, ShownIsSound, StandsIsSound
    <3>4. QED BY <1>2, <2>1, <3>1, <3>2, <3>3, WorkerKeepsSources DEF s
  <2>4. QED BY <2>1, <2>2, <2>3
<1>5. CASE CollectDocuments
  <2>1. /\ Keep /\ query.at = "readSources"
        /\ query' = [query EXCEPT !.at = "done", !.retry = FALSE, !.hits = {},
                                  !.stands = NoRun, !.shown = AllDocuments(s)]
    BY <1>1, <1>5 DEF CollectDocuments, Over, s, QueryHasItsFields
  <2>2. /\ query'.group = query.group /\ query'.disturbed = query.disturbed
        /\ query'.hits = {} /\ query'.at = "done" /\ query'.stands = NoRun
        /\ query'.tool = query.tool
        /\ query'.read = query.read /\ query'.shown = AllDocuments(s)
    BY <1>1, <2>1 DEF QueryHasItsFields
  <2>3. ToolIsSound(query') /\ query.tool = "read"
    BY <2>1, <2>2 DEF SourcesInv, ToolIsSound
  <2>4. NoRun.hits = {} /\ NoRun.read = {} /\ Passages(s, {}) = {}
    BY DEF NoRun, Passages
  <2>5. ASSUME QuestionIsSound(query, s) PROVE QuestionIsSound(query', s)
    <3>1. AnswerIsSound(query')
      BY <2>1, <2>2, <2>3, <2>5 DEF QuestionIsSound, ReadIsSound, AnswerIsSound
    <3>2. QED
      BY <2>2, <2>4, <3>1
         DEF QuestionIsSound, SearchIsSound, ReadIsSound, ShownIsSound, StandsIsSound
  <2>6. QED BY <1>2, <2>1, <2>2, <2>3, <2>5, WorkerKeepsSources DEF s
<1>6. CASE Decline
  <2>1. /\ Keep /\ query.at \in {"readSources", "listing"}
        /\ \/ query' = Failed
           \/ query' = [query EXCEPT !.at = "sources", !.tool = "search",
                                     !.hits = query.stands.hits,
                                     !.todo = query.stands.hits,
                                     !.read = query.stands.read,
                                     !.stands = NoRun, !.retry = FALSE,
                                     !.fromCache = FALSE, !.counted = {}]
    BY <1>6 DEF Decline
  <2>2. CASE query' = Failed
    BY <2>1, <2>2, LeavingKeepsSources
  <2>3. CASE query' = [query EXCEPT !.at = "sources", !.tool = "search",
                                    !.hits = query.stands.hits,
                                    !.todo = query.stands.hits,
                                    !.read = query.stands.read,
                                    !.stands = NoRun, !.retry = FALSE,
                                    !.fromCache = FALSE, !.counted = {}]
    <3>1. /\ query'.group = query.group /\ query'.disturbed = query.disturbed
          /\ query'.hits = query.stands.hits /\ query'.todo = query.stands.hits
          /\ query'.read = query.stands.read /\ query'.shown = query.shown
          /\ query'.stands = NoRun /\ query'.at = "sources"
      BY <1>1, <2>3 DEF QueryHasItsFields
    <3>2. ToolIsSound(query')
      BY <3>1 DEF ToolIsSound
    <3>3. NoRun.hits = {} /\ NoRun.read = {} /\ Passages(s, {}) = {}
      BY DEF NoRun, Passages
    <3>4. ASSUME QuestionIsSound(query, s) PROVE QuestionIsSound(query', s)
      <4>1. /\ Passages(s, query.stands.hits) \subseteq query.stands.read
            /\ query.disturbed = {} => query.stands.read = Passages(s, query.stands.hits)
            /\ \A d \in query.stands.read : IsRelevant(d)
            /\ query.shown = {}
        BY <2>1, <3>4 DEF QuestionIsSound, ShownIsSound, StandsIsSound
      <4>2. query.stands.hits \ query.stands.hits = {}
        OBVIOUS
      <4>3. SearchIsSound(query', s)
        BY <3>1, <4>1 DEF SearchIsSound
      <4>4. ReadIsSound(query', s) /\ StandsIsSound(query', s)
        BY <3>1, <3>3, <4>1 DEF ReadIsSound, StandsIsSound
      <4>5. ShownIsSound(query', s)
        BY <3>1, <3>3, <4>1, <4>2 DEF ShownIsSound
      <4>6. QED BY <3>1, <4>3, <4>4, <4>5 DEF QuestionIsSound
    <3>5. QED BY <1>2, <2>1, <3>1, <3>2, <3>4, WorkerKeepsSources DEF s
  <2>4. QED BY <2>1, <2>2, <2>3
<1>7. CASE \/ CountDocuments \/ GetCorpusSummary \/ BuildSummary \/ SetCorpusSummary
           \/ AnswerFromSummary \/ ListDocuments
  <2> DEFINE Counts == {"count", "cached", "build", "store", "summarise", "listing"}
  <2>1. /\ Keep /\ query.at \in Counts
        /\ query'.group = query.group /\ query'.disturbed = query.disturbed
        /\ query'.hits \in {{}, query.hits} /\ query'.stands \in {NoRun, query.stands}
        /\ query'.at \in Counts \union {"done"}
        /\ query'.at = "done" \/ query'.shown = query.shown
        /\ \/ query'.tool = query.tool
           \/ query'.at = "done" /\ query'.tool = "none"
    <3> USE DEF Over, Failed
    <3>1. CASE CountDocuments
      BY <1>1, <3>1 DEF CountDocuments, QueryHasItsFields
    <3>2. CASE GetCorpusSummary
      BY <1>1, <3>2 DEF GetCorpusSummary, QueryHasItsFields
    <3>3. CASE BuildSummary
      BY <1>1, <3>3 DEF BuildSummary, QueryHasItsFields
    <3>4. CASE SetCorpusSummary
      BY <1>1, <3>4 DEF SetCorpusSummary, QueryHasItsFields
    <3>5. CASE AnswerFromSummary
      BY <1>1, <3>5 DEF AnswerFromSummary, QueryHasItsFields
    <3>6. CASE ListDocuments
      BY <1>1, <3>6 DEF ListDocuments, QueryHasItsFields
    <3>7. QED BY <1>7, <3>1, <3>2, <3>3, <3>4, <3>5, <3>6
  <2>2. query.tool = "summary"
    BY <2>1 DEF SourcesInv, ToolIsSound
  <2>3. ToolIsSound(query')
    BY <2>1, <2>2 DEF ToolIsSound
  <2>4. NoRun.hits = {} /\ NoRun.read = {} /\ Passages(s, {}) = {}
    BY DEF NoRun, Passages
  <2>5. ASSUME QuestionIsSound(query, s) PROVE QuestionIsSound(query', s)
    <3>1. SearchIsSound(query', s)
      BY <2>1, <2>4, <2>5 DEF QuestionIsSound, SearchIsSound
    <3>2. ReadIsSound(query', s)
      BY <2>1 DEF ReadIsSound
    <3>3. ShownIsSound(query', s)
      BY <2>1, <2>5 DEF QuestionIsSound, ShownIsSound
    <3>4. StandsIsSound(query', s)
      BY <2>1, <2>4, <2>5 DEF QuestionIsSound, StandsIsSound
    <3>5. QED BY <2>1, <2>2, <3>1, <3>2, <3>3, <3>4 DEF QuestionIsSound
  <2>6. QED BY <1>2, <2>1, <2>3, <2>5, WorkerKeepsSources DEF s
<1>8. QED BY <1>3, <1>4, <1>5, <1>6, <1>7

-----------------------------------------------------------------------------
(* The sources shown are what the model was given, and what a search gave   *)
(* it mentions a word of the question, for every order of the worker's      *)
(* statements and of removals between them, as long as the group is neither *)
(* rebuilt nor deleted under the question (SourcesAreWhatWasRead).          *)
THEOREM SourcesAreTrue == Spec => []SourcesAreWhatWasRead
<1>1. Init => SourcesInv
  BY DEF Init, SourcesInv, ToolIsSound, IsCalm, Idle
<1>2. GroupInv /\ SourcesInv /\ [Next]_vars => SourcesInv'
  BY UserKeepsSources, SearchKeepsSources, AnswerKeepsSources, ReadingKeepsSources
     DEF Next, QueryStep
<1>3. GroupInv /\ SourcesInv => SourcesAreWhatWasRead
  BY SourcesFollow
<1>4. QED BY <1>1, <1>2, <1>3, GroupsAreSound, PTL DEF Spec
=============================================================================
