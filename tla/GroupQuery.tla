----------------------------- MODULE GroupQuery -----------------------------
(***************************************************************************)
(* Questions asked of document groups while the groups change:             *)
(*  - the UI thread (AppController): creates, selects and deletes groups,  *)
(*    removes a document, starts an ingest, asks a question;               *)
(*  - the IngestWorker, of which only the instant of the schema swap is    *)
(*    seen here (module CorpusRebuild has the rest);                       *)
(*  - the QueryWorker, one step per statement it sends: it searches the    *)
(*    group's index (retrieval.c, bm25.c), fetches passages by number for  *)
(*    the prompt and again for the sources shown (generation.c), reads the *)
(*    documents whole, or serves and fills the group's cached summary      *)
(*    (corpus_summary.c).                                                  *)
(* Every statement of the worker is a transaction of its own, and it names *)
(* its tables through a search path: the tables it meets are those that    *)
(* bear the group's schema name at that instant.                           *)
(***************************************************************************)
EXTENDS Naturals, FiniteSets, Functions

CONSTANTS
  Groups,          (* the identifiers the registry may hand out             *)
  Names, Texts,    (* documents are named texts                             *)
  Terms,           (* words of the language                                 *)
  Mentions,        (* the texts each word occurs in                         *)
  Question,        (* the words the question is searched by                 *)
  Uploads,         (* the documents the user's files hold                   *)
  PublicDocuments, (* what the command line has put into the public schema  *)
  NoGroup,
  MaxIngests,      (* bound: ingests started                                *)
  MaxRemovals,     (* bound: documents removed                              *)
  MaxQueries       (* bound: questions asked                                *)

Document == [name : Names, text : Texts]

ASSUME GroupQueryAssumption ==
  /\ NoGroup \notin Groups
  /\ Mentions \in [Terms -> SUBSET Texts]
  /\ Question \subseteq Terms
  /\ Uploads \subseteq Document /\ IsFiniteSet(Uploads)
  /\ PublicDocuments \subseteq Document
  /\ MaxIngests \in Nat /\ MaxRemovals \in Nat /\ MaxQueries \in Nat

VARIABLES
  corpora,   (* public.corpora: the groups that exist                       *)
  issued,    (* identifiers handed out so far: they never come back         *)
  live,      (* the index under each group's schema name                    *)
  summaries, (* public.corpus_summaries: a set of rows                      *)
  active,    (* m_activeCorpusId                                            *)
  ingest,    (* the running IngestWorker: its group and what it brings      *)
  query,     (* the running QueryWorker                                     *)
  held,      (* history: every document a group has ever had                *)
  shrunk,    (* history: groups that have lost a document or a version      *)
  ingests, removals, queries

storeVars == <<corpora, issued, live, summaries>>
historyVars == <<held, shrunk>>
countVars == <<ingests, removals, queries>>
vars == <<storeVars, active, ingest, query, historyVars, countVars>>

-----------------------------------------------------------------------------
(* A schema: which document each passage number was cut from, and which     *)
(* word each term number stands for. One passage stands for a document's.   *)

Numbering(S) ==
  {f \in [1 .. Cardinality(S) -> S] : \A i, j \in DOMAIN f : f[i] = f[j] => i = j}

IndexedTerms(docs) ==
  {t \in Terms : \E d \in docs : d.text \in Mentions[t]}

(* Loader threads take numbers in any order, and every load counts from 1.  *)
Loaded(docs) ==
  [passages : Numbering(docs), terms : Numbering(IndexedTerms(docs))]

EmptySchema == [passages |-> << >>, terms |-> << >>]

PublicSchema == CHOOSE s \in Loaded(PublicDocuments) : TRUE

(* SET search_path TO corpus_N, public: a name missing from the first       *)
(* schema is looked up in the second.                                       *)
(* Mutant: the worker's statements go through the UI's own connection.      *)
SchemaOnScreen(g) == IF active \in corpora THEN live[active] ELSE PublicSchema

Schema(g) == IF g \in corpora THEN live[g] ELSE PublicSchema

AllDocuments(s) == Range(s.passages)

(* Passages of one document go; the numbers of the others stay, and so do   *)
(* the numbers of the terms that still have postings.                       *)
WithoutDocument(s, n) ==
  LET kept == {i \in DOMAIN s.passages : s.passages[i].name # n}
      docs == {s.passages[i] : i \in kept}
  IN  [passages |-> Restrict(s.passages, kept),
       terms    |-> Restrict(s.terms,
                      {i \in DOMAIN s.terms : s.terms[i] \in IndexedTerms(docs)})]

(* The numbers a term is stored under: none, or one.                        *)
LookupTerm(s, t) == {i \in DOMAIN s.terms : s.terms[i] = t}

Postings(s, id) ==
  IF id \notin DOMAIN s.terms THEN {}
  ELSE {i \in DOMAIN s.passages : s.passages[i].text \in Mentions[s.terms[id]]}

Passage(s, i) == IF i \in DOMAIN s.passages THEN {s.passages[i]} ELSE {}

-----------------------------------------------------------------------------
(* The query worker's own state.                                            *)

(* A retrieval run: the passages it kept, and what the prompt made of them. *)
NoRun == [hits |-> {}, read |-> {}]

(* retry: the question was asked again ("Try harder"), and what its fallback*)
(*   says may yet be declined.                                              *)
(* stands: the run whose refusal stands meanwhile, while something deeper   *)
(*   is tried: the search once more, or, on a retry, the fallback.          *)
Idle ==
  [at |-> "idle", group |-> NoGroup, retry |-> FALSE, terms |-> {}, term |-> 0,
   hits |-> {}, todo |-> {}, read |-> {}, stands |-> NoRun, shown |-> {},
   tool |-> "none", count |-> 0, fromCache |-> FALSE, counted |-> {},
   disturbed |-> {}]

NoIngest == [group |-> NoGroup, brings |-> {}]

Stations == {"idle", "open", "lookup", "postings", "prompt", "generate",
             "sources", "fallback", "read", "readSources", "count", "cached",
             "build", "store", "summarise", "listing", "done"}

(* Types, and the references between the tables: a summary belongs to a     *)
(* group that exists, even one that was being written when the group was    *)
(* deleted (corpus_summaries: FOREIGN KEY, ON DELETE CASCADE); no group has *)
(* two; the group on screen and the group being rebuilt exist.              *)
GroupTypeOK ==
  /\ corpora \subseteq issued /\ issued \subseteq Groups
  /\ \A g \in Groups :
       /\ IsInjective(live[g].passages) /\ IsInjective(live[g].terms)
       /\ AllDocuments(live[g]) \subseteq held[g]
  /\ summaries \subseteq [group : corpora, count : Nat, of : SUBSET Document]
  /\ \A r, s \in summaries : r.group = s.group => r = s
  /\ active \in corpora \union {NoGroup}
  /\ ingest.group \in corpora \union {NoGroup}
  /\ query.at \in Stations
  /\ query.at # "idle" => query.group \in issued

Init ==
  /\ corpora = {} /\ issued = {}
  /\ live = [g \in Groups |-> EmptySchema]
  /\ summaries = {}
  /\ active = NoGroup
  /\ ingest = NoIngest
  /\ query = Idle
  /\ held = [g \in Groups |-> {}]
  /\ shrunk = {}
  /\ ingests = 0 /\ removals = 0 /\ queries = 0

(* What happened to the group of the running question since it was asked.   *)
Disturb(g, what) ==
  IF query.group = g
  THEN [query EXCEPT !.disturbed = @ \union {what}]
  ELSE query

-----------------------------------------------------------------------------
(* UI thread.                                                               *)

CreateCorpus(g) ==
  /\ g \notin issued
  /\ issued' = issued \union {g}
  /\ corpora' = corpora \union {g}
  /\ live' = [live EXCEPT ![g] = EmptySchema]

CreateGroup(g) ==
  /\ CreateCorpus(g)
  /\ UNCHANGED <<summaries, active, ingest, query, historyVars, countVars>>

(* One transaction: the schema is dropped, and the registry row takes the   *)
(* summary with it (ON DELETE CASCADE).                                     *)
DeleteCorpus(g) ==
  /\ g \in corpora
  /\ corpora' = corpora \ {g}
  /\ live' = [live EXCEPT ![g] = EmptySchema]
  /\ summaries' = {r \in summaries : r.group # g}
  /\ UNCHANGED issued

(* Mutant: the group that is being rebuilt may be deleted.                  *)
DeleteGroupAnyway(g) ==
  /\ DeleteCorpus(g)
  /\ active' = IF active = g THEN NoGroup ELSE active
  /\ query' = Disturb(g, "deletion")
  /\ UNCHANGED <<ingest, historyVars, countVars>>

DeleteGroup(g) ==
  /\ g # ingest.group
  /\ DeleteCorpus(g)
  /\ active' = IF active = g THEN NoGroup ELSE active
  /\ query' = Disturb(g, "deletion")
  /\ UNCHANGED <<ingest, historyVars, countVars>>

SelectGroup(g) ==
  /\ g \in corpora
  /\ active' = g
  /\ UNCHANGED <<storeVars, ingest, query, historyVars, countVars>>

RemoveDocument(n) ==
  /\ removals < MaxRemovals
  /\ active # NoGroup
  /\ ingest = NoIngest
  /\ \E d \in AllDocuments(live[active]) : d.name = n
  /\ live' = [live EXCEPT ![active] = WithoutDocument(@, n)]
  /\ query' = Disturb(active, "removal")
  /\ shrunk' = shrunk \union {active}
  /\ removals' = removals + 1
  /\ UNCHANGED <<corpora, issued, summaries, active, ingest, held, ingests, queries>>

StartIngest(docs) ==
  /\ ingests < MaxIngests
  /\ active # NoGroup
  /\ ingest = NoIngest
  /\ ingest' = [group |-> active, brings |-> docs]
  /\ ingests' = ingests + 1
  /\ UNCHANGED <<storeVars, active, query, historyVars, removals, queries>>

(* A question, or the last one again (retryLastAnswer). A question of the   *)
(* group being rebuilt is refused; a rebuild of the group being asked is not.*)
SendChatMessage ==
  /\ queries < MaxQueries
  /\ active # NoGroup
  /\ active # ingest.group
  /\ query.at = "idle"
  /\ \E again \in BOOLEAN :
       query' = [Idle EXCEPT !.at = "open", !.group = active, !.retry = again]
  /\ queries' = queries + 1
  /\ UNCHANGED <<storeVars, active, ingest, historyVars, ingests, removals>>

OnQueryFinished ==
  /\ query.at = "done"
  /\ query' = Idle
  /\ UNCHANGED <<storeVars, active, ingest, historyVars, countVars>>

-----------------------------------------------------------------------------
(* The ingest worker's last step: the schema built from the group's own     *)
(* documents and the new ones takes the group's name, or nothing changes.   *)

Merged(old, new) == {d \in old : \A e \in new : e.name # d.name} \union new

SwapCorpusSchema ==
  /\ ingest # NoIngest
  /\ LET g   == ingest.group
         old == AllDocuments(live[g])
         new == Merged(old, ingest.brings)
     IN  /\ live' \in {[live EXCEPT ![g] = s] : s \in Loaded(new)}
         /\ held' = [held EXCEPT ![g] = @ \union new]
         /\ shrunk' = IF old \subseteq new THEN shrunk ELSE shrunk \union {g}
         /\ query' = Disturb(g, "swap")
  /\ ingest' = NoIngest
  /\ UNCHANGED <<corpora, issued, summaries, active, countVars>>

AbandonIngest ==
  /\ ingest # NoIngest
  /\ ingest' = NoIngest
  /\ UNCHANGED <<storeVars, active, query, historyVars, countVars>>

-----------------------------------------------------------------------------
(* The query worker.                                                        *)

Keep == UNCHANGED <<corpora, issued, live, active, ingest, historyVars, countVars>>
Worker(q) == query' = q /\ Keep
QueryOnly(q) == Worker(q) /\ UNCHANGED summaries

(* The pipelines return: with an answer and its sources, or without one.    *)
Over == [query EXCEPT !.at = "done", !.retry = FALSE, !.hits = {}, !.stands = NoRun]

Failed == [Over EXCEPT !.tool = "none"]

(* Whether the connection's tables are the group's is settled here once: a  *)
(* group that is gone already ends the query. The router then picks a tool; *)
(* a retry always searches.                                                 *)
UseCorpus ==
  /\ query.at = "open"
  /\ IF query.group \notin corpora
     THEN QueryOnly(Over)
     ELSE \/ QueryOnly([query EXCEPT !.at = "lookup", !.tool = "search",
                                     !.terms = Question])
          \/ /\ ~query.retry
             /\ QueryOnly([query EXCEPT !.at = "count", !.tool = "summary"])

(* bm25_search_weighted: for each word, its number, then by that number the *)
(* postings; a word the index does not have is passed over.                 *)
LookUp(t) ==
  /\ query.at = "lookup"
  /\ t \in query.terms
  /\ LET rest == query.terms \ {t}
         ids  == LookupTerm(Schema(query.group), t)
     IN  IF ids # {}
         THEN QueryOnly([query EXCEPT !.at = "postings", !.terms = rest,
                                      !.term = CHOOSE i \in ids : TRUE])
         ELSE QueryOnly([query EXCEPT !.terms = rest])

ReadPostings ==
  /\ query.at = "postings"
  /\ QueryOnly([query EXCEPT !.at = "lookup",
                             !.hits = @ \union Postings(Schema(query.group), query.term)])

(* The first run of a question, or the one that follows a refusal.          *)
Rerunning == query.stands # NoRun

(* The search again has nothing better: the refusal leads to the fallback,  *)
(* which a fresh question always adopts or fails with.                      *)
RefusalIsLeft == [query EXCEPT !.at = "fallback", !.stands = NoRun]

(* retrieval_run trims what it found: to at least one passage, or to any    *)
(* number of them, the floor being off in the run after a refusal.          *)
SearchIsOver ==
  /\ query.at = "lookup"
  /\ query.terms = {}
  /\ IF query.hits = {}
     THEN QueryOnly(RefusalIsLeft)
     ELSE \E kept \in SUBSET query.hits :
            /\ kept # {}
            /\ QueryOnly([query EXCEPT !.at = "prompt", !.hits = kept, !.todo = kept])

(* A statement of the search fails: retrieval_run returns nothing.          *)
SearchFails ==
  /\ query.at = "lookup"
  /\ QueryOnly(IF Rerunning THEN RefusalIsLeft ELSE Failed)

(* generation_build_prompt: a passage that does not load is left out; with  *)
(* none left there is no prompt and no answer.                              *)
BuildPrompt(i) ==
  /\ query.at = "prompt"
  /\ i \in query.todo
  /\ LET rest == query.todo \ {i}
         read == query.read \union Passage(Schema(query.group), i)
     IN  IF rest = {} /\ read = {}
         THEN QueryOnly(IF Rerunning THEN RefusalIsLeft ELSE Failed)
         ELSE QueryOnly([query EXCEPT !.todo = rest, !.read = read,
                                      !.at = IF rest = {} THEN "generate" ELSE "prompt"])

(* The run that is adopted together with its answer.                        *)
(* Mutant: the answer of the second run is adopted, the run is not.         *)
FirstRun(q) == IF q.stands = NoRun THEN q.hits ELSE q.stands.hits

AdoptedRun(q) == q.hits

(* The model answers, and the sources come from the run it answered from.   *)
Answers ==
  /\ query.at = "generate"
  /\ QueryOnly([query EXCEPT !.at = "sources", !.todo = AdoptedRun(query),
                             !.hits = AdoptedRun(query), !.stands = NoRun,
                             !.retry = FALSE])

(* It refuses: a fresh question is searched once more, deeper; a question   *)
(* that is a retry goes on to the fallback, its refusal standing meanwhile. *)
Refuses ==
  /\ query.at = "generate"
  /\ ~Rerunning
  /\ LET refused == [hits |-> query.hits, read |-> query.read]
     IN  IF query.retry
         THEN QueryOnly([query EXCEPT !.at = "fallback", !.stands = refused])
         ELSE QueryOnly([query EXCEPT !.at = "lookup", !.terms = Question,
                                      !.hits = {}, !.read = {}, !.stands = refused])

(* It refuses the second run too, or says nothing about it; or it is silent *)
(* at once.                                                                 *)
FindsNoAnswer ==
  /\ query.at = "generate"
  /\ QueryOnly(IF Rerunning THEN RefusalIsLeft ELSE Failed)

CollectSource(i) ==
  /\ query.at = "sources"
  /\ i \in query.todo
  /\ LET rest == query.todo \ {i}
         met  == [query EXCEPT !.todo = rest,
                               !.shown = @ \union Passage(Schema(query.group), i)]
     IN  QueryOnly(IF rest = {} THEN [met EXCEPT !.at = "done", !.hits = {}] ELSE met)

(* runSearchFallback: read everything, or, when the group is empty or too   *)
(* big to read, answer from its summary. Of an empty group the summary is   *)
(* never declined.                                                          *)
SearchFallback ==
  /\ query.at = "fallback"
  /\ IF AllDocuments(Schema(query.group)) = {}
     THEN QueryOnly([query EXCEPT !.at = "count", !.tool = "summary", !.retry = FALSE])
     ELSE QueryOnly([query EXCEPT !.at = "read", !.tool = "read"])

(* On a retry the fallback refuses, too, and is declined: the refusal that  *)
(* stands is the answer, with the sources of its own run; with no run that  *)
(* found anything there is no answer.                                       *)
Decline ==
  /\ query.at \in {"readSources", "listing"}
  /\ query.retry
  /\ IF query.stands = NoRun
     THEN QueryOnly(Failed)
     ELSE QueryOnly([query EXCEPT !.at = "sources", !.tool = "search",
                                  !.hits = query.stands.hits,
                                  !.todo = query.stands.hits,
                                  !.read = query.stands.read,
                                  !.stands = NoRun, !.retry = FALSE,
                                  !.fromCache = FALSE, !.counted = {}])

ReadDocuments ==
  /\ query.at = "read"
  /\ LET docs == AllDocuments(Schema(query.group))
     IN  \/ /\ docs # {}
            /\ QueryOnly([query EXCEPT !.at = "readSources", !.read = docs])
         \/ /\ docs # {}
            /\ QueryOnly([query EXCEPT !.at = "count", !.tool = "summary"])
         \/ QueryOnly(Failed)

CollectDocuments ==
  /\ query.at = "readSources"
  /\ QueryOnly([Over EXCEPT !.shown = AllDocuments(Schema(query.group))])

-----------------------------------------------------------------------------
(* corpus_summary_get_or_build, statement by statement.                     *)

CountDocuments ==
  /\ query.at = "count"
  /\ LET docs == AllDocuments(Schema(query.group))
     IN  IF docs = {}
         THEN QueryOnly(Over)
         ELSE QueryOnly([query EXCEPT !.at = "cached", !.count = Cardinality(docs),
                                      !.counted = docs])

(* Mutant: a summary is kept as long as the group has not become smaller.   *)
CachedIsNotTooBig(row, count) == row.count <= count

CachedIsCurrent(row, count) == row.count = count

GetCorpusSummary ==
  /\ query.at = "cached"
  /\ LET rows == {r \in summaries : /\ r.group = query.group
                                    /\ CachedIsCurrent(r, query.count)}
     IN  IF rows = {}
         THEN QueryOnly([query EXCEPT !.at = "build"])
         ELSE QueryOnly([query EXCEPT !.at = "summarise", !.fromCache = TRUE,
                                      !.read = (CHOOSE r \in rows : TRUE).of])

(* A silent model and an emptied group look alike to the caller: it reports *)
(* that there is nothing to summarise.                                      *)
BuildSummary ==
  /\ query.at = "build"
  /\ LET docs == AllDocuments(Schema(query.group))
     IN  \/ /\ docs # {}
            /\ QueryOnly([query EXCEPT !.at = "store", !.read = docs])
         \/ QueryOnly(Over)

(* An upsert; the foreign key refuses the summary of a group that is gone.  *)
SetCorpusSummary ==
  /\ query.at = "store"
  /\ \/ /\ query.group \in corpora
        /\ summaries' = {r \in summaries : r.group # query.group}
             \union {[group |-> query.group, count |-> query.count, of |-> query.read]}
     \/ UNCHANGED summaries
  /\ Worker([query EXCEPT !.at = "summarise"])

AnswerFromSummary ==
  /\ query.at = "summarise"
  /\ \/ QueryOnly([query EXCEPT !.at = "listing"])
     \/ QueryOnly(Failed)

ListDocuments ==
  /\ query.at = "listing"
  /\ QueryOnly([Over EXCEPT !.shown = AllDocuments(Schema(query.group))])

-----------------------------------------------------------------------------
Drops == {D \in SUBSET Uploads :
            /\ D # {}
            /\ \A d, e \in D : d.name = e.name => d = e}

UserStep ==
  \/ \E g \in Groups : CreateGroup(g) \/ DeleteGroup(g) \/ SelectGroup(g)
  \/ \E n \in Names : RemoveDocument(n)
  \/ \E D \in Drops : StartIngest(D)
  \/ SendChatMessage

QueryStep ==
  \/ UseCorpus
  \/ \E t \in Terms : LookUp(t)
  \/ ReadPostings
  \/ SearchIsOver
  \/ SearchFails
  \/ \E i \in 1 .. Cardinality(Names) : BuildPrompt(i) \/ CollectSource(i)
  \/ Answers
  \/ Refuses
  \/ FindsNoAnswer
  \/ SearchFallback
  \/ ReadDocuments
  \/ CollectDocuments
  \/ Decline
  \/ CountDocuments
  \/ GetCorpusSummary
  \/ BuildSummary
  \/ SetCorpusSummary
  \/ AnswerFromSummary
  \/ ListDocuments

Next ==
  \/ UserStep
  \/ OnQueryFinished
  \/ SwapCorpusSchema
  \/ AbandonIngest
  \/ QueryStep

Spec == Init /\ [][Next]_vars

-----------------------------------------------------------------------------
(* As long as documents are only added to a group, a summary served from    *)
(* the cache describes exactly the documents the group had when the worker  *)
(* counted them, though the count is all that is compared and a rebuild may *)
(* have come between the count and the reading the summary was made from    *)
(* (corpus_summary_get_or_build). After a removal or a new version of a     *)
(* document this is no longer promised.                                     *)
GrowingGroupServesItsSummary ==
  (query.fromCache /\ query.group \notin shrunk) => query.read = query.counted

(* The sources an answer shows are what the model was given for it -- in the*)
(* run it was adopted with, when a refusal was followed by a deeper run or  *)
(* by a fallback that was declined -- and everything the search gave it     *)
(* mentions a word of the question, unless the group's schema was swapped   *)
(* or dropped while the query ran: passage and term numbers are looked up   *)
(* again in separate statements (runSearchPipeline, collectSources,         *)
(* runReadPipeline, bm25_search_weighted). A removed document can only be   *)
(* missing from the sources: its numbers name nothing else.                 *)
SourcesAreWhatWasRead ==
  (query.at = "done" /\ query.tool \in {"search", "read"}
     /\ query.disturbed \subseteq {"removal"}) =>
    /\ query.shown \subseteq query.read
    /\ query.disturbed = {} => query.shown = query.read
    /\ query.tool = "search" =>
         \A d \in query.read : \E t \in Question : d.text \in Mentions[t]

(* An answer rests on documents its own group has held, and shows no others,*)
(* whatever groups the user selects, fills or creates meanwhile, and        *)
(* whether the first search answers, the rerun after a refusal is adopted   *)
(* or a fallback reads on. The deletion of the group itself is the          *)
(* exception: the search path then falls through to the public tables       *)
(* (pg_store_use_schema).                                                   *)
AnswersStayInTheirGroup ==
  ("deletion" \notin query.disturbed /\ query.group # NoGroup) =>
    query.read \union query.shown \subseteq held[query.group]
=============================================================================
