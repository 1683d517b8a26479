# LEXIS: a verification project

LEXIS answers questions about groups of documents on the user's own machine.
Files dropped on a group are extracted, chunked and indexed into a PostgreSQL
schema of that group; a question is routed, searched with BM25, and answered by
a local language model; chats are stored beside the groups. The program is a C
core (`src/src/core`), a Qt application (`src/app/src`), and a command line.

This directory holds TLA+ modules of that program, TLC configurations that
check them on small instances, and proofs that TLAPS checks for every instance.
Paths below are relative to the root of the repository, shown as `src/`.

## 1. Inventory

### Threads and the state they share

| Thread | Runs | Shares |
|---|---|---|
| UI thread | `AppController`, `SetupController`, `ConfigManager`, the list models | signals of the workers, the two cancel flags, the database, `lexis.conf`, the reranker's flags |
| ingest worker | `IngestWorker::run`, then `bulk_ingest_rebuild_corpus` and the coordinator of `bulk_ingest_tsv` | `m_cancelRequested`, `g_cancel_requested`, the database |
| loader workers (6) | `phase2_worker_run` | the row cursor under `range_mutex`, `g_cancel_requested`, the database |
| query worker | `QueryWorker::run` | queued signals, the chat tables, the group's schema, the summary table, the reranker's flags |
| model loader | `ModelLoader::run` | one signal |
| PostgreSQL | a process of its own, started and stopped by the application | its data directory outlives both |

There is at most one ingest worker and one query worker. Both may run at once;
a new question to a group being ingested is refused (`sendChatMessage`), a
running one is not stopped by a new ingest, nor by a change of the group.

### Components

| Component | State | Operations | What makes it correct | Module |
|---|---|---|---|---|
| Bulk loader, `bulk_ingest.c` `bulk_ingest_tsv` | cursor, batches, retries, staging and index tables | stage, claim, fetch, insert, commit, retry, give up, join, prepare, finalize, finish, cancel | each row indexed at most once; none lost silently; success means a whole index; a cancel lands soon; it returns | `BulkIngest` |
| Group rebuild, `bulk_ingest_rebuild_corpus` | the group's schema, the scratch schema | combine, load, decide, swap | replaced whole or not at all; passages agree with stored texts | `CorpusRebuild`, `CorpusStore` |
| Ingest worker, `IngestWorker` | files left, documents found, its cancel flag | clear, extract, report | a cancel belongs to its own run; every run is reported | `CorpusRebuild` |
| Controller, ingestion and groups | the active worker, the group being ingested, the group on screen | start, cancel, remove a document, create, select, delete a group | removal, deletion and rebuild do not overlap | `CorpusRebuild`, `GroupQuery` |
| Controller, chat, and `ChatMessageListModel` | session on screen, messages, live row, last exchange | send, retry, open, begin, delete, token, stage, finished | screen and store agree; the live row is last; a retry replaces the answer it retries | `ChatSession` |
| Query worker, `QueryWorker` | history, the pipeline, the reply | load, persist, route, retrieve, generate, fall back, record, report | rows go to their session; a retry never destroys; every query ends; an answer's sources are what it rests on | `ChatSession`, `GroupQuery` |
| Store, `pg_store.c` | chat tables, groups, documents, passages, terms, postings, summaries | statements and transactions | each operation takes effect whole or not at all; rows refer to rows that exist | in the modules above |
| Group summary, `corpus_summary.c` | text and document count per group | get or build | a cached summary is of the documents counted | `GroupQuery`, `ContextWindow` |
| Retrieval, `retrieval.c`, `bm25.c`, `reranker.c` | result list and its hash index; the lazily loaded reranker | formulate, accumulate, rescore, trim; switch | the best passages survive; the switch is obeyed | `Ranking`, `QueryTerms`, `Launch` |
| Generation, `generation.c`, `query_formulation.c`, `tool_router.c` | none | windows of history, passages and documents | the prompt fits; the oldest turns go first | `ContextWindow` |
| Model client, `local_llm_client.c` | think gate, UTF-8 carry | feed a token, flush | hidden reasoning stays hidden; what is shown is what is kept | `ThinkGate` |
| Ingest algorithms, `ingest.c`, `tokenizer.c`, `csv_parse.c` | none | parse, chunk, tokenize, count | windows cover all words; a file is read whole or refused | `TextIngest`, `Lexicon` |
| Lexical tables, `wordnet.c`, `lemmatizer.c`, `synonym_table.c` | read-only tables | build, look up | both sides of the index see the same base forms | `Lexicon` |
| Setup, `SetupController` | queue, partial file, reply | start, receive, finish, fail | what is moved into place is the whole file | `ModelSetup`, `Launch` |
| Configuration, `config.c`, `ConfigManager`, `AppEnvironment` | a file | read, set, write the first | a setting reaches the engine | `ConfigFile`, `Launch` |
| PostgreSQL manager, model loader, `main` | the cluster, the server, the model | start in order, stop | the server runs while it is needed and no longer | `Launch` |
| Text extraction, command line, evaluation, lists, QML | | | | not modelled, section 6 |

`PROJECT.json` lists all components with their sources and, under `hazards`,
what in this code is hard to test, each at its line, with the property that
covers it.

### The hard behaviours

* Threads claim work from one cursor while another thread cancels.
* A statement fails, a connection breaks, or the reply to a COMMIT is lost; a
  failed batch is tried again.
* Inserts of one name in two transactions wait for each other.
* A request to cancel is two stores, and the worker clears one of them.
* The application dies with a scratch schema half built.
* The user opens, begins and deletes chats while an answer streams in.
* A retry may be refused, may fall back, may fail, and the answer it retries
  must survive.
* A group is swapped, pruned or deleted between two statements of a question.
* A count stands for the documents a cached summary was made from.
* Tokens cut marks and characters anywhere; a chunk, a hash table or a context
  is full at the wrong moment.
* The process dies between two steps of the start-up or of a download, and the
  database server survives it.

## 2. The modules

### BulkIngest: one call of the loader

The rows are numbered as in `documents_raw`; a document is a name and a text,
and the passages of a row stand for what chunking makes of its text.

| Variable | Code |
|---|---|
| `phase`, `outcome` | position in `bulk_ingest_tsv`, its result |
| `nextRow` | `*next_row`, moved inside `range_mutex` |
| `cancel` | `g_cancel_requested` |
| `pc`, `batch`, `attempt` | position in `phase2_worker_run` and `phase2_process_batch` |
| `todo`, `held` | documents of the open transaction not inserted yet, and inserted but not committed |
| `connected` | whether the worker's libpq connection works |
| `stored`, `indexed`, `terms`, `postings`, `sealed` | the tables and their constraints |
| `givenUp` | rows of batches reported as skipped |
| `faults`, `lateClaims` | a bound, and a history variable |

Each branch of the code is an action: `Open`, `CheckCancel`, `ClaimBatch`,
`Fetch`, `Begin`, `InsertDocument` (one per document, because the row lock of a
name is taken there), `Commit`, `AttemptFails`, and so on; the coordinator has
`Stage`, `Join`, `Prepare`, `FinalizeTerms`, `FinalizePostings`, `Finish` and
`CoordinatorFails`. The flag is read and the cursor is taken in two actions,
as in `if (cancel_requested() || phase2_claim_batch(...))`.

PostgreSQL is modelled by its effects: `Blocks` is the wait of an insert for an
uncommitted row of the same name, `DeadlockVictim` the deadlock detector, and
`LoseConnection` a connection that breaks; if that happens during COMMIT the
transaction may or may not have taken effect. libpq does not reconnect, so all
later statements of that worker fail (`AttemptOnDeadConnection`, `Fetch`).

### CorpusRebuild: from the drop to the report

It extends `BulkIngest`, whose tables become those of the scratch schema, and
adds the UI thread, the ingest worker and crashes. `live` is the group's
schema: its documents, the documents its passages were cut from, and whether
its index is whole. `Load` is a step of `BulkIngest` while the worker is inside
`bulk_ingest_tsv`. `requestCancel` is `CancelWorker` followed by
`CancelLoader`, with anything in between. A file yields the documents it holds
(a CSV file several) or none. `Crash` loses everything but `live` and the
scratch schema.

### CorpusStore: what an ingest promises

An abstract store of documents: an ingest is offered documents, and takes
effect at one instant or not at all; it installs nothing but what the group had
and what it was offered; a removed document stays removed. `CorpusRebuild`
implements it (`ImplementsCorpusStore`) under the mapping `content` to the
documents of `live`, `offered` to the documents extracted, `running` to the
stages from the read of the group to the swap. `Install` allows a subset
because batches can be skipped.

### ChatSession: from the question to the recorded answer

| Variable | Code |
|---|---|
| `chat`, `sessions` | `public.chat_messages`, `public.chat_sessions` |
| `session`, `view`, `live` | `m_activeChatSessionId`, `m_messages`, `m_liveIndex` |
| `lastQuestion`, `lastAnswer`, `lastWasSearch`, `retrying` | `m_lastQuestion`, `m_lastAnswer` and its provenance, `m_lastAnswerWasSearch`, `m_retryingLiveAnswer` |
| `querying` | `m_activeQueryWorker != nullptr` |
| `signals` | signals queued from the worker to the UI thread |
| `at`, `leg`, `streamed`, `job`, `reply`, `usedDocuments` | position and locals of `QueryWorker::run` and its pipelines |
| `askedIn`, `before`, `lost` | history variables |

Questions are numbered; a message is the question it is about, the kind of its
text and the query that wrote it. The language model is a choice at every call:
it refuses, answers or fails. `leg` says which generation runs: the search, its
deeper repetition, the reading of the documents, the overview, the summary, or
the conversation. One token stands for all the tokens of a generation.

### GroupQuery: questions while groups change

| Variable | Code |
|---|---|
| `corpora`, `issued` | `public.corpora`, its identity column |
| `live` | the index under each group's schema name: which document a passage number names, which word a term number |
| `summaries` | `public.corpus_summaries` |
| `active`, `ingest` | `m_activeCorpusId`; the ingest worker with `m_ingestingCorpusId` |
| `query` | the query worker: position, group, whether it is a retry, what it has found, read and shown, and the run whose refusal stands while something deeper is tried |
| `held`, `shrunk` | history variables: documents a group ever had; groups that lost one |

Every statement of the worker is an action, and reads the tables that have the
group's name at that instant: `SwapCorpusSchema` (the end of a rebuild, with any
new numbering), `RemoveDocument` and `DeleteGroup` come between any two of
them. `Schema` is the search path `corpus_N, public`: the public tables are met
when the group's are gone. The ingest itself is `CorpusRebuild`; only its swap
is seen here. One passage stands for a document.

A search is followed as far as its answer. When the model refuses (`Refuses`), a
fresh question is searched once more, deeper, with a list of its own; the
second run and its answer are adopted together (`Answers`, `AdoptedRun`) or not
at all. A retry goes on to the fallback while its refusal stands; a fallback
that refuses, too, is declined, and the run that stands gives its answer and
its sources (`Decline`).

### AnswerPipeline: the engine's work on text

One call of the engine after another, each started with an input from a small
set and run step by step as the code runs it; the invariants compare its result
with a definition that does not follow the code.

| Module | Code | Compared with |
|---|---|---|
| `TextIngest` | `csv_parse.c` (one state per character), `ingest_chunk_words` | the format as a property of a text (`IsWellFormed`); the table that was written; the document's words |
| `Lexicon` | tokenizer, stop words, lemmatizer, WordNet, synonyms | the spelling of a word; the pointers of the data files |
| `QueryTerms` | `query_formulation.c`: union with the rewriting, candidates, the model's picks | the words of the question |
| `Ranking` | `bm25.c` with its hash index, the fusion of `reranker.c`, the trim | a score computed from the index alone; the best list there is |
| `ContextWindow` | the windows of `generation.c`, `query_formulation.c`, `tool_router.c`, `QueryWorker.cpp`; the excerpts of `corpus_summary.c`; the limits of `local_llm_client.c` | the longest suffix that fits; the size of the context |
| `ThinkGate` | the gate of `local_llm_client.c`, the strip of the whole reply, `TokenBridge` | each other |

`passages` is the index a document leaves, so that a search meets what chunking
and tokenizing made. A turn or a prompt is its true number of tokens and
whether it could be counted; a reply is a sequence of symbols, a mark of the
model's being two of them, so that tokens can cut it. Scores are integers in
the order the code's have.

A prompt is counted and sent: of a chat question the code counts the question
and sends a head in front of it, `ConverseHead` tokens of it (`Sent`,
`Uncounted`). The bridge of a search lives through two generations: what a
refusal left in it, half a character at most, is `carried` to the reply of the
prompt after it (`TakenForRefusal`, `BuildDeeperPrompt`). After a reranked
search `closest` is the order of the similarities, and `Standing` a passage's
place in the fused one.

### Launch, ModelSetup, ConfigFile: processes over the files they leave

| Variable | Code |
|---|---|
| `config` | `lexis.conf`: its lines, with comments and repetitions (`ConfigFile`) |
| `part`, `target` | `<model>.part` and the model file, as sequences of pieces |
| `cluster`, `database`, `server` | data directory, database `lexis`, the server process |
| `phase` | the position in `main`, from start to the destructors |
| `pending`, `downloading`, `required`, `reply`, `resume` | the members of `SetupController` |
| `flushed` | how much of the partial file survives a crash for certain |
| `spoilt` | history: the files into which a write or a resize failed unnoticed |
| `started`, `connected`, `modelPath`, `loader`, `ready` | `PostgresManager::m_started`, `m_engine`, `m_modelPath`, `m_modelLoader`, `m_modelReady` |
| `dialog`, `gate` | the switches of the dialog; the static flags of `retrieval.c` |
| `query` | the query worker: what it generates, the switch it took with it, whether it is a retry, whether the model reasons and whether the search was reranked |
| `chosen`, `tidy`, `exit` | history variables: the last saved choices, whether layout and tools succeeded, how the process ended |
| `missed` | history: on what the reranker's one attempt to load was spent, a failure or a question under a switch that was off |

`Crash` may come at any moment, `Quit` from the open window; the disk and the
server stay, everything else is forgotten. `bundle` distinguishes the installed
application from a developer's build, which has neither setup nor server. The
guards of the user's actions include what QML disables: the overlay of the setup
covers the window, and the switches are off while a question runs.

### The proof modules

| Module | Proves about |
|---|---|
| `BulkIngestProofs` | `BulkIngest` |
| `CorpusRebuildProofs` | `CorpusRebuild` and its refinement of `CorpusStore`, from the loader's lemmas |
| `ChatSessionProofs` | `ChatSession` |
| `GroupQueryProofs` | `GroupQuery` |
| `LaunchProofs` | `Launch` with `ModelSetup`, from lemmas on the download and on the lines of a configuration file |
| `GenerationProofs` | the operators of `ContextWindow` and `ThinkGate` (lemmas) |
| `RetrievalProofs` | the operators of `Ranking`, `Lexicon`, `QueryTerms` and `TextIngest` (lemmas) |
| `AnswerPipelineProofs` | the files, the chunks, the searches, the prompts and the decoding of a reply in `AnswerPipeline`, from the lemmas of the two modules above |

Section 5 says what is proved and along which arguments.

## 3. What is checked

Every run has two loader threads or one query worker. The loader has six
threads in the application; two show every interleaving of a pair, the
invariants relate at most two threads, and the theorems of section 5 hold for
any number. `BatchSize` is 1 or 2 (500 in the code) and inputs have two to five
rows, so that there are more batches than threads, a last batch that is not
full, and repeated names both inside a batch and across batches. `Retries` is 2
or 3 (3 in the code). `MaxFaults`, `MaxIngests`, `MaxCrashes`, `MaxSessions`,
`MaxQuestions`, `MaxRetries` and `MaxSwitches` bound what would otherwise be
unbounded; each counts events of the environment only. With two faults and two
attempts a batch can be given up, and a fault can still meet the aftermath of
another one. `groups` alone uses symmetry, of its two groups: nothing in the
module or in an invariant tells one from the other, and the run checks
invariants only. The bounds of `groups`, `answer` and `launch` are discussed
below the table.

| Run | Instance | Shows |
|---|---|---|
| `ingest` | 2 threads, 5 distinct rows or 3 to 4 with repeated names, batches of 2, 2 attempts, 2 faults of either kind, a cancel | types, the row ledger, no row indexed twice, one text per name, none lost silently, success means whole, a cancel costs one batch, a fault costs one batch, the loader returns |
| `rebuild` | 2 ingests of a replacement and an addition, batches of 1, 2 attempts, 2 faults of either kind, 1 crash, cancels, removals | a cancelled ingest changes nothing, a failed one nothing or all; a complete cancel before the last check wins; no stale cancel; a scratch schema left by a crash is not in the way; the group is never half built; passages agree with stored texts; a document disappears only in a batch reported as skipped; refinement of `CorpusStore`; every ingest is reported |
| `chat_steady` | 2 sessions, 2 questions, 2 retries, 2 switches, `Patient` | screen and store agree between queries; answers follow their questions; "Try harder" describes the answer on screen; a failed query keeps the record; every query ends |
| `chat_restless` | 2 sessions, 2 questions, 1 retry, 2 switches at any moment, 1 fault | types, the live row is last, rows stay in their session, history is only added to |
| `groups` | 2 groups, 2 names, 2 texts and one in the public schema, 2 ingests, 1 removal, 2 questions, fresh or repeated, with reruns and fallbacks | types and references between the tables; a summary served from the cache is of the documents counted, in a group that only grew; the sources shown are what was read for the answer that is adopted; an answer stays in its group |
| `answer` | the inputs below | exactly the well-formed files are read, tables come back whole, chunks lose nothing; the search is for the question; the best passages are chosen, reranked or not; the prompt fits; what is shown is the reply |
| `launch` | 3 processes, 2 faults or crashes, 4 requests, 3 switches, 2 questions, 6 configuration files, 3 disks, bundled or not | an installed model is whole; the last setting is obeyed, by answers of every kind; no server without need, none missing |

`Patient` is a restriction of the user, not of the program: sessions are opened,
begun and deleted only between queries. What `chat_steady` checks is true only
under it; `chat_overwrite` below shows what happens without.

In `groups` the second question meets what the first one left (a cached
summary), the second ingest what the first one built (a replaced document, a
group grown between count and reading), and the second group is the one that
must not leak into the first. In `launch` the third process finds what a crash
of the second did to the work of the first; two pieces make a model file, so
that it can be cut in the middle, and the fourth request can follow a resumed, a
restarted and a refused one; three switches turn one setting off, on and off
again. In `answer` the documents have up to six words with chunk sizes from 0 to
3 and overlaps from 0 to 2; the tables up to two rows and columns of cells with
commas, quotes and line ends inside, in both ways of quoting and four line ends,
and every text of up to five characters (a letter, a quote, a comma, a carriage
return, a line feed), well-formed or not; the questions include stop words,
capitals, inflected and joined words, with rewritings that drop or add words and
replies that are none, broken, empty or foreign; the hash index starts with two
slots, so that it grows twice under colliding passages; limits are 3 candidates,
2 passages and 2 tokens; the context of 10 tokens holds histories of up to three
turns, countable or not, with a head of one token before a chat question and a
headroom it may use up; replies are all sequences of up to six symbols, in
tokens of one or two.

`groups` and `launch` set `CHECK_DEADLOCK FALSE`: with their budgets of groups,
questions and processes spent, the system has nothing left to do. Both, like
`answer`, check safety only.

Some properties carry a condition of their own, which is where the code stops
promising more. `GrowingGroupServesItsSummary` excludes groups that lost a
document or a version: there the count is no evidence, and a stale summary may
be served. `SourcesAreWhatWasRead` excludes questions whose group was swapped or
dropped meanwhile, `AnswersStayInTheirGroup` those whose group was deleted:
numbers then name other rows, or the public tables. `InstalledModelIsWhole`
excludes files into which the body of an error reply was written, and files
`spoilt` by a write or a resize that failed unnoticed. `SettingsReachTheEngine`
says where the switches are *not* obeyed: with thinking off the model still
reasons in a chat, in a retry and in the search after a refusal, and a reranker
turned on is used exactly if its one attempt to load was not spent before -- on
a file that did not load, or on a question in a process that started with the
switch off. `PromptFitsTheContext` takes from the room for the reply what is
sent uncounted beyond the headroom, and says nothing once markup and head
exceed the whole reserve. `ShownTextIsTheReply` allows half a character at the
end of a reply, and, carried from a refusal, before one. All these are described
at the end of this section.
`BestPassagesSurvive` compares passages by their scores, or by the fused order
when the search was reranked, and assumes a floor of at most the best score
(`FloorNum <= FloorDen`). `FailureIsContained` excludes
runs in which a worker lost its connection (see the second finding) and inputs
with repeated names (whose deadlocks use up attempts without any fault).
`PassagesComeFromStoredText` holds in `rebuild`, where dropped documents have
distinct names, and fails in `rebuild_twins`, where they do not.

For each property of these runs `PROJECT.json` names a mutant: a plausible
mistake in one definition, defined just before it, under which TLC finds the
property violated.

### Where the code and its comments disagree

Each of these runs checks one sentence of the code or its documentation, and
TLC finds a behaviour of the code that contradicts it. The details are under
`findings` in `PROJECT.json`.

| Run | The sentence | The behaviour |
|---|---|---|
| `rebuild_twins` | the original text is stored "so rebuild-on-append can re-chunk consistently" | two dropped files of one name |
| `rebuild_lost_document` | existing documents are re-chunked along with the new ones; "a failed batch costs at most its own documents" | a skipped batch held an existing document; a worker with a dead connection skips every batch it claims |
| `chat_overwrite` | stale state must not "overwrite an unrelated answer" | a session opened during a query, then "Try harder" |
| `chat_refusal` | a retry that finds nothing leaves the original answer | the retry's own refusal replaces it when the fallback declines |
| `chat_provenance` | "Did the previous answer use retrieval? ... Read from stored provenance" | JSONB text has a space after the colon |

The model also contains, without a run of their own: a swap whose COMMIT took
effect while its reply was lost, reported as "left untouched"
(`bulk_ingest.c:565`; hence *nothing or all* in `FailedIsAllOrNothing`);
deadlocks on `documents` between batches that repeat names
(`DeadlockVictim`); a failed question that stays in the stored session, though
"A failed query leaves no trace: nothing was persisted" (`AppController.cpp:561`;
true of a retry, for a new question `FailedQueryKeepsTheRecord` allows the
question behind the record); an answer shown although its
INSERT failed (`AppendMessage`); and, in the newer modules,

* `GroupQuery`: a failed model on the path of the summary is reported as a group
  without documents (`BuildSummary`), and the cached summary of a replaced
  document stays until the count changes.
* `QueryTerms`: every word of a term's candidates is accepted from the model,
  though only the first eight were offered; several of them together can outrank
  the question's own terms.
* `ContextWindow`: the markup of very many small turns exceeds the headroom of
  256 tokens, and the headers of a summary's excerpts are not counted. Of a chat
  question the budget counts the question alone (`QueryWorker.cpp:401-405`), and
  what is sent has a head of more than 200 tokens in front
  (`QueryWorker.cpp:428`): with a full history it eats nearly all of the
  headroom, and markup beyond the rest shortens the reply.
* `ThinkGate`: half a character at the end of a reply is returned but not shown.
  If the reply is a refusal and the answer is generated again, it is shown after
  all, in front of the second reply: both go through one `TokenBridge`
  (`QueryWorker.cpp:255`).
* `ModelSetup`: a partial file that is complete -- the process died before it
  was moved, or the move failed -- is asked for from its end, the server has no
  such range, and the body of its error is appended; it is never installed
  whole. After a failed move of the last file the button does nothing until a
  restart. The results of the write (`SetupController.cpp:126`) and of the resize
  before it (`SetupController.cpp:123`) are not looked at: on a full disk a file
  with a gap or a missing end is installed as the model and never fetched again,
  and a file that could not be emptied has the whole one appended.
* `ConfigFile`: turning the reranker on takes the mark off the last commented
  line, which may name another file than the one turned off, and an empty line
  after it keeps the reranker off; a comment behind a path is a part of the path
  for the engine and not for the dialog.
* `Launch`: a process that dies between creating `lexis.conf` and writing it
  leaves an empty file that is never written again; an `initdb` that is killed
  leaves a directory that counts as a cluster and starts no server. "Settings
  state: both apply live" (`AppController.h:61`), but: a process that starts with
  the reranker off tells nobody, as the retrieval's own flag starts at 1
  (`retrieval.c:35`); a question then spends the only attempt to load one, and
  turning the reranker on has no effect until it is off and on again or the
  process is started anew. And a chat, a retry and the search after a refusal
  reason with thinking turned off, too (`QueryWorker.cpp:433-435`, `314`, `327`).

## 4. Fairness

* `Fairness` of the loader: weak fairness of the coordinator and of each worker.
  They are operating-system threads; the mutex is held for a few instructions.
  `DeadlockVictim` is part of a worker's step because PostgreSQL breaks every
  deadlock after `deadlock_timeout`. Faults and the cancel are never owed.
* `RebuildFairness` adds the ingest worker, the second store of a cancel that
  has begun, and the UI thread's reception of the report. The user owes nothing.
* `ChatFairness`: the query worker and the UI thread's event loop. A generation
  ends because the code limits new tokens; that a call of the model returns at
  all is assumed.

## 5. What is proved

TLC checks each of the inductive invariants below over the instance of a run
before it is proved; "States" is the number of distinct states it was checked
on. (`AnalysisInv` and `CsvInv` say that certain functions or files exist, for
which TLC would have to try them all; TLC checks what follows from them. In
`ReplyInv` it tries the texts and places within the reply, where the invariant
says all.) A theorem holds for every value of the constants that satisfies the
module's assumption. What these assume beyond types: there is at least one
worker (`IngestAssumption`; the code's `if (thread_count < 1) thread_count =
1`), the group has finitely many documents at first (`RebuildAssumption`), the
model value for "nothing" is no real value, a file's text is finite, a
configuration line sets one of the four keys the modelled code reads
(`LaunchAssumption`), the reserve of the router is within the context
(`ContextWindowAssumption`; 500 of 16384 tokens), texts are sequences of words
that are sequences of characters (`AnswerPipelineAssumption`,
`LexiconAssumption`), a table that is written has as many cells in every row and
no row that would be a blank line (`IsWritable`), two lines of a WordNet file
have two offsets, and the hash of a passage's number is some number: all
passages may collide. Where a theorem needs more, its statement says so.

| Module | Theorem | Property | Invariant | States |
|---|---|---|---|---|
| `BulkIngestProofs` | `TypeCorrect` | `TypeOK` | | |
| | `LedgerHolds` | `RowLedger` | `RowLedger` | run `ingest` |
| | `NoRowIndexedTwice` | `RowsIndexedAtMostOnce` | `RowLedger` | |
| | `NothingIsLostSilently` | `EveryRowAccountedFor` | `RowLedger` | |
| | `CancelIsPrompt` | `CancelLandsWithinOneBatch` | `RowLedger` | |
| | `SuccessIsWhole` | `SuccessLeavesWholeIndex` | `PhaseThreeProgress` | |
| | `NamesAreUnique` | `OneTextPerName` | `NamesAreLocked` | |
| | `FaultsCostTheirBatch` | `FailureIsContained` | `CostInv` | |
| `CorpusRebuildProofs` | `RebuildIsInvariant` | | `RebuildInv` | 1.3 million |
| | `CancelLosesNothing` | `CancelledIsLossless` | `RebuildInv` | |
| | `FailureIsAtomic` | `FailedIsAllOrNothing` | `RebuildInv` | |
| | `TimelyCancelIsHeeded` | `TimelyCancelWins` | `RebuildInv` | |
| | `OnlyFaultsFail` | `NoFailureWithoutFault` | `RebuildInv` | |
| | `CancelsDoNotLinger` | `NoStaleCancel` | `RebuildInv` | |
| | `LiveIsAlwaysWhole` | `LiveIndexIsWhole` | `RebuildInv` | |
| | `NothingElseDisappears` | `OnlySkippedDocumentsDisappear` (steps) | `RebuildInv` | |
| | `RebuildIsAtomic` | `ImplementsCorpusStore` (refinement) | `RebuildInv` | |
| | `PassagesHaveTheirText` | `PassagesComeFromStoredText` | `DropInv` | |
| `ChatSessionProofs` | `ChatIsInvariant` | | `ChatInv` | 2.7 million |
| | `ChatTypeCorrect` | `ChatTypeOK` | `ChatInv` | |
| | `TheLiveRowIsAlwaysLast` | `LiveRowIsLast` | `ChatInv` | |
| | `RowsAlwaysStayInTheirSession` | `RowsStayInTheirSession` | `ChatInv` | |
| | `HistoryIsOnlyAddedTo` | `OnlyTheNewestAnswerChanges` (steps) | `ChatInv` | |
| | `FailuresKeepTheRecord` | `FailedQueryKeepsTheRecord` (steps) | `RecordSoFar` | 4.3 million |
| | `TheViewMatchesTheStore` | `ViewMatchesStore` | `SteadyInv` | 0.2 million |
| | `EveryAnswerFollowsItsQuestion` | `AnswersFollowQuestions` | `SteadyInv` | |
| | `TheLastExchangeIsOnScreen` | `LastExchangeIsOnScreen` | `SteadyInv` | |
| `GroupQueryProofs` | `GroupsAreSound` | | `GroupInv` | 5.7 million |
| | `ReferencesHold` | `GroupTypeOK` | `GroupInv` | |
| | `CountTellsTheSummary` | `GrowingGroupServesItsSummary` | `GroupInv` | |
| | `NoAnswerLeaks` | `AnswersStayInTheirGroup` | `GroupInv` | |
| | `SourcesAreTrue` | `SourcesAreWhatWasRead` | `SourcesInv` | 5.7 million |
| `LaunchProofs` | `TheServerOutlivesTheApp` | `ServerOutlivesTheApp` | `ServerInv` | 7.4 million |
| | `InstalledModelsAreWhole` | `InstalledModelIsWhole` | `SetupInv` | 7.4 million |
| | `SettingsAlwaysReachTheEngine` | `SettingsReachTheEngine` | `SettingsInv` | 7.4 million |
| `AnswerPipelineProofs` | `ShownIsReturned` | `ShownTextIsTheReply` | `ReplyInv` | 2.0 million |
| | `PromptAlwaysFits` | `PromptFitsTheContext` | `PromptInv` | 2.0 million |
| | `SearchAlwaysKeepsTheQuestion` | `SearchKeepsTheQuestion` | `AnalysisInv` | |
| | `BestPassagesAlwaysSurvive` | `BestPassagesSurvive` | `AnalysisInv` | |
| | `ChunksAlwaysAreTheDocument` | `ChunksAreTheDocument`, a part of the next | `AnalysisInv` | |
| | `DocumentsAlwaysAreReadWhole` | `DocumentsAreReadWhole` | `AnalysisInv`, `CsvInv` | |

Each proof has one lemma per action or group of actions, and the last step of a
theorem combines them by PTL.

**The loader.** That no row is indexed twice is not inductive: a worker whose
COMMIT took effect while its reply was lost still owns the batch and tries it
again. `RowLedger` says why this is harmless: rows at or beyond the cursor are
untouched; a row before it is indexed, given up, or owned; owners are unique;
and an owner whose row is indexed already has lost its connection, so no
further attempt can commit. `ClaimsMatchControl` and `PhasesInOrder` tie this
to the control: a worker between batches owns nothing, one that exited saw the
cancel or the end of the input, and Phase 3 begins only after all have exited
at the end of the input. From it follow `EveryRowAccountedFor` and, with a
count of the claims after the flag was set, `CancelLandsWithinOneBatch`.
`SuccessLeavesWholeIndex` needs that the staged rows do not change in Phase 3.
`OneTextPerName` rests on a separate invariant on the names of stored rows and
of rows in open transactions: distinct transactions hold distinct names because
an insert waits for the holder. `FailureIsContained` counts: with distinct names
only a fault makes an attempt fail, so a batch that is given up has used up one
fault of its own, unless a worker has lost its connection (`SkippedArePaidFor`).

**The rebuild.** Until the swap the group is what it was at the drop
(`GroupUntouched`), which gives the two reports of an ingest their meaning. A
stale cancel is impossible because once the worker has cleared the flag it is
set by a request to this worker only (`CancelIsOurs`), a timely one is seen
because the second of its two stores comes after that (`CancelIsSeen`). While
the loader runs it satisfies its own invariants and its input is what the group
kept, in some order, and then the new documents (`LoaderAtWork`): `Load` steps
keep them by the lemmas of `BulkIngestProofs`, and at the swap they say that the
new index is whole. The refinement maps every action to a step of `CorpusStore`
or to a stutter; the swap is `Install`, and that what it installs is the group's
documents or offered ones needs `OneTextPerName` and the ledger.
`PassagesComeFromStoredText` is a theorem for drops that hold no two documents
of one name (`DropsHaveNoTwins`); without this it is false, which is the finding
of `rebuild_twins`.

**The chat.** `ChatInv` orders the signals of a query -- its report is the last
one and comes once, and none is left when no query runs -- and binds the worker,
what it records and what the UI remembers to the session the question was asked
in. This suffices for every user. Under `Patient` the record of the session is,
until a query has its answer, what it was before, with the question behind it at
most (`RecordSoFar`), so a query that fails keeps it. Without failing statements
as well (`MaxFaults = 0`, as in `chat_steady`) `SteadyInv` says of every moment
of a query what is recorded and what is on screen: both are a common list of
rows (`Base`), and either may have one row more, the answer. That this
hypothesis is needed is no weakness of the proof: an answer whose INSERT failed
is shown.

**The groups.** `corpus_summary_get_or_build` compares two numbers and concludes
that two sets of documents are equal. `GroupInv` says what makes this right in a
group that only grows. A stored summary was made from documents the group still
has, and its count is that of a subset of them, those counted before it was
built (`SummariesAreSound`). When the next question counts, every such document
is among the counted ones; none leaves before the row is read (`CountIsSound`).
A subset of a finite set with as many elements is the set, so a hit under the
same number is of exactly the documents counted. Three facts of the code carry
the steps: the scratch schema is loaded with the group's stored texts and the
new ones, so a swap loses none of them unless a new text replaces one of the
same name (`LoadedIsWhole`); the rows of a deleted group go with it and its
number never returns; and a group under rebuild cannot be deleted, so that the
swap finds the schema it replaces. `QueryStaysInItsGroup` adds that as long as
the group exists every statement of the worker meets the group's own schema.
`SourcesInv` follows the numbers a question holds: as long as its group is not
swapped or deleted, what has been read are the documents the numbers done with
name now, or more if one was removed since, and what has been shown is a part of
it. A run that stands while another one is tried is sound by itself, so that
whichever is adopted, with its answer, keeps the pairing.

**Launch and setup.** `ServerInv`: past its start a process that met no fault
counts a server it found running as its own, and therefore stops it at the end;
a connection is held only between the opening of the window and its end.
`SetupInv` relates the partial file to the request under way: what a resumed
request appends begins where the file ends (`RequestFits`, `AnswerFits`), so
what is moved into place is the whole file, holds the body of an error, or is on
record as spoilt by a write that failed. `SettingsInv` follows a switch through
three copies of it: the lines of `lexis.conf`, the dialog and the gate of the
retrieval. A reranker turned off is not used, one turned on finds the gate open,
and what the attempt to load was spent on is remembered for exactly as long as
it is spent (`GateFollowsTheSwitch`); a question keeps the thinking switch it
started with because no switch is turned meanwhile (`QuestionFollowsTheSwitch`).
Its lemmas say what a rewritten file means to the engine's reader: that reader
takes the last active line of a key, the dialog rewrites or adds one, and every
other key keeps its last line.

**The reply.** `ReplyInv` relates the decoder's state to the strip of the text
decoded so far: the gate is undecided and the text a beginning of a mark, or
inside a block whose end has not come, or through, and then what it let pass is
the text, or the text behind the block without its white space
(`Deciding`, `Inside`, `Through`). What is shown and the half of a character
kept back are together what the bridge held before, half a character at most,
and what the gate let pass. The lemmas of `GenerationProofs`
say how the strip of a text changes when a token is appended, for every token.

**The prompt.** `PromptInv` says of the turns a prompt is sent with what the
property asks of them, so its proof is in the operators. `Measured` and
`TrueTokens` are folds over a sequence, that is, over the set of its positions
in the order `CHOOSE` picks them; `GenerationProofs` first shows that the order
does not matter (`SumAnyFirst`) and that the sum of a sequence is the last of
its partial sums (`SumFromTheFirst`). A stretch of the newest turns then
measures a difference of two partial sums, a shorter one no more
(`ShorterMeasuresLess`), and the window the code finds from the newest turn
backwards is the longest that fits (`WindowHistoryIs`). From there it is
arithmetic: budget, prompt, markup and head stay below the context, less what of
them the headroom does not hold. The slices of a long text are followed one by
one (`OneMoreFits`): slice `i` ends before the place where slice `i + 1` begins.
The provers take no induction over data as a fact about operators; these proofs
look for the least number a statement fails for, in a set of numbers (`UpTo`),
which is enough for sums and slices.

**The chunks.** While a document is cut, chunk `j` is the window of `size` words
that begins at the `j`-th multiple of `size - overlap`, and none of them reaches
the last word (`CutSoFar`). The chunk that does is the last, and what each adds
to the one before joins up to the document (`WholeCut`, from `FlattenIs`: a
sequence of parts joined is the text whose parts begin where the one before
ends).

**The CSV reader.** The format is stated without a reader: a place is outside of
quotes when an even number of quotes precedes it, quotes open or close a field
or come in pairs, commas and line breaks outside of quotes part fields and
lines, and all lines that are not blank have as many fields. `CsvInv` follows
the reader through a text, from two sides. For every text, `ReadSoFar` ties the
state to the characters read: the state tells how the quotes stand
(`QuotesFit`), the row how many fields the line has had (`LineFits`), the width
what every finished line has (`WidthFits`). A character is refused only where
the format forbids it, and at the end of the text the three say that it is
well-formed (`ReaderIsStrict`). For a text that a table was written as, `Reads`
says what is left of the text: the rest of a cell and what follows it, or line
ends and the rows that follow (`WithinCell`, `AtCellEnd`, `BetweenRows`). Each
character moves one piece from what is left to what was read, so that with
nothing left the rows are those of the table (`TableIsRead`). The CR LF pair
that the reader takes in one step is two characters to both arguments, because
after the CR the reader is at a blank line (`ReadsOneOrTwo`).

**The search.** Both properties compare the end of a search with definitions
over the whole index, and `SearchFits` says what is true of every step between.
The passages are texts, because cutting left them so: this is why chunks and
searches share one invariant, `AnalysisInv`. The terms are those question and
rewriting ask for, each once (`AreTermsFor`). After the terms before `next`, the
list holds exactly the passages with one of them, each once, with the partial
sum of its scores and the number of terms it holds (`ScoredSoFar`). Then the
ranking is the list rescored and sorted, or its best `CandidateCeiling`
(`AreRanked`), in the reranker's order if it has one (`InNewOrder`), and at the
end as long a beginning of it as the limits allow (`IsTrimmed`).

That a passage is entered once depends on the hash table of the result list, and
is not inductive without the table: `ResultsFit` says that the table holds an
entry for every item and no other, at a slot that probing from its hash reaches
without meeting a free one, and that a slot is free. Growing keeps this because
entries are put in again one by one (`EntriesGrow`, `FreshHolds`); that a slot
is free for the next one is a count of the slots in use (`SlotIsFree`). With it,
`FoundWhereItIs` says that `FindSlot` finds what is there and a free slot
otherwise, `AddScoreFits` what one row of an index does to the list, and
`AccumulateIs` what all rows of a term do. `TrueScore` adds the same parts in
the order `CHOOSE` picks the terms; `TermPartCounted` says that a part of it is
what the search counts, and `TrueScoreIs` and `SumAnyFirst` make the two sums
one. `SortedIs` says that the sorted list has every item once and in order,
`TrimmedIs` that the trim stops at the first item that breaks a limit, and
`SelectionIsBest` draws the conclusion. Of a reranked search the list that is
trimmed has the fused ranks for scores; its passages are those of the list
before (`Standing`), so the same lemmas compare what is kept and what is left
out by that order.

That no word of the question is lost goes through its spelling. `TokensAre` says
which words a text has: every run of characters that is maximal. A word with
blanks around it, in a text of words joined by blanks (`JoinWordsIs`,
`WordsStand`), is such a run (`PieceIsWord`), in small letters
(`PieceIsSpelled`); stopwords aside it keeps its place through the filter
(`KeptWordsAre`), and both sides of the index reduce it to the same base form,
which is a term whatever the rewriting is (`TermsUnionIs`). So the passage has a
posting for a term of the search (`SharedWordIsFound`). A term that is
offered to the model is of a synonym's row or a synset of a term asked for
(`OfferedIsRelated`), and the model's choice is parsed against what was offered
(`ParseIs`).

**Only model-checked.** `Terminates`, `EveryIngestIsReported` and
`EveryQueryEnds` are temporal properties under fairness, which the provers
installed here do not reach. Every other property of a passing run has a theorem.
A violation run is a behaviour and needs no proof.

## 6. Not modelled, and why

* Text extraction (PDF, DOCX, OCR): external libraries; an extraction is a
  choice between documents and none (`CorpusRebuild!ExtractFile`).
* The command line, the evaluation, the query log: a sequential driver of the
  same engine, metrics over finished rankings, an append-only file. What the
  command line loads into the public schema is `GroupQuery!PublicSchema`.
* Lists and QML: each list is replaced whole by what was read; what QML forbids
  is in the guards of the user's actions.
* Floating point: scores are integers of the same shape; a similarity is an
  order.
* What the models write: a choice among refusal, answer and failure, among
  rewritings and replies, or any sequence of symbols.
* The engine's numeric settings (`config.c`): the same reader, one number each.
* The graceful end of the application during an ingest (`~AppController` cancels
  it and waits): a cancel as any other; `Crash` is the abrupt end.
* The chats of several groups, and a deletion of the group a chat belongs to.
* SQL text, parsing of results, the syntax of WordNet's files, memory
  exhaustion.

## 7. Plan

Done: all components listed as modelled, and proofs of the safety properties of
the loader, the rebuild with its refinement, the chats, the groups, launch and
setup, the CSV reader, the chunks, the searches, the prompts and the display of a
reply. What is left is the chats of several groups, with the deletion of a group.

## 8. Running

    tlc -config MCBulkIngestLoad.cfg MCBulkIngest
    tlc -config MCCorpusRebuildGroup.cfg MCCorpusRebuild
    tlc -config MCChatSessionSteady.cfg MCChatSession
    tlc -config MCChatSessionRestless.cfg MCChatSession
    tlc -config MCGroupQuery.cfg MCGroupQuery
    tlc -config MCAnswerPipeline.cfg MCAnswerPipeline
    tlc -config MCLaunch.cfg MCLaunch
    tlapm BulkIngestProofs.tla
    tlapm CorpusRebuildProofs.tla
    tlapm ChatSessionProofs.tla
    tlapm GroupQueryProofs.tla
    tlapm LaunchProofs.tla
    tlapm GenerationProofs.tla
    tlapm RetrievalProofs.tla
    tlapm AnswerPipelineProofs.tla

The longest runs, `groups` (5.7 million states), `launch` (7.4 million) and
`rebuild` (1.4 million), take about two minutes each, `answer` (2.0 million)
up to one. Proving a module takes between half a
minute (`LaunchProofs`) and ten minutes (`RetrievalProofs`). A run
listed with `expect: violation` ends with the counterexample described in
section 3.
