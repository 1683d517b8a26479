---------------------------- MODULE CorpusRebuild ----------------------------
(***************************************************************************)
(* Ingesting files into one document group, from the drop to the report:   *)
(*  - the UI thread (AppController): starts an IngestWorker, cancels it,   *)
(*    removes a document, receives ingestFinished;                         *)
(*  - the IngestWorker thread: extracts the files, then calls              *)
(*    bulk_ingest_rebuild_corpus(), which loads the group's documents and  *)
(*    the new ones into a scratch schema with bulk_ingest_tsv() (module    *)
(*    BulkIngest, whose tables are those of the scratch schema here) and   *)
(*    swaps that schema in;                                                *)
(*  - a crash of the application at any moment.                            *)
(***************************************************************************)
EXTENDS BulkIngest

CONSTANTS
  InitialDocuments, (* the documents of the group at the start              *)
  Drops,            (* what the user may drop: sequences of files, a file   *)
                    (* being the documents it holds (a CSV: one per row)    *)
  MaxIngests,       (* bound: ingests the user starts                       *)
  MaxCrashes        (* bound: crashes of the application                    *)

ASSUME RebuildAssumption ==
  /\ InitialDocuments \subseteq Document /\ IsFiniteSet(InitialDocuments)
  /\ \A d, e \in InitialDocuments : d.name = e.name => d = e
  /\ Drops \subseteq Seq(Seq(Document))
  /\ MaxIngests \in Nat
  /\ MaxCrashes \in Nat

VARIABLES
  live,        (* the group's schema: its documents, the document each of   *)
               (* its passages was cut from, and whether its index is whole *)
  scratch,     (* whether the rebuild schema exists                         *)
  stage,       (* where IngestWorker::run is; "none": no thread             *)
  active,      (* m_activeWorker # nullptr                                  *)
  cancelling,  (* the UI thread is between the two stores of requestCancel  *)
  mCancel,     (* the worker's own m_cancelRequested                        *)
  files,       (* files not extracted yet                                   *)
  newDocs,     (* documents extracted so far                                *)
  reported,    (* what ingestFinished says                                  *)
  before,      (* history: the group when the ingest was started            *)
  timely,      (* history: the cancel was complete before the last check    *)
  ingests,     (* ingests started                                           *)
  crashes      (* crashes so far                                            *)

rebuildVars == <<live, scratch, stage, active, cancelling, mCancel, files,
                 newDocs, reported, before, timely, ingests, crashes>>
allVars == <<ingestVars, rebuildVars>>

SetOf(s) == {s[i] : i \in DOMAIN s}

(* A schema holding these documents, indexed from their own text.           *)
Schema(docs) == [docs |-> docs, passages |-> docs, whole |-> TRUE]

NoCallRunning ==
  /\ rows = <<>>
  /\ phase = "done"
  /\ outcome = "none"
  /\ nextRow = 1
  /\ IdleWorkers
  /\ FreshTables
  /\ givenUp = {}
  /\ lateClaims = [w \in Workers |-> 0]

NoWorker ==
  /\ stage = "none"
  /\ active = FALSE
  /\ cancelling = FALSE
  /\ mCancel = FALSE
  /\ files = <<>>
  /\ newDocs = <<>>
  /\ reported = "none"
  /\ timely = FALSE

RebuildInit ==
  /\ NoCallRunning
  /\ cancel = FALSE
  /\ faults = 0
  /\ NoWorker
  /\ live = Schema(InitialDocuments)
  /\ before = live
  /\ scratch = FALSE
  /\ ingests = 0
  /\ crashes = 0

(* The loader's state becomes that of a call about to begin on these rows,  *)
(* or, with none, that of no call.                                          *)
ResetLoader(input, where) ==
  /\ rows' = input
  /\ phase' = where
  /\ outcome' = "none"
  /\ nextRow' = 1
  /\ pc' = [w \in Workers |-> "unborn"]
  /\ batch' = [w \in Workers |-> {}]
  /\ todo' = [w \in Workers |-> {}]
  /\ held' = [w \in Workers |-> {}]
  /\ attempt' = [w \in Workers |-> 0]
  /\ connected' = [w \in Workers |-> FALSE]
  /\ stored' = {}
  /\ indexed' = [r \in DOMAIN input |-> 0]
  /\ terms' = {}
  /\ postings' = {}
  /\ sealed' = TRUE
  /\ givenUp' = {}
  /\ lateClaims' = [w \in Workers |-> 0]

-----------------------------------------------------------------------------
(* The UI thread.                                                          *)

(* ingestFiles: one ingest at a time.                                       *)
IngestFiles ==
  /\ ~active /\ ~cancelling
  /\ ingests < MaxIngests
  /\ \E drop \in Drops : drop # <<>> /\ files' = drop
  /\ ingests' = ingests + 1
  /\ active' = TRUE
  /\ stage' = "clear"
  /\ mCancel' = FALSE
  /\ newDocs' = <<>>
  /\ reported' = "none"
  /\ before' = live
  /\ timely' = FALSE
  /\ UNCHANGED <<ingestVars, live, scratch, cancelling, crashes>>

(* cancelIngest: requestCancel stores the worker's flag, then the global    *)
(* one.                                                                     *)
CancelWorker ==
  /\ active /\ ~cancelling /\ ~mCancel
  /\ mCancel' = TRUE
  /\ cancelling' = TRUE
  /\ UNCHANGED <<ingestVars, live, scratch, stage, active, files, newDocs,
                 reported, before, timely, ingests, crashes>>

CancelLoader ==
  /\ cancelling
  /\ cancelling' = FALSE
  /\ cancel' = TRUE
  /\ timely' = (stage \in {"clear", "extract", "select", "ingest"})
  /\ UNCHANGED <<rows, phase, outcome, nextRow, workerVars, tableVars, givenUp,
                 faults, lateClaims, live, scratch, stage, active, mCancel,
                 files, newDocs, reported, before, ingests, crashes>>

(* Mutant: a document may be removed while an ingest is at work.            *)
RemoveAnyTime(n) ==
  /\ \E d \in live.docs : d.name = n
  /\ live' = [live EXCEPT !.docs = {d \in @ : d.name # n},
                          !.passages = {p \in @ : p.name # n}]
  /\ UNCHANGED <<ingestVars, scratch, stage, active, cancelling, mCancel,
                 files, newDocs, reported, before, timely, ingests, crashes>>

(* removeDocument: refused while an ingest is at work.                      *)
RemoveDocument(n) ==
  /\ ~active /\ ~cancelling
  /\ \E d \in live.docs : d.name = n
  /\ live' = [live EXCEPT !.docs = {d \in @ : d.name # n},
                          !.passages = {p \in @ : p.name # n}]
  /\ UNCHANGED <<ingestVars, scratch, stage, active, cancelling, mCancel,
                 files, newDocs, reported, before, timely, ingests, crashes>>

OnIngestFinished ==
  /\ stage = "finished" /\ ~cancelling
  /\ stage' = "none"
  /\ active' = FALSE
  /\ UNCHANGED <<ingestVars, live, scratch, cancelling, mCancel, files,
                 newDocs, reported, before, timely, ingests, crashes>>

-----------------------------------------------------------------------------
(* The IngestWorker thread.                                                *)

Report(result) ==
  /\ stage' = "finished"
  /\ reported' = result

(* Mutant: the flag of the run before is left as it is.                     *)
ClearNothing ==
  /\ stage = "clear"
  /\ stage' = "extract"
  /\ UNCHANGED <<ingestVars, live, scratch, active, cancelling, mCancel, files,
                 newDocs, reported, before, timely, ingests, crashes>>

(* A stale flag from a previously cancelled run must not abort this one.    *)
ClearCancel ==
  /\ stage = "clear"
  /\ stage' = "extract"
  /\ cancel' = FALSE
  /\ UNCHANGED <<rows, phase, outcome, nextRow, workerVars, tableVars, givenUp,
                 faults, lateClaims, live, scratch, active, cancelling,
                 mCancel, files, newDocs, reported, before, timely, ingests,
                 crashes>>

(* One turn of the loop over the files: a file yields its documents or is   *)
(* listed as skipped, malformed or without text.                            *)
ExtractFile ==
  /\ stage = "extract"
  /\ files # <<>>
  /\ IF mCancel
     THEN Report("cancelled") /\ UNCHANGED <<files, newDocs>>
     ELSE /\ files' = Tail(files)
          /\ newDocs' \in {newDocs, newDocs \o Head(files)}
          /\ UNCHANGED <<stage, reported>>
  /\ UNCHANGED <<ingestVars, live, scratch, active, cancelling, mCancel,
                 before, timely, ingests, crashes>>

(* Mutant: no report when no file yielded a document.                       *)
EndExtractionSilently ==
  /\ stage = "extract"
  /\ files = <<>>
  /\ IF mCancel THEN Report("cancelled")
     ELSE /\ stage' = IF newDocs = <<>> THEN "extract" ELSE "select"
          /\ UNCHANGED reported
  /\ UNCHANGED <<ingestVars, live, scratch, active, cancelling, mCancel, files,
                 newDocs, before, timely, ingests, crashes>>

EndExtraction ==
  /\ stage = "extract"
  /\ files = <<>>
  /\ IF mCancel THEN Report("cancelled")
     ELSE IF newDocs = <<>> THEN Report("ok")
     ELSE stage' = "select" /\ UNCHANGED reported
  /\ UNCHANGED <<ingestVars, live, scratch, active, cancelling, mCancel, files,
                 newDocs, before, timely, ingests, crashes>>

(* Mutant: a replaced document is kept along with the new one.              *)
KeptWithReplaced == live.docs

(* Mutant: the documents of the group are not read back.                    *)
KeptNothing == {}

(* The documents of the group that no new document of that name replaces.   *)
Kept == {d \in live.docs : \A e \in SetOf(newDocs) : e.name # d.name}

InSomeOrder(S) ==
  CHOOSE s \in [1 .. Cardinality(S) -> S] :
    \A i, j \in 1 .. Cardinality(S) : s[i] = s[j] => i = j

(* Mutant: CREATE SCHEMA without the defensive drop before it.              *)
PrepareWithoutDrop ==
  /\ stage = "select"
  /\ IF scratch
     THEN /\ Report("failed")
          /\ UNCHANGED <<ingestVars, scratch>>
     ELSE /\ stage' = "ingest"
          /\ ResetLoader(InSomeOrder(Kept) \o newDocs, "stage")
          /\ scratch' = TRUE
          /\ UNCHANGED <<cancel, faults, reported>>
  /\ UNCHANGED <<live, active, cancelling, mCancel, files, newDocs, before,
                 timely, ingests, crashes>>

(***************************************************************************)
(* bulk_ingest_rebuild_corpus up to the call of bulk_ingest_tsv: the       *)
(* combined input is written, a left-over scratch schema is dropped and a  *)
(* fresh one created.                                                      *)
(***************************************************************************)
PrepareRebuild ==
  /\ stage = "select"
  /\ stage' = "ingest"
  /\ ResetLoader(InSomeOrder(Kept) \o newDocs, "stage")
  /\ scratch' = TRUE
  /\ UNCHANGED <<cancel, faults, live, active, cancelling, mCancel, files,
                 newDocs, reported, before, timely, ingests, crashes>>

PrepareRebuildFails ==
  /\ stage = "select"
  /\ Fault("statement")
  /\ Report("failed")
  /\ scratch' \in {scratch, FALSE}
  /\ UNCHANGED <<rows, phase, outcome, nextRow, cancel, workerVars, tableVars,
                 givenUp, lateClaims, live, active, cancelling, mCancel, files,
                 newDocs, before, timely, ingests, crashes>>

(* DROP SCHEMA of the scratch schema, whose result is not looked at.        *)
DropScratch ==
  \/ scratch' = FALSE /\ UNCHANGED faults
  \/ Fault("statement") /\ UNCHANGED scratch

(* Mutant: the flag is not looked at again after the loader has returned.   *)
DecideOnOutcome ==
  /\ stage = "ingest"
  /\ phase = "done"
  /\ IF outcome \in {"cancelled", "failed"}
     THEN Report(outcome) /\ DropScratch
     ELSE stage' = "swap" /\ UNCHANGED <<reported, scratch, faults>>
  /\ UNCHANGED <<rows, phase, outcome, nextRow, cancel, workerVars, tableVars,
                 givenUp, lateClaims, live, active, cancelling, mCancel, files,
                 newDocs, before, timely, ingests, crashes>>

(* Mutant: the failure of the loader is not noticed.                        *)
DecideOptimistically ==
  /\ stage = "ingest"
  /\ phase = "done"
  /\ IF outcome = "cancelled" \/ cancel
     THEN Report("cancelled") /\ DropScratch
     ELSE stage' = "swap" /\ UNCHANGED <<reported, scratch, faults>>
  /\ UNCHANGED <<rows, phase, outcome, nextRow, cancel, workerVars, tableVars,
                 givenUp, lateClaims, live, active, cancelling, mCancel, files,
                 newDocs, before, timely, ingests, crashes>>

(* The loader has returned: the last look at the cancel flag.               *)
Decide ==
  /\ stage = "ingest"
  /\ phase = "done"
  /\ IF outcome = "cancelled" \/ cancel
     THEN Report("cancelled") /\ DropScratch
     ELSE IF outcome = "failed"
     THEN Report("failed") /\ DropScratch
     ELSE stage' = "swap" /\ UNCHANGED <<reported, scratch, faults>>
  /\ UNCHANGED <<rows, phase, outcome, nextRow, cancel, workerVars, tableVars,
                 givenUp, lateClaims, live, active, cancelling, mCancel, files,
                 newDocs, before, timely, ingests, crashes>>

(* The scratch schema as the loader left it.                                *)
Rebuilt ==
  [docs     |-> {rows[r] : r \in stored},
   passages |-> {rows[r] : r \in Staged},
   whole    |-> sealed /\ postings = Staged]

(* DROP SCHEMA and ALTER SCHEMA ... RENAME in one transaction.              *)
SwapSchema ==
  /\ live' = Rebuilt
  /\ scratch' = FALSE

(* Mutant: the flag is looked at once more after the swap.                  *)
SwapThenCheck ==
  /\ stage = "swap"
  /\ SwapSchema
  /\ Report(IF cancel THEN "cancelled" ELSE "ok")
  /\ UNCHANGED <<ingestVars, active, cancelling, mCancel, files, newDocs,
                 before, timely, ingests, crashes>>

Swap ==
  /\ stage = "swap"
  /\ SwapSchema
  /\ Report("ok")
  /\ UNCHANGED <<ingestVars, active, cancelling, mCancel, files, newDocs,
                 before, timely, ingests, crashes>>

(* Mutant: no transaction around the DROP and the RENAME.                   *)
SwapFailsHalfWay ==
  /\ stage = "swap"
  /\ Fault("statement")
  /\ live' = Schema({})
  /\ Report("failed")
  /\ UNCHANGED <<rows, phase, outcome, nextRow, cancel, workerVars, tableVars,
                 givenUp, lateClaims, scratch, active, cancelling, mCancel,
                 files, newDocs, before, timely, ingests, crashes>>

(* The swap fails and is rolled back, or its COMMIT succeeds on the server  *)
(* and the reply is lost with the connection.                               *)
SwapFails ==
  /\ stage = "swap"
  /\ \/ Fault("statement") /\ UNCHANGED <<live, scratch>>
     \/ Fault("connection") /\ (SwapSchema \/ UNCHANGED <<live, scratch>>)
  /\ Report("failed")
  /\ UNCHANGED <<rows, phase, outcome, nextRow, cancel, workerVars, tableVars,
                 givenUp, lateClaims, active, cancelling, mCancel, files,
                 newDocs, before, timely, ingests, crashes>>

(* bulk_ingest_tsv at work on the scratch schema.                           *)
Load ==
  /\ stage = "ingest"
  /\ IngestStep
  /\ UNCHANGED rebuildVars

-----------------------------------------------------------------------------
(* The application dies: its connections close and PostgreSQL rolls their   *)
(* transactions back.  What was committed stays, the scratch schema too.    *)
Crash ==
  /\ crashes < MaxCrashes
  /\ crashes' = crashes + 1
  /\ ResetLoader(<<>>, "done")
  /\ cancel' = FALSE
  /\ stage' = "none"
  /\ active' = FALSE
  /\ cancelling' = FALSE
  /\ mCancel' = FALSE
  /\ files' = <<>>
  /\ newDocs' = <<>>
  /\ reported' = "none"
  /\ timely' = FALSE
  /\ before' = live
  /\ UNCHANGED <<faults, live, scratch, ingests>>

WorkerThread ==
  ClearCancel \/ ExtractFile \/ EndExtraction \/ PrepareRebuild \/ Decide
    \/ Swap

(* Nothing is left to do but to wait for a user who has had their ingests.  *)
Idle ==
  /\ ~active /\ ~cancelling
  /\ UNCHANGED allVars

RebuildNext ==
  \/ IngestFiles
  \/ CancelWorker
  \/ CancelLoader
  \/ \E n \in Names : RemoveDocument(n)
  \/ OnIngestFinished
  \/ WorkerThread
  \/ PrepareRebuildFails
  \/ SwapFails
  \/ Load
  \/ Crash
  \/ Idle

(* The threads are scheduled; the user, the faults and crashes are not.     *)
RebuildFairness ==
  /\ WF_allVars(WorkerThread)
  /\ WF_allVars(CancelLoader)
  /\ WF_allVars(OnIngestFinished)
  /\ WF_allVars(stage = "ingest" /\ CoordinatorStep /\ UNCHANGED rebuildVars)
  /\ \A w \in Workers :
       WF_allVars(stage = "ingest" /\ WorkerStep(w) /\ UNCHANGED rebuildVars)

RebuildSpec == RebuildInit /\ [][RebuildNext]_allVars /\ RebuildFairness

-----------------------------------------------------------------------------
(* Every variable of the rebuild has its type.                              *)
RebuildTypeOK ==
  /\ TypeOK
  /\ live \in [docs : SUBSET Document, passages : SUBSET Document,
               whole : BOOLEAN]
  /\ scratch \in BOOLEAN
  /\ stage \in {"none", "clear", "extract", "select", "ingest", "swap",
                "finished"}
  /\ active \in BOOLEAN
  /\ cancelling \in BOOLEAN
  /\ mCancel \in BOOLEAN
  /\ files \in Seq(Seq(Document))
  /\ newDocs \in Seq(Document)
  /\ reported \in {"none", "ok", "failed", "cancelled"}
  /\ before \in [docs : SUBSET Document, passages : SUBSET Document,
                 whole : BOOLEAN]
  /\ timely \in BOOLEAN
  /\ ingests \in 0 .. MaxIngests
  /\ crashes \in 0 .. MaxCrashes

(***************************************************************************)
(* "the corpus is unchanged in that case": an ingest reported as cancelled *)
(* left the group exactly as it was when the files were dropped.           *)
(***************************************************************************)
CancelledIsLossless ==
  stage = "finished" /\ reported = "cancelled" => live = before

(***************************************************************************)
(* An ingest reported as failed left the group as it was or, where only    *)
(* the reply to the COMMIT of the swap was lost, complete: never in        *)
(* between, and never gone.                                                *)
(***************************************************************************)
FailedIsAllOrNothing ==
  stage = "finished" /\ reported = "failed" => live \in {before, Rebuilt}

(***************************************************************************)
(* A cancel whose two stores were done before the worker's last check of   *)
(* the flag is never lost: nothing is installed, in particular when the    *)
(* request comes before the thread has cleared the stale global flag.      *)
(***************************************************************************)
TimelyCancelWins == timely /\ stage = "finished" => live = before

(***************************************************************************)
(* Where no statement failed no ingest is reported as failed: what a crash *)
(* left of an earlier rebuild is never in the way of the next one.         *)
(***************************************************************************)
NoFailureWithoutFault ==
  faults = 0 => reported # "failed"

(***************************************************************************)
(* An ingest is reported as cancelled only if this one was cancelled: a    *)
(* request that arrived too late for the run before has no effect on it.   *)
(***************************************************************************)
NoStaleCancel ==
  stage = "finished" /\ reported = "cancelled" => mCancel

(***************************************************************************)
(* The group on line is never half built: constraints and postings are     *)
(* whole, and every passage belongs to a document of the group, across     *)
(* crashes, faults and cancels.                                            *)
(***************************************************************************)
LiveIndexIsWhole ==
  /\ live.whole
  /\ \A p \in live.passages : \E d \in live.docs : d.name = p.name

(***************************************************************************)
(* The passages of a document are cut from the text the group stores for   *)
(* it, so that the next rebuild produces them again.                       *)
(***************************************************************************)
PassagesComeFromStoredText == live.passages \subseteq live.docs

(***************************************************************************)
(* An ingest adds documents to a group and replaces some; it makes no      *)
(* document of the group disappear.                                        *)
(***************************************************************************)
NamesOf(docs) == {d.name : d \in docs}

IngestKeepsDocuments ==
  [][active => NamesOf(live.docs) \subseteq NamesOf(live'.docs)]_live

(***************************************************************************)
(* What does hold: a document disappears in an ingest only with a batch    *)
(* that was reported as skipped.                                           *)
(***************************************************************************)
OnlySkippedDocumentsDisappear ==
  [][active => \A n \in NamesOf(live.docs) \ NamesOf(live'.docs) :
                 \E r \in givenUp : rows[r].name = n]_live

(***************************************************************************)
(* The group behaves as an atomic store of documents (module CorpusStore): *)
(* loader, scratch schema and cancel flags are invisible.                  *)
(***************************************************************************)
AtWork == stage \in {"select", "ingest", "swap"}

Store == INSTANCE CorpusStore WITH
           content <- live.docs,
           offered <- IF AtWork THEN SetOf(newDocs) ELSE {},
           running <- AtWork

ImplementsCorpusStore == Store!StoreSpec

(* Every ingest is reported to the user, unless the application dies.       *)
EveryIngestIsReported ==
  [](stage = "clear" => <>(stage \in {"finished", "none"}))
=============================================================================
