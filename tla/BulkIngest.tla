----------------------------- MODULE BulkIngest -----------------------------
(***************************************************************************)
(* bulk_ingest_tsv(): one call of the three-phase bulk loader, against one *)
(* target schema.  Phase 1 COPYs the input rows into a staging table;      *)
(* Phase 2 runs worker threads, each on a connection of its own, which     *)
(* claim batches of rows from a cursor under a mutex and index each batch  *)
(* in one transaction; Phase 3 resolves the staged terms and restores the  *)
(* constraints.  Another thread may set the cancel flag at any moment.     *)
(*                                                                         *)
(* The rows are numbered 1..Len(rows) (documents_raw.row_num).  A document *)
(* is a name with a text; what chunking makes of a text is "the passages   *)
(* of the row".  PostgreSQL is modelled by what a committed transaction    *)
(* leaves behind, by the row lock an uncommitted insert of a document name *)
(* holds, and by its deadlock detector.                                    *)
(***************************************************************************)
EXTENDS Integers, Sequences, FiniteSets

CONSTANTS
  Workers,     (* the Phase 2 threads                                      *)
  Names,       (* document names                                           *)
  Texts,       (* document texts                                           *)
  Inputs,      (* the inputs a run may be given: sequences of documents    *)
  BatchSize,   (* BULK_PHASE2_BATCH_SIZE                                   *)
  Retries,     (* BULK_PHASE2_BATCH_RETRIES                                *)
  FaultKinds,  (* what may go wrong: "statement", "connection"             *)
  MaxFaults    (* bound: how many such faults one behaviour contains       *)

Document == [name : Names, text : Texts]

ASSUME IngestAssumption ==
  /\ Workers # {}
  /\ BatchSize \in Nat \ {0}
  /\ Retries \in Nat \ {0}
  /\ MaxFaults \in Nat
  /\ FaultKinds \subseteq {"statement", "connection"}
  /\ Inputs \subseteq Seq(Document)

VARIABLES
  rows,        (* documents_raw, as a sequence of documents                *)
  phase,       (* where the coordinator is in bulk_ingest_tsv              *)
  outcome,     (* what bulk_ingest_tsv returned                            *)
  nextRow,     (* the shared cursor *next_row                              *)
  cancel,      (* g_cancel_requested                                       *)
  pc,          (* where each worker is in phase2_worker_run                *)
  batch,       (* the rows each worker has claimed and not finished        *)
  todo,        (* those its current transaction has not inserted yet       *)
  held,        (* those whose document row it inserted and not committed   *)
  attempt,     (* its attempts at the batch                                *)
  connected,   (* whether its connection still works                       *)
  stored,      (* rows whose document the table `documents` holds          *)
  indexed,     (* how often the passages of a row were committed           *)
  terms,       (* rows whose terms are in the table `terms`                *)
  postings,    (* rows whose staged postings became postings               *)
  sealed,      (* postings and terms are LOGGED and have their constraints *)
  givenUp,     (* rows of the batches reported as skipped                  *)
  faults,      (* faults so far                                            *)
  lateClaims   (* history: claims each worker made after the cancel        *)

workerVars == <<pc, batch, todo, held, attempt, connected>>
tableVars  == <<stored, indexed, terms, postings, sealed>>
ingestVars == <<rows, phase, outcome, nextRow, cancel, workerVars, tableVars,
                givenUp, faults, lateClaims>>

Rows == 1 .. Len(rows)

(***************************************************************************)
(* The call begins on a schema that has its constraints and nothing of     *)
(* this input in it yet.                                                   *)
(***************************************************************************)
FreshTables ==
  /\ stored = {}
  /\ indexed = [r \in Rows |-> 0]
  /\ terms = {}
  /\ postings = {}
  /\ sealed = TRUE

IdleWorkers ==
  /\ pc = [w \in Workers |-> "unborn"]
  /\ batch = [w \in Workers |-> {}]
  /\ todo = [w \in Workers |-> {}]
  /\ held = [w \in Workers |-> {}]
  /\ attempt = [w \in Workers |-> 0]
  /\ connected = [w \in Workers |-> FALSE]

Init ==
  /\ rows \in Inputs
  /\ phase = "stage"
  /\ outcome = "none"
  /\ nextRow = 1
  /\ cancel = FALSE
  /\ IdleWorkers
  /\ FreshTables
  /\ givenUp = {}
  /\ faults = 0
  /\ lateClaims = [w \in Workers |-> 0]

-----------------------------------------------------------------------------

Fault(kind) ==
  /\ kind \in FaultKinds
  /\ faults < MaxFaults
  /\ faults' = faults + 1

Return(result) ==
  /\ phase' = "done"
  /\ outcome' = result

(***************************************************************************)
(* Phase 1: prepare the staging tables and COPY, then the first check of   *)
(* the cancel flag; otherwise the worker threads are created.              *)
(***************************************************************************)
Stage ==
  /\ phase = "stage"
  /\ IF cancel
     THEN /\ Return("cancelled")
          /\ UNCHANGED pc
     ELSE /\ phase' = "load"
          /\ pc' = [w \in Workers |-> "open"]
          /\ UNCHANGED outcome
  /\ UNCHANGED <<rows, nextRow, cancel, batch, todo, held, attempt, connected,
                 tableVars, givenUp, faults, lateClaims>>

(***************************************************************************)
(* A statement of the coordinator fails: bulk_ingest_tsv returns -1 and    *)
(* leaves the schema as it is, constraints dropped or not.                 *)
(***************************************************************************)
CoordinatorFails ==
  /\ phase \in {"stage", "prepare", "terms", "postings", "finish"}
  /\ Fault("statement")
  /\ Return("failed")
  /\ UNCHANGED <<rows, nextRow, cancel, workerVars, tableVars, givenUp,
                 lateClaims>>

-----------------------------------------------------------------------------
(* Phase 2: the workers.                                                   *)

(* A worker opens its connection and selects the schema, or reports itself *)
(* unable to do any work.                                                  *)
Open(w) ==
  /\ pc[w] = "open"
  /\ \/ /\ pc' = [pc EXCEPT ![w] = "check"]
        /\ connected' = [connected EXCEPT ![w] = TRUE]
        /\ UNCHANGED faults
     \/ /\ \E kind \in FaultKinds : Fault(kind)
        /\ pc' = [pc EXCEPT ![w] = "failed"]
        /\ UNCHANGED connected
  /\ UNCHANGED <<rows, phase, outcome, nextRow, cancel, batch, todo, held,
                 attempt, tableVars, givenUp, lateClaims>>

(* Mutant: the flag is not looked at between two batches.                   *)
CheckNothing(w) ==
  /\ pc[w] = "check"
  /\ pc' = [pc EXCEPT ![w] = "claim"]
  /\ UNCHANGED <<rows, phase, outcome, nextRow, cancel, batch, todo, held,
                 attempt, connected, tableVars, givenUp, faults, lateClaims>>

(* The cancel flag is read first, the cursor is taken afterwards.          *)
CheckCancel(w) ==
  /\ pc[w] = "check"
  /\ pc' = [pc EXCEPT ![w] = IF cancel THEN "exited" ELSE "claim"]
  /\ UNCHANGED <<rows, phase, outcome, nextRow, cancel, batch, todo, held,
                 attempt, connected, tableVars, givenUp, faults, lateClaims>>

(* Mutant: the end of a claim is taken for inclusive.                       *)
ClaimedRowsInclusive == {r \in Rows : nextRow <= r /\ r <= nextRow + BatchSize}

ClaimedRows == {r \in Rows : nextRow <= r /\ r < nextRow + BatchSize}

(* phase2_claim_batch: one critical section of range_mutex.                *)
ClaimBatch(w) ==
  /\ pc[w] = "claim"
  /\ IF nextRow > Len(rows)
     THEN /\ pc' = [pc EXCEPT ![w] = "exited"]
          /\ UNCHANGED <<nextRow, batch, lateClaims>>
     ELSE /\ pc' = [pc EXCEPT ![w] = "fetch"]
          /\ batch' = [batch EXCEPT ![w] = ClaimedRows]
          /\ nextRow' = nextRow + BatchSize
          /\ lateClaims' = [lateClaims EXCEPT ![w] =
                              IF cancel THEN @ + 1 ELSE @]
  /\ UNCHANGED <<rows, phase, outcome, cancel, todo, held, attempt, connected,
                 tableVars, givenUp, faults>>

(* The worker is done with its batch, which is skipped for good.           *)
GiveUp(w) ==
  /\ givenUp' = givenUp \union batch[w]
  /\ pc' = [pc EXCEPT ![w] = "check"]
  /\ batch' = [batch EXCEPT ![w] = {}]
  /\ todo' = [todo EXCEPT ![w] = {}]
  /\ held' = [held EXCEPT ![w] = {}]
  /\ attempt' = [attempt EXCEPT ![w] = 0]

(* Mutant: a worker that cannot read its batch is done.                     *)
FetchOrExit(w) ==
  /\ pc[w] = "fetch"
  /\ \/ /\ connected[w]
        /\ pc' = [pc EXCEPT ![w] = "begin"]
        /\ attempt' = [attempt EXCEPT ![w] = 1]
        /\ UNCHANGED <<batch, givenUp, faults>>
     \/ /\ Fault("statement")
        /\ pc' = [pc EXCEPT ![w] = "exited"]
        /\ batch' = [batch EXCEPT ![w] = {}]
        /\ givenUp' = givenUp \union batch[w]
        /\ UNCHANGED attempt
  /\ UNCHANGED <<rows, phase, outcome, nextRow, cancel, todo, held, connected,
                 tableVars, lateClaims>>

(* The rows of the batch are read.  When that fails the batch is skipped.  *)
Fetch(w) ==
  /\ pc[w] = "fetch"
  /\ \/ /\ connected[w]
        /\ pc' = [pc EXCEPT ![w] = "begin"]
        /\ attempt' = [attempt EXCEPT ![w] = 1]
        /\ UNCHANGED <<batch, todo, held, givenUp, faults>>
     \/ /\ \/ connected[w] /\ Fault("statement")
           \/ ~connected[w] /\ UNCHANGED faults
        /\ GiveUp(w)
  /\ UNCHANGED <<rows, phase, outcome, nextRow, cancel, connected, tableVars,
                 lateClaims>>

Begin(w) ==
  /\ pc[w] = "begin"
  /\ connected[w]
  /\ pc' = [pc EXCEPT ![w] = "insert"]
  /\ todo' = [todo EXCEPT ![w] = batch[w]]
  /\ UNCHANGED <<rows, phase, outcome, nextRow, cancel, batch, held, attempt,
                 connected, tableVars, givenUp, faults, lateClaims>>

IsNext(w, r) == r \in todo[w] /\ \A s \in todo[w] : r <= s

SameName(r, s) == rows[r].name = rows[s].name

(* INSERT ... ON CONFLICT waits while another transaction holds the name.  *)
Blocks(v, w) ==
  /\ v # w
  /\ pc[w] = "insert"
  /\ \E r \in todo[w], s \in held[v] : IsNext(w, r) /\ SameName(r, s)

(* Mutant: the document row without ON CONFLICT DO NOTHING and unique key.  *)
InsertRegardless(w) ==
  /\ pc[w] = "insert"
  /\ connected[w]
  /\ \E r \in todo[w] :
       /\ IsNext(w, r)
       /\ todo' = [todo EXCEPT ![w] = @ \ {r}]
       /\ held' = [held EXCEPT ![w] = @ \union {r}]
       /\ pc' = [pc EXCEPT ![w] =
                   IF todo[w] = {r} THEN "commit" ELSE "insert"]
  /\ UNCHANGED <<rows, phase, outcome, nextRow, cancel, batch, attempt,
                 connected, tableVars, givenUp, faults, lateClaims>>

(***************************************************************************)
(* phase2_process_document: the document row (ON CONFLICT DO NOTHING),     *)
(* then its passages and staged postings.                                  *)
(***************************************************************************)
InsertDocument(w) ==
  /\ pc[w] = "insert"
  /\ connected[w]
  /\ ~ \E v \in Workers : Blocks(v, w)
  /\ \E r \in todo[w] :
       /\ IsNext(w, r)
       /\ todo' = [todo EXCEPT ![w] = @ \ {r}]
       /\ held' = [held EXCEPT ![w] =
                     IF \E s \in stored \union @ : SameName(r, s)
                     THEN @ ELSE @ \union {r}]
       /\ pc' = [pc EXCEPT ![w] =
                   IF todo[w] = {r} THEN "commit" ELSE "insert"]
  /\ UNCHANGED <<rows, phase, outcome, nextRow, cancel, batch, attempt,
                 connected, tableVars, givenUp, faults, lateClaims>>

CommitTables(w) ==
  /\ stored' = stored \union held[w]
  /\ indexed' = [r \in Rows |->
                   IF r \in batch[w] THEN indexed[r] + 1 ELSE indexed[r]]
  /\ UNCHANGED <<terms, postings, sealed>>

Commit(w) ==
  /\ pc[w] = "commit"
  /\ connected[w]
  /\ CommitTables(w)
  /\ pc' = [pc EXCEPT ![w] = "check"]
  /\ batch' = [batch EXCEPT ![w] = {}]
  /\ held' = [held EXCEPT ![w] = {}]
  /\ attempt' = [attempt EXCEPT ![w] = 0]
  /\ UNCHANGED <<rows, phase, outcome, nextRow, cancel, todo, connected,
                 givenUp, faults, lateClaims>>

(* Mutant: one attempt too many.                                            *)
OneMoreAttempt(w) ==
  IF attempt[w] <= Retries
  THEN /\ pc' = [pc EXCEPT ![w] = "begin"]
       /\ attempt' = [attempt EXCEPT ![w] = @ + 1]
       /\ todo' = [todo EXCEPT ![w] = {}]
       /\ held' = [held EXCEPT ![w] = {}]
       /\ UNCHANGED <<batch, givenUp>>
  ELSE GiveUp(w)

(* Mutant: attempts are not counted.                                        *)
AttemptAgain(w) ==
  /\ pc' = [pc EXCEPT ![w] = "begin"]
  /\ todo' = [todo EXCEPT ![w] = {}]
  /\ held' = [held EXCEPT ![w] = {}]
  /\ UNCHANGED <<batch, givenUp, attempt>>

(* The transaction is gone; the batch is tried again, or given up.         *)
NextAttempt(w) ==
  IF attempt[w] < Retries
  THEN /\ pc' = [pc EXCEPT ![w] = "begin"]
       /\ attempt' = [attempt EXCEPT ![w] = @ + 1]
       /\ todo' = [todo EXCEPT ![w] = {}]
       /\ held' = [held EXCEPT ![w] = {}]
       /\ UNCHANGED <<batch, givenUp>>
  ELSE GiveUp(w)

(* PostgreSQL's deadlock detector may abort any member of a wait cycle.    *)
Deadlocked(w) ==
  \E S \in SUBSET Workers :
    /\ w \in S
    /\ \A x \in S : (\E y \in S : Blocks(y, x)) /\ (\E y \in S : Blocks(x, y))

InTransaction(w) == pc[w] \in {"begin", "insert", "commit"}

AttemptFails(w) ==
  /\ InTransaction(w)
  /\ connected[w] /\ Fault("statement")
  /\ NextAttempt(w)
  /\ UNCHANGED <<rows, phase, outcome, nextRow, cancel, connected, tableVars,
                 lateClaims>>

(* Mutant: a worker reconnects and tries the batch again.                   *)
AttemptAfterReconnecting(w) ==
  /\ InTransaction(w)
  /\ ~connected[w]
  /\ NextAttempt(w)
  /\ connected' = [connected EXCEPT ![w] = TRUE]
  /\ UNCHANGED <<rows, phase, outcome, nextRow, cancel, tableVars, faults,
                 lateClaims>>

(* On a dead connection every statement fails at once, BEGIN included.     *)
AttemptOnDeadConnection(w) ==
  /\ InTransaction(w)
  /\ ~connected[w]
  /\ NextAttempt(w)
  /\ UNCHANGED <<rows, phase, outcome, nextRow, cancel, connected, tableVars,
                 faults, lateClaims>>

DeadlockVictim(w) ==
  /\ Deadlocked(w)
  /\ NextAttempt(w)
  /\ UNCHANGED <<rows, phase, outcome, nextRow, cancel, connected, tableVars,
                 faults, lateClaims>>

(***************************************************************************)
(* The worker's connection breaks.  The server rolls the open transaction  *)
(* back, except that a COMMIT may have taken effect before its reply was   *)
(* lost.  libpq never reconnects by itself.                                *)
(***************************************************************************)
LoseConnection(w) ==
  /\ connected[w]
  /\ pc[w] \notin {"exited", "failed"}
  /\ Fault("connection")
  /\ connected' = [connected EXCEPT ![w] = FALSE]
  /\ held' = [held EXCEPT ![w] = {}]
  /\ \/ UNCHANGED tableVars
     \/ pc[w] = "commit" /\ CommitTables(w)
  /\ UNCHANGED <<rows, phase, outcome, nextRow, cancel, pc, batch, todo,
                 attempt, givenUp, lateClaims>>

WorkerStep(w) ==
  \/ Open(w)
  \/ CheckCancel(w)
  \/ ClaimBatch(w)
  \/ Fetch(w)
  \/ Begin(w)
  \/ InsertDocument(w)
  \/ Commit(w)
  \/ AttemptOnDeadConnection(w)
  \/ DeadlockVictim(w)

-----------------------------------------------------------------------------
(* The coordinator joins the threads, then Phase 3.                        *)

(* Mutant: the flag is not looked at after the threads have been joined.    *)
JoinWithoutCheck ==
  /\ phase = "load"
  /\ \A w \in Workers : pc[w] \in {"exited", "failed"}
  /\ IF \E w \in Workers : pc[w] = "failed"
     THEN Return("failed")
     ELSE phase' = "prepare" /\ UNCHANGED outcome
  /\ UNCHANGED <<rows, nextRow, cancel, workerVars, tableVars, givenUp, faults,
                 lateClaims>>

Join ==
  /\ phase = "load"
  /\ \A w \in Workers : pc[w] \in {"exited", "failed"}
  /\ IF \E w \in Workers : pc[w] = "failed"
     THEN Return("failed")
     ELSE IF cancel
     THEN Return("cancelled")
     ELSE phase' = "prepare" /\ UNCHANGED outcome
  /\ UNCHANGED <<rows, nextRow, cancel, workerVars, tableVars, givenUp, faults,
                 lateClaims>>

(* pg_store_prepare_bulk_load drops the constraints and the durability.    *)
Prepare ==
  /\ phase = "prepare"
  /\ phase' = "terms"
  /\ sealed' = FALSE
  /\ UNCHANGED <<rows, outcome, nextRow, cancel, workerVars, stored, indexed,
                 terms, postings, givenUp, faults, lateClaims>>

Staged == {r \in Rows : indexed[r] > 0}

FinalizeTerms ==
  /\ phase = "terms"
  /\ phase' = "postings"
  /\ terms' = terms \union Staged
  /\ UNCHANGED <<rows, outcome, nextRow, cancel, workerVars, stored, indexed,
                 postings, sealed, givenUp, faults, lateClaims>>

(* The join of the staged postings with terms.                             *)
FinalizePostings ==
  /\ phase = "postings"
  /\ phase' = "finish"
  /\ postings' = postings \union (Staged \intersect terms)
  /\ UNCHANGED <<rows, outcome, nextRow, cancel, workerVars, stored, indexed,
                 terms, sealed, givenUp, faults, lateClaims>>

(* Mutant: the result of pg_store_finish_bulk_load is not looked at.        *)
FinishUnchecked ==
  /\ phase = "finish"
  /\ sealed' \in BOOLEAN
  /\ Return("ok")
  /\ UNCHANGED <<rows, nextRow, cancel, workerVars, stored, indexed, terms,
                 postings, givenUp, faults, lateClaims>>

Finish ==
  /\ phase = "finish"
  /\ sealed' = TRUE
  /\ Return("ok")
  /\ UNCHANGED <<rows, nextRow, cancel, workerVars, stored, indexed, terms,
                 postings, givenUp, faults, lateClaims>>

CoordinatorStep ==
  Stage \/ Join \/ Prepare \/ FinalizeTerms \/ FinalizePostings \/ Finish

(* bulk_ingest_request_cancel, from another thread.                        *)
RequestCancel ==
  /\ ~cancel
  /\ cancel' = TRUE
  /\ UNCHANGED <<rows, phase, outcome, nextRow, workerVars, tableVars, givenUp,
                 faults, lateClaims>>

(* What the call itself does; the cancel comes from its environment.       *)
IngestStep ==
  \/ CoordinatorStep
  \/ CoordinatorFails
  \/ \E w \in Workers : WorkerStep(w) \/ AttemptFails(w) \/ LoseConnection(w)

Returned == phase = "done" /\ UNCHANGED ingestVars

Next == IngestStep \/ RequestCancel \/ Returned

(***************************************************************************)
(* Every thread that can run eventually does, and PostgreSQL eventually    *)
(* breaks a deadlock.  Faults and the cancel are never owed.               *)
(***************************************************************************)
Fairness ==
  /\ WF_ingestVars(CoordinatorStep)
  /\ \A w \in Workers : WF_ingestVars(WorkerStep(w))

Spec == Init /\ [][Next]_ingestVars /\ Fairness

-----------------------------------------------------------------------------
(* Every variable of the loader has its type.                              *)
TypeOK ==
  /\ rows \in Seq(Document)
  /\ phase \in {"stage", "load", "prepare", "terms", "postings", "finish",
                "done"}
  /\ outcome \in {"none", "ok", "failed", "cancelled"}
  /\ nextRow \in Nat \ {0}
  /\ cancel \in BOOLEAN
  /\ pc \in [Workers -> {"unborn", "open", "check", "claim", "fetch", "begin",
                         "insert", "commit", "exited", "failed"}]
  /\ batch \in [Workers -> SUBSET Rows]
  /\ todo \in [Workers -> SUBSET Rows]
  /\ held \in [Workers -> SUBSET Rows]
  /\ attempt \in [Workers -> 0 .. Retries]
  /\ connected \in [Workers -> BOOLEAN]
  /\ stored \subseteq Rows
  /\ indexed \in [Rows -> Nat]
  /\ terms \subseteq Rows
  /\ postings \subseteq Rows
  /\ sealed \in BOOLEAN
  /\ givenUp \subseteq Rows
  /\ faults \in 0 .. MaxFaults
  /\ lateClaims \in [Workers -> Nat]

(***************************************************************************)
(* The ledger of the rows, the inductive invariant behind the properties   *)
(* below.  A row beyond the cursor is untouched; a row before it is owned  *)
(* by a worker, indexed or given up; it has one owner; and an owner whose  *)
(* row is indexed already has lost its connection, so that a further       *)
(* attempt cannot index it again.  A worker without a claim owns nothing,  *)
(* one that exited saw the cancel or the end of the input, and Phase 3     *)
(* begins only after all of them saw the end of the input.                 *)
(***************************************************************************)
WithoutClaim == {"unborn", "open", "check", "claim", "exited", "failed"}

UnclaimedUntouched == \A r \in Rows : r >= nextRow => indexed[r] = 0

OwnedWasClaimed == \A w \in Workers : \A r \in batch[w] : r < nextRow

OneOwner ==
  \A v, w \in Workers : v # w => \A r \in batch[v] : r \notin batch[w]

ClaimedAccounted ==
  \A r \in Rows :
    r < nextRow =>
      \/ indexed[r] > 0
      \/ r \in givenUp
      \/ \E w \in Workers : r \in batch[w]

OwnedAndIndexedIsDead ==
  \A w \in Workers : \A r \in batch[w] : indexed[r] > 0 => ~connected[w]

ClaimsMatchControl ==
  \A w \in Workers :
    /\ pc[w] \in WithoutClaim => batch[w] = {}
    /\ pc[w] = "exited" => cancel \/ nextRow > Len(rows)

PhasesInOrder ==
  /\ phase # "done" => outcome = "none"
  /\ phase = "stage" => \A w \in Workers : pc[w] = "unborn"
  /\ phase \in {"prepare", "terms", "postings", "finish"} \/ outcome = "ok" =>
       /\ nextRow > Len(rows)
       /\ \A w \in Workers : pc[w] = "exited"

RowLedger ==
  /\ UnclaimedUntouched
  /\ OwnedWasClaimed
  /\ OneOwner
  /\ ClaimedAccounted
  /\ OwnedAndIndexedIsDead
  /\ ClaimsMatchControl
  /\ PhasesInOrder

(***************************************************************************)
(* No row is indexed twice, whatever the threads, the retries and a COMMIT *)
(* whose reply is lost do: the passages of a row are committed at most     *)
(* once.                                                                   *)
(***************************************************************************)
RowsIndexedAtMostOnce == \A r \in Rows : indexed[r] <= 1

(***************************************************************************)
(* The table `documents` never holds two texts under one name, although    *)
(* several workers may be inserting that name at the same time.            *)
(***************************************************************************)
OneTextPerName == \A r, s \in stored : SameName(r, s) => r = s

(***************************************************************************)
(* A run that returns success has accounted for every row: it is indexed,  *)
(* or it belongs to a batch that was reported as skipped.                  *)
(***************************************************************************)
EveryRowAccountedFor ==
  outcome = "ok" => \A r \in Rows : indexed[r] > 0 \/ r \in givenUp

(***************************************************************************)
(* A run that returns success leaves an index that is whole: constraints   *)
(* and durability restored, and a posting for every indexed row.           *)
(***************************************************************************)
SuccessLeavesWholeIndex ==
  outcome = "ok" => sealed /\ postings = Staged

(***************************************************************************)
(* "A cancel lands within one batch of work": after the flag is set no     *)
(* worker claims more than the one batch it may have been about to claim.  *)
(***************************************************************************)
CancelLandsWithinOneBatch == \A w \in Workers : lateClaims[w] <= 1

(***************************************************************************)
(* "A failed batch costs at most its own documents": of a run that returns *)
(* success each fault cost one batch at most, as long as every worker kept *)
(* its connection and no two documents share a name (they may deadlock).   *)
(***************************************************************************)
ConnectionLost(w) == ~connected[w] /\ pc[w] = "exited"

NamesDiffer == \A r, s \in Rows : SameName(r, s) => r = s

FailureIsContained ==
  outcome = "ok" /\ NamesDiffer =>
    \/ \E w \in Workers : ConnectionLost(w)
    \/ Cardinality({r \in Rows : indexed[r] = 0}) <= BatchSize * faults

(* Every call of the loader returns.                                       *)
Terminates == <>(outcome # "none")
=============================================================================
