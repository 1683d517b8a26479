-------------------------- MODULE BulkIngestProofs --------------------------
(***************************************************************************)
(* Proofs about the bulk loader, for every number of threads, input, batch *)
(* size, retry limit and number of faults.                                 *)
(***************************************************************************)
EXTENDS BulkIngest, FiniteSetTheorems, TLAPS

(* A batch may be given up: the worker's own variables keep their types.    *)
LEMMA GiveUpType ==
  ASSUME TypeOK, NEW w \in Workers, GiveUp(w)
  PROVE  /\ givenUp' \subseteq Rows
         /\ pc' \in [Workers -> {"unborn", "open", "check", "claim", "fetch",
                      "begin", "insert", "commit", "exited", "failed"}]
         /\ batch' \in [Workers -> SUBSET Rows]
         /\ todo' \in [Workers -> SUBSET Rows]
         /\ held' \in [Workers -> SUBSET Rows]
         /\ attempt' \in [Workers -> 0 .. Retries]
  BY IngestAssumption DEF GiveUp, TypeOK

(* The same for the end of an attempt, retried or given up.                 *)
LEMMA NextAttemptType ==
  ASSUME TypeOK, NEW w \in Workers, NextAttempt(w)
  PROVE  /\ givenUp' \subseteq Rows
         /\ pc' \in [Workers -> {"unborn", "open", "check", "claim", "fetch",
                      "begin", "insert", "commit", "exited", "failed"}]
         /\ batch' \in [Workers -> SUBSET Rows]
         /\ todo' \in [Workers -> SUBSET Rows]
         /\ held' \in [Workers -> SUBSET Rows]
         /\ attempt' \in [Workers -> 0 .. Retries]
<1>1. CASE attempt[w] < Retries
  <2>1. attempt[w] + 1 \in 0 .. Retries
    BY <1>1, IngestAssumption DEF TypeOK
  <2>2. attempt' = [attempt EXCEPT ![w] = attempt[w] + 1]
    BY <1>1 DEF NextAttempt
  <2>3. attempt' \in [Workers -> 0 .. Retries]
    BY <2>1, <2>2 DEF TypeOK
  <2>4. pc' = [pc EXCEPT ![w] = "begin"] /\ batch' = batch
    BY <1>1 DEF NextAttempt
  <2>5. /\ todo' = [todo EXCEPT ![w] = {}]
        /\ held' = [held EXCEPT ![w] = {}]
        /\ givenUp' = givenUp
    BY <1>1 DEF NextAttempt
  <2>6. QED BY <2>3, <2>4, <2>5 DEF TypeOK
<1>2. CASE ~(attempt[w] < Retries)
  BY <1>2, GiveUpType DEF NextAttempt
<1>3. QED BY <1>1, <1>2

(* A commit leaves the tables with their types.                             *)
LEMMA CommitTablesType ==
  ASSUME TypeOK, NEW w \in Workers, CommitTables(w)
  PROVE  /\ stored' \subseteq Rows
         /\ indexed' \in [Rows -> Nat]
  BY DEF CommitTables, TypeOK

(* A fault is counted within its bound.                                     *)
LEMMA FaultType ==
  ASSUME TypeOK, NEW kind, Fault(kind)
  PROVE  faults' \in 0 .. MaxFaults
  BY IngestAssumption DEF Fault, TypeOK

(* The steps of a worker leave the input alone.                             *)
LEMMA WorkerKeepsRows ==
  ASSUME NEW w \in Workers,
         WorkerStep(w) \/ AttemptFails(w) \/ LoseConnection(w)
  PROVE  rows' = rows /\ Rows' = Rows
<1>1. rows' = rows
  BY DEF WorkerStep, Open, CheckCancel, ClaimBatch, Fetch, Begin,
     InsertDocument, Commit, AttemptOnDeadConnection, DeadlockVictim,
     AttemptFails, LoseConnection
<1>2. QED BY <1>1 DEF Rows

(* Initially the variables have their types.                                *)
LEMMA InitType == Init => TypeOK
<1> SUFFICES ASSUME Init PROVE TypeOK
  OBVIOUS
<1>1. rows \in Seq(Document)
  BY IngestAssumption DEF Init
<1>2. /\ attempt \in [Workers -> 0 .. Retries]
      /\ lateClaims \in [Workers -> Nat]
      /\ faults \in 0 .. MaxFaults
      /\ nextRow \in Nat \ {0}
  BY IngestAssumption DEF Init, IdleWorkers
<1>3. /\ stored \subseteq Rows /\ terms \subseteq Rows
      /\ postings \subseteq Rows /\ givenUp \subseteq Rows
      /\ indexed \in [Rows -> Nat]
      /\ sealed \in BOOLEAN
  BY DEF Init, FreshTables
<1>4. /\ batch \in [Workers -> SUBSET Rows]
      /\ todo \in [Workers -> SUBSET Rows]
      /\ held \in [Workers -> SUBSET Rows]
      /\ connected \in [Workers -> BOOLEAN]
      /\ pc \in [Workers -> {"unborn", "open", "check", "claim", "fetch",
                   "begin", "insert", "commit", "exited", "failed"}]
  BY DEF Init, IdleWorkers
<1>5. phase = "stage" /\ outcome = "none" /\ cancel = FALSE
  BY DEF Init
<1>6. QED BY <1>1, <1>2, <1>3, <1>4, <1>5 DEF TypeOK

(* A step of a worker keeps the types.                                      *)
LEMMA WorkerStepType ==
  ASSUME TypeOK, NEW w \in Workers,
         WorkerStep(w) \/ AttemptFails(w) \/ LoseConnection(w)
  PROVE  TypeOK'
<1> USE DEF tableVars
<1>0. rows' = rows /\ Rows' = Rows
  BY WorkerKeepsRows
<1>1. CASE Open(w)
  <2>1. faults' \in 0 .. MaxFaults
    BY <1>1, FaultType DEF Open, TypeOK
  <2>2. QED BY <1>0, <1>1, <2>1 DEF Open, TypeOK
<1>2. CASE CheckCancel(w)
  BY <1>0, <1>2 DEF CheckCancel, TypeOK
<1>3. CASE ClaimBatch(w)
  <2>1. ClaimedRows \subseteq Rows
    BY DEF ClaimedRows
  <2>2. nextRow + BatchSize \in Nat \ {0}
    BY IngestAssumption DEF TypeOK
  <2>3. CASE nextRow > Len(rows)
    BY <1>0, <1>3, <2>3 DEF ClaimBatch, TypeOK
  <2>4. CASE ~(nextRow > Len(rows))
    <3>1. /\ pc' = [pc EXCEPT ![w] = "fetch"]
          /\ batch' = [batch EXCEPT ![w] = ClaimedRows]
          /\ nextRow' = nextRow + BatchSize
          /\ lateClaims' = [lateClaims EXCEPT ![w] =
                              IF cancel THEN @ + 1 ELSE @]
      BY <1>3, <2>4 DEF ClaimBatch
    <3>2. lateClaims' \in [Workers -> Nat]
      BY <3>1 DEF TypeOK
    <3>3. QED
      BY <1>0, <1>3, <2>1, <2>2, <3>1, <3>2 DEF ClaimBatch, TypeOK
  <2>5. QED BY <2>3, <2>4
<1>4. CASE Fetch(w)
  <2>1. CASE /\ pc' = [pc EXCEPT ![w] = "begin"]
             /\ attempt' = [attempt EXCEPT ![w] = 1]
             /\ UNCHANGED <<batch, todo, held, givenUp, faults>>
    <3>1. 1 \in 0 .. Retries
      BY IngestAssumption
    <3>2. QED BY <1>0, <1>4, <2>1, <3>1 DEF Fetch, TypeOK
  <2>2. CASE GiveUp(w) /\ (Fault("statement") \/ UNCHANGED faults)
    <3>1. faults' \in 0 .. MaxFaults
      BY <2>2, FaultType DEF TypeOK
    <3>2. QED BY <1>0, <1>4, <2>2, <3>1, GiveUpType DEF Fetch, TypeOK
  <2>3. QED BY <1>4, <2>1, <2>2 DEF Fetch
<1>5. CASE Begin(w)
  BY <1>0, <1>5 DEF Begin, TypeOK
<1>6. CASE InsertDocument(w)
  <2>1. PICK r \in todo[w] :
          /\ todo' = [todo EXCEPT ![w] = @ \ {r}]
          /\ held' = [held EXCEPT ![w] =
                        IF \E s \in stored \union @ : SameName(r, s)
                        THEN @ ELSE @ \union {r}]
          /\ pc' = [pc EXCEPT ![w] =
                      IF todo[w] = {r} THEN "commit" ELSE "insert"]
    BY <1>6 DEF InsertDocument
  <2>2. r \in Rows
    BY DEF TypeOK
  <2>3. QED BY <1>0, <1>6, <2>1, <2>2 DEF InsertDocument, TypeOK
<1>7. CASE Commit(w)
  <2>1. 0 \in 0 .. Retries
    BY IngestAssumption
  <2>2. QED
    BY <1>0, <1>7, <2>1, CommitTablesType DEF Commit, CommitTables, TypeOK
<1>8. CASE AttemptOnDeadConnection(w)
  BY <1>0, <1>8, NextAttemptType DEF AttemptOnDeadConnection, TypeOK
<1>9. CASE DeadlockVictim(w)
  BY <1>0, <1>9, NextAttemptType DEF DeadlockVictim, TypeOK
<1>10. CASE AttemptFails(w)
  BY <1>0, <1>10, NextAttemptType, FaultType DEF AttemptFails, TypeOK
<1>11. CASE LoseConnection(w)
  <2>1. faults' \in 0 .. MaxFaults
    BY <1>11, FaultType DEF LoseConnection
  <2>2. /\ stored' \subseteq Rows /\ indexed' \in [Rows -> Nat]
        /\ UNCHANGED <<terms, postings, sealed>>
    <3>1. CASE UNCHANGED tableVars
      BY <3>1 DEF TypeOK
    <3>2. CASE CommitTables(w)
      BY <3>2, CommitTablesType DEF CommitTables
    <3>3. QED BY <1>11, <3>1, <3>2 DEF LoseConnection
  <2>3. QED BY <1>0, <1>11, <2>1, <2>2 DEF LoseConnection, TypeOK
<1>12. QED
  BY <1>1, <1>2, <1>3, <1>4, <1>5, <1>6, <1>7, <1>8, <1>9, <1>10, <1>11
  DEF WorkerStep

(* A step of the coordinator keeps the types.                               *)
LEMMA CoordinatorType ==
  ASSUME TypeOK, CoordinatorStep \/ CoordinatorFails
  PROVE  TypeOK'
<1> USE IngestAssumption DEF workerVars, tableVars, Return
<1>1. CASE Stage
  BY <1>1 DEF Stage, TypeOK, Rows
<1>2. CASE Join
  BY <1>2 DEF Join, TypeOK, Rows
<1>3. CASE Prepare
  BY <1>3 DEF Prepare, TypeOK, Rows
<1>4. CASE FinalizeTerms
  BY <1>4 DEF FinalizeTerms, Staged, TypeOK, Rows
<1>5. CASE FinalizePostings
  BY <1>5 DEF FinalizePostings, Staged, TypeOK, Rows
<1>6. CASE Finish
  BY <1>6 DEF Finish, TypeOK, Rows
<1>7. CASE CoordinatorFails
  BY <1>7 DEF CoordinatorFails, Fault, TypeOK, Rows
<1>8. QED
  BY <1>1, <1>2, <1>3, <1>4, <1>5, <1>6, <1>7 DEF CoordinatorStep

(* Every step keeps the types.                                              *)
LEMMA NextType == TypeOK /\ [Next]_ingestVars => TypeOK'
<1> SUFFICES ASSUME TypeOK, [Next]_ingestVars PROVE TypeOK'
  OBVIOUS
<1>1. CASE IngestStep
  BY <1>1, WorkerStepType, CoordinatorType DEF IngestStep
<1>2. CASE RequestCancel
  BY <1>2 DEF RequestCancel, TypeOK, Rows, workerVars, tableVars
<1>3. CASE UNCHANGED ingestVars
  BY <1>3 DEF ingestVars, TypeOK, Rows, workerVars, tableVars
<1>4. QED BY <1>1, <1>2, <1>3 DEF Next, Returned

(***************************************************************************)
(* Type correctness of the loader, for every thread count and input.       *)
(***************************************************************************)
THEOREM TypeCorrect == Spec => []TypeOK
  BY InitType, NextType, PTL DEF Spec

-----------------------------------------------------------------------------
(* The ledger of the rows.                                                  *)

(* A worker that can take a step has not exited, and its step is none of    *)
(* the coordinator's; so it runs neither in Phase 1 nor in Phase 3.         *)
LEMMA WorkerKeepsPhases ==
  ASSUME TypeOK, PhasesInOrder, NEW w \in Workers,
         WorkerStep(w) \/ AttemptFails(w) \/ LoseConnection(w)
  PROVE  PhasesInOrder'
<1>1. phase' = phase /\ outcome' = outcome
  BY DEF WorkerStep, Open, CheckCancel, ClaimBatch, Fetch, Begin,
     InsertDocument, Commit, AttemptOnDeadConnection, DeadlockVictim,
     AttemptFails, LoseConnection
<1>2. pc[w] # "exited" /\ (pc[w] # "unborn" \/ pc' = pc)
  BY DEF WorkerStep, Open, CheckCancel, ClaimBatch, Fetch, Begin,
     InsertDocument, Commit, AttemptOnDeadConnection, DeadlockVictim,
     AttemptFails, LoseConnection, InTransaction, Deadlocked, Blocks
<1>3. QED BY <1>1, <1>2 DEF PhasesInOrder

(* A worker whose claim stays as it is keeps the ledger.                    *)
LEMMA LedgerKeepsClaim ==
  ASSUME TypeOK, RowLedger, NEW w \in Workers,
         UNCHANGED <<rows, cancel, nextRow, batch, indexed, givenUp>>,
         \A v \in Workers :
           /\ v # w => pc'[v] = pc[v] /\ connected'[v] = connected[v]
           /\ connected'[v] => connected[v] \/ batch[v] = {},
         pc'[w] \in WithoutClaim => batch[w] = {},
         pc'[w] = "exited" => cancel \/ nextRow > Len(rows),
         PhasesInOrder'
  PROVE  RowLedger'
<1>1. Rows' = Rows
  BY DEF Rows
<1>2. UnclaimedUntouched' /\ OwnedWasClaimed' /\ OneOwner'
  BY <1>1 DEF RowLedger, UnclaimedUntouched, OwnedWasClaimed, OneOwner
<1>3. ClaimedAccounted'
  BY <1>1 DEF RowLedger, ClaimedAccounted
<1>4. OwnedAndIndexedIsDead'
  BY <1>1 DEF RowLedger, OwnedAndIndexedIsDead, TypeOK
<1>5. ClaimsMatchControl'
  BY DEF RowLedger, ClaimsMatchControl
<1>6. QED BY <1>2, <1>3, <1>4, <1>5 DEF RowLedger

(* Claiming the rows at the cursor keeps the ledger.                        *)
LEMMA LedgerClaim ==
  ASSUME TypeOK, RowLedger, NEW w \in Workers, ClaimBatch(w),
         nextRow <= Len(rows), PhasesInOrder'
  PROVE  RowLedger'
<1>1. /\ rows' = rows /\ Rows' = Rows /\ cancel' = cancel
      /\ indexed' = indexed /\ givenUp' = givenUp /\ connected' = connected
      /\ nextRow' = nextRow + BatchSize
      /\ pc' = [pc EXCEPT ![w] = "fetch"]
      /\ batch' = [batch EXCEPT ![w] = ClaimedRows]
  BY DEF ClaimBatch, tableVars, Rows, TypeOK
<1>2. nextRow \in Nat /\ BatchSize \in Nat \ {0} /\ Len(rows) \in Nat
  BY IngestAssumption DEF TypeOK
<1>3. \A r \in Rows : r \in Nat
  BY DEF Rows
<1>4. batch[w] = {}
  BY DEF RowLedger, ClaimsMatchControl, ClaimBatch, WithoutClaim
<1>5. /\ batch'[w] = ClaimedRows
      /\ \A v \in Workers : v # w => batch'[v] = batch[v]
  BY <1>1 DEF TypeOK
<1>6. UnclaimedUntouched'
  BY <1>1, <1>2, <1>3 DEF RowLedger, UnclaimedUntouched
<1>7. OwnedWasClaimed'
  <2> SUFFICES ASSUME NEW v \in Workers, NEW r \in batch'[v]
               PROVE  r < nextRow'
    BY DEF OwnedWasClaimed
  <2>1. CASE v = w
    BY <2>1, <1>1, <1>5 DEF ClaimedRows
  <2>2. CASE v # w
    <3>1. r \in Rows /\ r < nextRow
      BY <2>2, <1>5 DEF RowLedger, OwnedWasClaimed, TypeOK
    <3>2. QED BY <3>1, <1>1, <1>2, <1>3
  <2>3. QED BY <2>1, <2>2
<1>8. OneOwner'
  <2>1. \A v \in Workers : v # w => \A r \in batch[v] : r \notin ClaimedRows
    <3> SUFFICES ASSUME NEW v \in Workers, NEW r \in batch[v],
                        r \in ClaimedRows
                 PROVE  FALSE
      OBVIOUS
    <3>1. r \in Rows /\ r < nextRow
      BY DEF RowLedger, OwnedWasClaimed, TypeOK
    <3>2. nextRow <= r
      BY DEF ClaimedRows
    <3>3. QED BY <3>1, <3>2, <1>2, <1>3
  <2>2. QED BY <2>1, <1>5 DEF RowLedger, OneOwner
<1>9. ClaimedAccounted'
  <2> SUFFICES ASSUME NEW r \in Rows, r < nextRow'
               PROVE  \/ indexed'[r] > 0
                      \/ r \in givenUp'
                      \/ \E v \in Workers : r \in batch'[v]
    BY <1>1 DEF ClaimedAccounted
  <2>1. CASE r < nextRow
    <3>1. \/ indexed[r] > 0
          \/ r \in givenUp
          \/ \E v \in Workers : r \in batch[v]
      BY <2>1 DEF RowLedger, ClaimedAccounted
    <3>2. (\E v \in Workers : r \in batch[v])
            => (\E v \in Workers : r \in batch'[v])
      BY <1>4, <1>5
    <3>3. QED BY <3>1, <3>2, <1>1
  <2>2. CASE ~(r < nextRow)
    <3>1. r \in ClaimedRows
      BY <2>2, <1>1, <1>2, <1>3 DEF ClaimedRows
    <3>2. QED BY <3>1, <1>5
  <2>3. QED BY <2>1, <2>2
<1>10. OwnedAndIndexedIsDead'
  <2> SUFFICES ASSUME NEW v \in Workers, NEW r \in batch'[v],
                      indexed'[r] > 0
               PROVE  ~connected'[v]
    BY DEF OwnedAndIndexedIsDead
  <2>1. CASE v = w
    <3>1. r \in Rows /\ nextRow <= r
      BY <2>1, <1>5 DEF ClaimedRows
    <3>2. indexed[r] = 0
      BY <3>1, <1>2, <1>3 DEF RowLedger, UnclaimedUntouched
    <3>3. QED BY <3>2, <1>1
  <2>2. CASE v # w
    BY <2>2, <1>1, <1>5 DEF RowLedger, OwnedAndIndexedIsDead
  <2>3. QED BY <2>1, <2>2
<1>11. ClaimsMatchControl'
  <2> SUFFICES ASSUME NEW v \in Workers
               PROVE  /\ pc'[v] \in WithoutClaim => batch'[v] = {}
                      /\ pc'[v] = "exited" => cancel' \/ nextRow' > Len(rows')
    BY DEF ClaimsMatchControl
  <2>1. CASE v = w
    BY <2>1, <1>1 DEF TypeOK, WithoutClaim
  <2>2. CASE v # w
    BY <2>2, <1>1, <1>2, <1>5 DEF RowLedger, ClaimsMatchControl, TypeOK
  <2>3. QED BY <2>1, <2>2
<1>12. QED
  BY <1>6, <1>7, <1>8, <1>9, <1>10, <1>11 DEF RowLedger

(* Giving a batch up keeps the ledger.                                      *)
LEMMA LedgerGiveUp ==
  ASSUME TypeOK, RowLedger, NEW w \in Workers, GiveUp(w),
         UNCHANGED <<rows, cancel, nextRow, indexed, connected>>,
         PhasesInOrder'
  PROVE  RowLedger'
<1>1. Rows' = Rows
  BY DEF Rows
<1>2. /\ batch'[w] = {} /\ pc'[w] = "check"
      /\ \A v \in Workers : v # w => batch'[v] = batch[v] /\ pc'[v] = pc[v]
      /\ \A v \in Workers : batch'[v] \subseteq batch[v]
  BY DEF GiveUp, TypeOK
<1>3. UnclaimedUntouched'
  BY <1>1 DEF RowLedger, UnclaimedUntouched
<1>4. OwnedWasClaimed' /\ OneOwner'
  BY <1>2 DEF RowLedger, OwnedWasClaimed, OneOwner
<1>5. ClaimedAccounted'
  <2>1. givenUp' = givenUp \union batch[w]
    BY DEF GiveUp
  <2>2. \A r \in Rows : (\E v \in Workers : r \in batch[v])
           => r \in givenUp' \/ (\E v \in Workers : r \in batch'[v])
    BY <2>1, <1>2
  <2>3. QED BY <2>1, <2>2, <1>1 DEF RowLedger, ClaimedAccounted
<1>6. OwnedAndIndexedIsDead'
  BY <1>2 DEF RowLedger, OwnedAndIndexedIsDead
<1>7. ClaimsMatchControl'
  BY <1>2 DEF RowLedger, ClaimsMatchControl
<1>8. QED BY <1>3, <1>4, <1>5, <1>6, <1>7 DEF RowLedger

(* A transaction that ends without effect keeps the ledger.                 *)
LEMMA LedgerNextAttempt ==
  ASSUME TypeOK, RowLedger, NEW w \in Workers, NextAttempt(w),
         UNCHANGED <<rows, cancel, nextRow, indexed, connected>>,
         PhasesInOrder'
  PROVE  RowLedger'
<1>1. CASE attempt[w] < Retries
  <2>1. pc' = [pc EXCEPT ![w] = "begin"] /\ UNCHANGED <<batch, givenUp>>
    BY <1>1 DEF NextAttempt
  <2>2. /\ pc'[w] = "begin"
        /\ \A v \in Workers : v # w => pc'[v] = pc[v]
    BY <2>1 DEF TypeOK
  <2>3. pc'[w] \notin WithoutClaim /\ pc'[w] # "exited"
    BY <2>2 DEF WithoutClaim
  <2>4. QED BY <2>1, <2>2, <2>3, LedgerKeepsClaim
<1>2. CASE ~(attempt[w] < Retries)
  BY <1>2, LedgerGiveUp DEF NextAttempt
<1>3. QED BY <1>1, <1>2

(* Committing a batch that is not indexed yet, by a worker that then either *)
(* owns it no more or has no connection, keeps the ledger.                  *)
LEMMA LedgerCommit ==
  ASSUME TypeOK, RowLedger, NEW w \in Workers, CommitTables(w),
         connected[w], pc[w] = "commit",
         UNCHANGED <<rows, cancel, nextRow, givenUp>>,
         \A v \in Workers :
           v # w => /\ pc'[v] = pc[v]
                    /\ batch'[v] = batch[v]
                    /\ connected'[v] = connected[v],
         \/ batch'[w] = {} /\ pc'[w] = "check"
         \/ batch'[w] = batch[w] /\ pc'[w] = pc[w] /\ ~connected'[w],
         PhasesInOrder'
  PROVE  RowLedger'
<1>1. /\ Rows' = Rows
      /\ \A r \in Rows : r \in Nat
      /\ nextRow \in Nat
  BY DEF Rows, TypeOK
<1>2. \A r \in Rows : /\ r \in batch[w] => indexed'[r] = indexed[r] + 1
                      /\ r \notin batch[w] => indexed'[r] = indexed[r]
                      /\ indexed[r] \in Nat
  BY DEF CommitTables, TypeOK
<1>3. UnclaimedUntouched'
  <2>1. \A r \in Rows : r >= nextRow => r \notin batch[w]
    BY <1>1 DEF RowLedger, OwnedWasClaimed
  <2>2. QED BY <1>1, <1>2, <2>1 DEF RowLedger, UnclaimedUntouched
<1>4. \A v \in Workers : batch'[v] \subseteq batch[v]
  OBVIOUS
<1>5. OwnedWasClaimed' /\ OneOwner'
  BY <1>4 DEF RowLedger, OwnedWasClaimed, OneOwner
<1>6. ClaimedAccounted'
  <2> SUFFICES ASSUME NEW r \in Rows, r < nextRow
               PROVE  \/ indexed'[r] > 0
                      \/ r \in givenUp
                      \/ \E v \in Workers : r \in batch'[v]
    BY <1>1 DEF ClaimedAccounted
  <2>1. CASE r \in batch[w]
    BY <2>1, <1>2
  <2>2. CASE r \notin batch[w]
    BY <2>2, <1>2 DEF RowLedger, ClaimedAccounted
  <2>3. QED BY <2>1, <2>2
<1>7. OwnedAndIndexedIsDead'
  <2> SUFFICES ASSUME NEW v \in Workers, NEW r \in batch'[v],
                      indexed'[r] > 0
               PROVE  ~connected'[v]
    BY DEF OwnedAndIndexedIsDead
  <2>1. CASE v = w
    BY <2>1
  <2>2. CASE v # w
    <3>1. r \in Rows /\ r \in batch[v]
      BY <1>4 DEF TypeOK
    <3>2. r \notin batch[w]
      BY <3>1, <2>2 DEF RowLedger, OneOwner
    <3>3. QED
      BY <3>1, <3>2, <2>2, <1>2 DEF RowLedger, OwnedAndIndexedIsDead
  <2>3. QED BY <2>1, <2>2
<1>8. ClaimsMatchControl'
  <2> SUFFICES ASSUME NEW v \in Workers
               PROVE  /\ pc'[v] \in WithoutClaim => batch'[v] = {}
                      /\ pc'[v] = "exited" => cancel' \/ nextRow' > Len(rows')
    BY DEF ClaimsMatchControl
  <2>1. CASE v = w
    BY <2>1 DEF WithoutClaim
  <2>2. CASE v # w
    BY <2>2 DEF RowLedger, ClaimsMatchControl
  <2>3. QED BY <2>1, <2>2
<1>9. QED BY <1>3, <1>5, <1>6, <1>7, <1>8 DEF RowLedger

(* A step of a worker keeps the ledger.                                     *)
LEMMA WorkerStepLedger ==
  ASSUME TypeOK, RowLedger, NEW w \in Workers,
         WorkerStep(w) \/ AttemptFails(w) \/ LoseConnection(w)
  PROVE  RowLedger'
<1> USE DEF tableVars
<1>0. PhasesInOrder'
  BY WorkerKeepsPhases DEF RowLedger
<1>1. CASE Open(w)
  <2>1. /\ batch[w] = {}
        /\ pc'[w] # "exited"
        /\ \A v \in Workers :
             v # w => pc'[v] = pc[v] /\ connected'[v] = connected[v]
    BY <1>1 DEF Open, RowLedger, ClaimsMatchControl, WithoutClaim, TypeOK
  <2>2. UNCHANGED <<rows, cancel, nextRow, batch, indexed, givenUp>>
    BY <1>1 DEF Open
  <2>3. QED BY <1>0, <2>1, <2>2, LedgerKeepsClaim
<1>2. CASE CheckCancel(w)
  <2>1. /\ batch[w] = {}
        /\ pc'[w] = "exited" => cancel
        /\ \A v \in Workers : v # w => pc'[v] = pc[v]
    BY <1>2 DEF CheckCancel, RowLedger, ClaimsMatchControl, WithoutClaim,
       TypeOK
  <2>2. UNCHANGED <<rows, cancel, nextRow, batch, indexed, givenUp, connected>>
    BY <1>2 DEF CheckCancel
  <2>3. QED BY <1>0, <2>1, <2>2, LedgerKeepsClaim
<1>3. CASE ClaimBatch(w)
  <2>1. nextRow \in Nat /\ Len(rows) \in Nat
    BY DEF TypeOK
  <2>2. CASE nextRow > Len(rows)
    <3>1. /\ batch[w] = {}
          /\ \A v \in Workers : v # w => pc'[v] = pc[v]
      BY <1>3, <2>2 DEF ClaimBatch, RowLedger, ClaimsMatchControl,
         WithoutClaim, TypeOK
    <3>2. UNCHANGED <<rows, cancel, nextRow, batch, indexed, givenUp,
                      connected>>
      BY <1>3, <2>2 DEF ClaimBatch
    <3>3. QED BY <1>0, <2>2, <3>1, <3>2, LedgerKeepsClaim
  <2>3. CASE nextRow <= Len(rows)
    BY <1>0, <1>3, <2>3, LedgerClaim
  <2>4. QED BY <2>1, <2>2, <2>3
<1>4. CASE Fetch(w)
  <2>1. UNCHANGED <<rows, cancel, nextRow, indexed, connected>>
    BY <1>4 DEF Fetch
  <2>2. CASE GiveUp(w)
    BY <1>0, <2>1, <2>2, LedgerGiveUp
  <2>3. CASE pc' = [pc EXCEPT ![w] = "begin"] /\ UNCHANGED <<batch, givenUp>>
    <3>1. /\ pc'[w] = "begin"
          /\ \A v \in Workers : v # w => pc'[v] = pc[v]
      BY <2>3 DEF TypeOK
    <3>2. pc'[w] \notin WithoutClaim /\ pc'[w] # "exited"
      BY <3>1 DEF WithoutClaim
    <3>3. QED BY <1>0, <2>1, <2>3, <3>1, <3>2, LedgerKeepsClaim
  <2>4. QED BY <1>4, <2>2, <2>3 DEF Fetch
<1>5. CASE Begin(w) \/ InsertDocument(w)
  <2>1. /\ pc'[w] \in {"insert", "commit"}
        /\ \A v \in Workers : v # w => pc'[v] = pc[v]
    BY <1>5 DEF Begin, InsertDocument, TypeOK
  <2>2. pc'[w] \notin WithoutClaim /\ pc'[w] # "exited"
    BY <2>1 DEF WithoutClaim
  <2>3. UNCHANGED <<rows, cancel, nextRow, batch, indexed, givenUp, connected>>
    BY <1>5 DEF Begin, InsertDocument
  <2>4. QED BY <1>0, <2>1, <2>2, <2>3, LedgerKeepsClaim
<1>6. CASE Commit(w)
  <2>1. /\ batch'[w] = {} /\ pc'[w] = "check"
        /\ \A v \in Workers : v # w => /\ pc'[v] = pc[v]
                                      /\ batch'[v] = batch[v]
                                      /\ connected'[v] = connected[v]
        /\ UNCHANGED <<rows, cancel, nextRow, givenUp>>
    BY <1>6 DEF Commit, TypeOK
  <2>2. CommitTables(w) /\ connected[w] /\ pc[w] = "commit"
    BY <1>6 DEF Commit
  <2>3. QED BY <1>0, <2>1, <2>2, LedgerCommit
<1>7. CASE AttemptOnDeadConnection(w) \/ DeadlockVictim(w) \/ AttemptFails(w)
  <2>1. UNCHANGED <<rows, cancel, nextRow, indexed, connected>>
    BY <1>7 DEF AttemptOnDeadConnection, DeadlockVictim, AttemptFails
  <2>2. NextAttempt(w)
    BY <1>7 DEF AttemptOnDeadConnection, DeadlockVictim, AttemptFails
  <2>3. QED BY <1>0, <2>1, <2>2, LedgerNextAttempt
<1>8. CASE LoseConnection(w)
  <2>1. /\ ~connected'[w]
        /\ \A v \in Workers : v # w => connected'[v] = connected[v]
        /\ UNCHANGED <<rows, cancel, nextRow, pc, batch, givenUp>>
    BY <1>8 DEF LoseConnection, TypeOK
  <2>2. CASE CommitTables(w) /\ pc[w] = "commit"
    <3>1. connected[w]
      BY <1>8 DEF LoseConnection
    <3>2. QED BY <1>0, <2>1, <2>2, <3>1, LedgerCommit
  <2>3. CASE UNCHANGED indexed
    <3>1. \A v \in Workers :
            /\ pc[v] \in WithoutClaim => batch[v] = {}
            /\ pc[v] = "exited" => cancel \/ nextRow > Len(rows)
      BY DEF RowLedger, ClaimsMatchControl
    <3>2. QED BY <1>0, <2>1, <2>3, <3>1, LedgerKeepsClaim
  <2>4. QED BY <1>8, <2>2, <2>3 DEF LoseConnection
<1>9. QED
  BY <1>1, <1>2, <1>3, <1>4, <1>5, <1>6, <1>7, <1>8 DEF WorkerStep

(* A step of the coordinator keeps the ledger.                              *)
LEMMA CoordinatorLedger ==
  ASSUME TypeOK, RowLedger, CoordinatorStep \/ CoordinatorFails
  PROVE  RowLedger'
<1> USE DEF workerVars, tableVars, Return
<1>0. UNCHANGED <<rows, cancel, nextRow, batch, indexed, givenUp, connected>>
  BY DEF CoordinatorStep, CoordinatorFails, Stage, Join, Prepare,
     FinalizeTerms, FinalizePostings, Finish
<1>1. Rows' = Rows
  BY <1>0 DEF Rows
<1>2. /\ UnclaimedUntouched' /\ OwnedWasClaimed' /\ OneOwner'
      /\ ClaimedAccounted' /\ OwnedAndIndexedIsDead'
  BY <1>0, <1>1 DEF RowLedger, UnclaimedUntouched, OwnedWasClaimed, OneOwner,
     ClaimedAccounted, OwnedAndIndexedIsDead
<1>3. CASE Stage
  <2>1. /\ phase' \in {"load", "done"}
        /\ phase' = "load" => outcome' = "none"
        /\ outcome' # "ok"
    BY <1>3 DEF Stage, RowLedger, PhasesInOrder
  <2>2. \A w \in Workers : batch[w] = {} /\ pc'[w] \in {"unborn", "open"}
    BY <1>3 DEF Stage, RowLedger, PhasesInOrder, ClaimsMatchControl,
       WithoutClaim
  <2>3. ClaimsMatchControl' /\ PhasesInOrder'
    BY <1>0, <2>1, <2>2 DEF ClaimsMatchControl, PhasesInOrder
  <2>4. QED BY <1>2, <2>3 DEF RowLedger
<1>4. CASE ~Stage
  <2>1. pc' = pc
    BY <1>4 DEF CoordinatorStep, CoordinatorFails, Join, Prepare,
       FinalizeTerms, FinalizePostings, Finish
  <2>2. ClaimsMatchControl'
    BY <1>0, <2>1 DEF RowLedger, ClaimsMatchControl
  <2>3. PhasesInOrder'
    <3>1. CASE Join
      <4>1. \/ phase' = "done" /\ outcome' # "ok"
            \/ /\ phase' = "prepare" /\ outcome' = outcome /\ phase = "load"
               /\ \A w \in Workers : pc[w] = "exited"
               /\ ~cancel
        BY <3>1 DEF Join
      <4>2. CASE phase' = "done" /\ outcome' # "ok"
        BY <4>2 DEF PhasesInOrder
      <4>3. CASE /\ phase' = "prepare" /\ outcome' = outcome /\ phase = "load"
                 /\ \A w \in Workers : pc[w] = "exited"
                 /\ ~cancel
        <5>1. PICK w \in Workers : TRUE
          BY IngestAssumption
        <5>2. nextRow > Len(rows)
          BY <4>3, <5>1 DEF RowLedger, ClaimsMatchControl
        <5>3. outcome' = "none"
          BY <4>3 DEF RowLedger, PhasesInOrder
        <5>4. QED BY <1>0, <2>1, <4>3, <5>2, <5>3 DEF PhasesInOrder
      <4>4. QED BY <4>1, <4>2, <4>3
    <3>2. CASE Prepare \/ FinalizeTerms \/ FinalizePostings
      <4>1. /\ phase \in {"prepare", "terms", "postings"}
            /\ phase' \in {"terms", "postings", "finish"}
            /\ outcome' = outcome
        BY <3>2 DEF Prepare, FinalizeTerms, FinalizePostings
      <4>2. QED BY <1>0, <2>1, <4>1 DEF RowLedger, PhasesInOrder
    <3>3. CASE Finish
      <4>1. phase = "finish" /\ phase' = "done"
        BY <3>3 DEF Finish
      <4>2. QED BY <1>0, <2>1, <4>1 DEF RowLedger, PhasesInOrder
    <3>4. CASE CoordinatorFails
      BY <3>4 DEF CoordinatorFails, PhasesInOrder
    <3>5. QED BY <1>4, <3>1, <3>2, <3>3, <3>4 DEF CoordinatorStep
  <2>4. QED BY <1>2, <2>2, <2>3 DEF RowLedger
<1>5. QED BY <1>3, <1>4

(* Initially the ledger is empty.                                           *)
LEMMA InitLedger == Init => RowLedger
<1> SUFFICES ASSUME Init PROVE RowLedger
  OBVIOUS
<1>1. /\ nextRow = 1 /\ phase = "stage" /\ outcome = "none"
      /\ indexed = [r \in Rows |-> 0]
      /\ batch = [w \in Workers |-> {}]
      /\ pc = [w \in Workers |-> "unborn"]
  BY DEF Init, IdleWorkers, FreshTables
<1>2. \A r \in Rows : ~(r < nextRow)
  BY <1>1 DEF Rows
<1>3. UnclaimedUntouched /\ ClaimedAccounted
  BY <1>1, <1>2 DEF UnclaimedUntouched, ClaimedAccounted
<1>4. OwnedWasClaimed /\ OneOwner /\ OwnedAndIndexedIsDead
  BY <1>1 DEF OwnedWasClaimed, OneOwner, OwnedAndIndexedIsDead
<1>5. ClaimsMatchControl /\ PhasesInOrder
  BY <1>1 DEF ClaimsMatchControl, PhasesInOrder
<1>6. QED BY <1>3, <1>4, <1>5 DEF RowLedger

(* Every step keeps the ledger.                                             *)
LEMMA NextLedger == TypeOK /\ RowLedger /\ [Next]_ingestVars => RowLedger'
<1> SUFFICES ASSUME TypeOK, RowLedger, [Next]_ingestVars PROVE RowLedger'
  OBVIOUS
<1>1. CASE IngestStep
  BY <1>1, WorkerStepLedger, CoordinatorLedger DEF IngestStep
<1>2. CASE RequestCancel \/ UNCHANGED ingestVars
  <2>1. /\ UNCHANGED <<rows, phase, outcome, nextRow, pc, batch, connected,
                       indexed, givenUp>>
        /\ cancel => cancel'
    BY <1>2 DEF RequestCancel, ingestVars, workerVars, tableVars
  <2>2. Rows' = Rows
    BY <2>1 DEF Rows
  <2>3. QED
    BY <2>1, <2>2 DEF RowLedger, UnclaimedUntouched, OwnedWasClaimed,
       OneOwner, ClaimedAccounted, OwnedAndIndexedIsDead, ClaimsMatchControl,
       PhasesInOrder
<1>3. QED BY <1>1, <1>2 DEF Next, Returned

(***************************************************************************)
(* The ledger of the rows holds in every reachable state.                  *)
(***************************************************************************)
THEOREM LedgerHolds == Spec => []RowLedger
<1>1. TypeOK /\ RowLedger /\ [Next]_ingestVars => RowLedger'
  BY NextLedger
<1>2. QED BY <1>1, InitLedger, TypeCorrect, PTL DEF Spec

-----------------------------------------------------------------------------
(* No row is indexed twice.                                                 *)

(* Committing a batch by a connected worker indexes rows for the first time *)
LEMMA CommitIndexesOnce ==
  ASSUME TypeOK, RowLedger, RowsIndexedAtMostOnce, NEW w \in Workers,
         connected[w], CommitTables(w), rows' = rows
  PROVE  RowsIndexedAtMostOnce'
<1>1. Rows' = Rows
  BY DEF Rows
<1>2. \A r \in batch[w] : r \in Rows /\ indexed[r] = 0
  BY DEF RowLedger, OwnedAndIndexedIsDead, TypeOK
<1>3. \A r \in Rows :
        indexed'[r] = IF r \in batch[w] THEN indexed[r] + 1 ELSE indexed[r]
  BY DEF CommitTables
<1>4. QED BY <1>1, <1>2, <1>3 DEF RowsIndexedAtMostOnce

(***************************************************************************)
(* Whatever the number of threads, the retries and the commits whose reply *)
(* is lost: the passages of a row are committed at most once.              *)
(***************************************************************************)
THEOREM NoRowIndexedTwice == Spec => []RowsIndexedAtMostOnce
<1>1. Init => RowsIndexedAtMostOnce
  BY DEF Init, FreshTables, RowsIndexedAtMostOnce
<1>2. TypeOK /\ RowLedger /\ RowsIndexedAtMostOnce /\ [Next]_ingestVars
        => RowsIndexedAtMostOnce'
  <2> SUFFICES ASSUME TypeOK, RowLedger, RowsIndexedAtMostOnce,
                      [Next]_ingestVars
               PROVE  RowsIndexedAtMostOnce'
    OBVIOUS
  <2>1. CASE UNCHANGED <<rows, indexed>>
    BY <2>1 DEF RowsIndexedAtMostOnce, Rows
  <2>2. CASE \E w \in Workers :
               connected[w] /\ CommitTables(w) /\ rows' = rows
    BY <2>2, CommitIndexesOnce
  <2>3. QED
    <3>1. CASE UNCHANGED ingestVars \/ RequestCancel
      BY <3>1, <2>1 DEF ingestVars, RequestCancel, tableVars
    <3>2. CASE CoordinatorStep \/ CoordinatorFails
      BY <3>2, <2>1 DEF CoordinatorStep, CoordinatorFails, Stage, Join,
         Prepare, FinalizeTerms, FinalizePostings, Finish, tableVars
    <3>3. CASE \E w \in Workers : Commit(w) \/ LoseConnection(w)
      BY <3>3, <2>1, <2>2 DEF Commit, LoseConnection, tableVars
    <3>4. CASE \E w \in Workers :
                 \/ Open(w) \/ CheckCancel(w) \/ ClaimBatch(w) \/ Fetch(w)
                 \/ Begin(w) \/ InsertDocument(w)
                 \/ AttemptOnDeadConnection(w) \/ DeadlockVictim(w)
                 \/ AttemptFails(w)
      BY <3>4, <2>1 DEF Open, CheckCancel, ClaimBatch, Fetch, Begin,
         InsertDocument, AttemptOnDeadConnection, DeadlockVictim,
         AttemptFails, tableVars
    <3>5. QED
      BY <3>1, <3>2, <3>3, <3>4 DEF Next, IngestStep, WorkerStep, Returned
<1>3. QED BY <1>1, <1>2, TypeCorrect, LedgerHolds, PTL DEF Spec

(***************************************************************************)
(* A run that returns success has indexed every row or reported it as      *)
(* skipped.                                                                *)
(***************************************************************************)
THEOREM NothingIsLostSilently == Spec => []EveryRowAccountedFor
<1>1. TypeOK /\ RowLedger => EveryRowAccountedFor
  <2> SUFFICES ASSUME TypeOK, RowLedger, outcome = "ok", NEW r \in Rows
               PROVE  indexed[r] > 0 \/ r \in givenUp
    BY DEF EveryRowAccountedFor
  <2>1. nextRow > Len(rows) /\ \A w \in Workers : pc[w] = "exited"
    BY DEF RowLedger, PhasesInOrder
  <2>2. r < nextRow
    BY <2>1 DEF Rows, TypeOK
  <2>3. \A w \in Workers : batch[w] = {}
    BY <2>1 DEF RowLedger, ClaimsMatchControl, WithoutClaim
  <2>4. QED BY <2>2, <2>3 DEF RowLedger, ClaimedAccounted
<1>2. QED BY <1>1, TypeCorrect, LedgerHolds, PTL

-----------------------------------------------------------------------------
(* The cancel.                                                              *)

(* A worker about to claim has seen the flag unset since its last claim, so *)
(* none of its claims was late; before the cancel no claim is.              *)
NoLateClaimBehind ==
  \A w \in Workers :
    /\ ~cancel => lateClaims[w] = 0
    /\ pc[w] = "claim" => lateClaims[w] = 0
    /\ lateClaims[w] <= 1

(* A step that leaves flag and count alone and sends no worker to a claim.  *)
LEMMA NoNewClaim ==
  ASSUME NoLateClaimBehind, UNCHANGED lateClaims, cancel => cancel',
         \A w \in Workers : pc'[w] = "claim" => pc[w] = "claim" \/ ~cancel
  PROVE  NoLateClaimBehind'
  BY DEF NoLateClaimBehind

(***************************************************************************)
(* After the cancel no worker claims more than one further batch.          *)
(***************************************************************************)
THEOREM CancelIsPrompt == Spec => []CancelLandsWithinOneBatch
<1>1. Init => NoLateClaimBehind
  BY DEF Init, IdleWorkers, NoLateClaimBehind
<1>2. TypeOK /\ NoLateClaimBehind /\ [Next]_ingestVars => NoLateClaimBehind'
  <2> SUFFICES ASSUME TypeOK, NoLateClaimBehind, [Next]_ingestVars
               PROVE  NoLateClaimBehind'
    OBVIOUS
  <2> USE DEF workerVars, tableVars
  <2>1. CASE UNCHANGED ingestVars \/ RequestCancel
    BY <2>1, NoNewClaim DEF ingestVars, RequestCancel
  <2>2. CASE CoordinatorStep \/ CoordinatorFails
    <3>1. UNCHANGED <<lateClaims, cancel>>
      BY <2>2 DEF CoordinatorStep, CoordinatorFails, Stage, Join, Prepare,
         FinalizeTerms, FinalizePostings, Finish
    <3>2. pc' = pc \/ pc' = [w \in Workers |-> "open"]
      BY <2>2 DEF CoordinatorStep, CoordinatorFails, Stage, Join, Prepare,
         FinalizeTerms, FinalizePostings, Finish
    <3>3. QED BY <3>1, <3>2, NoNewClaim
  <2>3. ASSUME NEW w \in Workers, ClaimBatch(w) PROVE NoLateClaimBehind'
    <3>1. /\ pc[w] = "claim" /\ cancel' = cancel
          /\ pc'[w] # "claim"
          /\ \A v \in Workers : v # w => pc'[v] = pc[v]
      BY <2>3 DEF ClaimBatch, TypeOK
    <3>2. lateClaims[w] = 0
      BY <3>1 DEF NoLateClaimBehind
    <3>3. \/ lateClaims' = lateClaims
          \/ lateClaims' = [lateClaims EXCEPT ![w] = IF cancel THEN 1 ELSE 0]
      BY <2>3, <3>2 DEF ClaimBatch
    <3>4. QED BY <3>1, <3>2, <3>3 DEF NoLateClaimBehind, TypeOK
  <2>4. ASSUME NEW w \in Workers,
               \/ Open(w) \/ CheckCancel(w) \/ Fetch(w) \/ Begin(w)
               \/ InsertDocument(w) \/ Commit(w)
               \/ AttemptOnDeadConnection(w) \/ DeadlockVictim(w)
               \/ AttemptFails(w) \/ LoseConnection(w)
        PROVE  NoLateClaimBehind'
    <3>1. UNCHANGED <<lateClaims, cancel>>
      BY <2>4 DEF Open, CheckCancel, Fetch, Begin, InsertDocument, Commit,
         AttemptOnDeadConnection, DeadlockVictim, AttemptFails,
         LoseConnection
    <3>2. PICK to \in {"open", "check", "claim", "fetch", "begin", "insert",
                       "commit", "exited", "failed", pc[w]} :
            /\ pc' = [pc EXCEPT ![w] = to]
            /\ to = "claim" => pc[w] = "claim" \/ ~cancel
      BY <2>4 DEF Open, CheckCancel, Fetch, Begin, InsertDocument, Commit,
         AttemptOnDeadConnection, DeadlockVictim, AttemptFails,
         LoseConnection, NextAttempt, GiveUp, TypeOK
    <3>3. QED BY <3>1, <3>2, NoNewClaim DEF TypeOK
  <2>5. QED
    BY <2>1, <2>2, <2>3, <2>4 DEF Next, IngestStep, WorkerStep, Returned
<1>3. NoLateClaimBehind => CancelLandsWithinOneBatch
  BY DEF NoLateClaimBehind, CancelLandsWithinOneBatch
<1>4. QED BY <1>1, <1>2, <1>3, TypeCorrect, PTL DEF Spec

-----------------------------------------------------------------------------
(* The index of a successful run.                                           *)

(* What Phase 3 has achieved before each of its steps.                      *)
PhaseThreeProgress ==
  /\ phase = "postings" => Staged \subseteq terms
  /\ phase \in {"stage", "load", "prepare", "terms", "postings"}
       => postings = {}
  /\ phase = "finish" => postings = Staged
  /\ outcome = "ok" => sealed /\ postings = Staged

(* Every step keeps what Phase 3 has achieved.                              *)
LEMMA NextPhaseThree ==
  TypeOK /\ RowLedger /\ PhaseThreeProgress /\ [Next]_ingestVars
    => PhaseThreeProgress'
<1> SUFFICES ASSUME TypeOK, RowLedger, PhaseThreeProgress, [Next]_ingestVars
             PROVE  PhaseThreeProgress'
  OBVIOUS
<1> USE DEF workerVars, tableVars
<1>1. CASE UNCHANGED ingestVars \/ RequestCancel
  BY <1>1 DEF ingestVars, RequestCancel, PhaseThreeProgress, Staged, Rows
<1>2. ASSUME NEW w \in Workers,
             WorkerStep(w) \/ AttemptFails(w) \/ LoseConnection(w)
      PROVE  PhaseThreeProgress'
  <2>1. UNCHANGED <<phase, outcome, postings>>
    BY <1>2 DEF WorkerStep, Open, CheckCancel, ClaimBatch, Fetch, Begin,
       InsertDocument, Commit, AttemptOnDeadConnection, DeadlockVictim,
       AttemptFails, LoseConnection, CommitTables
  <2>2. pc[w] # "exited"
    BY <1>2 DEF WorkerStep, Open, CheckCancel, ClaimBatch, Fetch, Begin,
       InsertDocument, Commit, AttemptOnDeadConnection, DeadlockVictim,
       AttemptFails, LoseConnection, InTransaction, Deadlocked, Blocks
  <2>3. /\ phase \notin {"prepare", "terms", "postings", "finish"}
        /\ outcome # "ok"
    BY <2>2 DEF RowLedger, PhasesInOrder
  <2>4. QED BY <2>1, <2>3 DEF PhaseThreeProgress
<1>3. CASE CoordinatorStep \/ CoordinatorFails
  <2>1. Staged' = Staged
    BY <1>3 DEF CoordinatorStep, CoordinatorFails, Stage, Join, Prepare,
       FinalizeTerms, FinalizePostings, Finish, Staged, Rows
  <2>2. phase # "done" => outcome # "ok"
    BY DEF RowLedger, PhasesInOrder
  <2>3. CASE Stage \/ Join \/ CoordinatorFails
    BY <2>1, <2>2, <2>3 DEF Stage, Join, CoordinatorFails, Return,
       PhaseThreeProgress
  <2>4. CASE Prepare \/ FinalizeTerms
    BY <2>1, <2>2, <2>4 DEF Prepare, FinalizeTerms, PhaseThreeProgress
  <2>5. CASE FinalizePostings
    BY <2>1, <2>2, <2>5 DEF FinalizePostings, PhaseThreeProgress
  <2>6. CASE Finish
    BY <2>1, <2>2, <2>6 DEF Finish, Return, PhaseThreeProgress
  <2>7. QED BY <1>3, <2>3, <2>4, <2>5, <2>6 DEF CoordinatorStep
<1>4. QED BY <1>1, <1>2, <1>3 DEF Next, IngestStep, Returned

(***************************************************************************)
(* Success means a whole index: constraints restored, and exactly the      *)
(* indexed rows have postings.                                             *)
(***************************************************************************)
THEOREM SuccessIsWhole == Spec => []SuccessLeavesWholeIndex
<1>1. Init => PhaseThreeProgress
  BY DEF Init, FreshTables, PhaseThreeProgress
<1>2. TypeOK /\ RowLedger /\ PhaseThreeProgress /\ [Next]_ingestVars
        => PhaseThreeProgress'
  BY NextPhaseThree
<1>3. PhaseThreeProgress => SuccessLeavesWholeIndex
  BY DEF PhaseThreeProgress, SuccessLeavesWholeIndex
<1>4. QED BY <1>1, <1>2, <1>3, TypeCorrect, LedgerHolds, PTL DEF Spec

-----------------------------------------------------------------------------
(* One text per name.                                                       *)

(* The rows whose name is in the table or locked by an open transaction.    *)
Taken == {r \in Rows : r \in stored \/ \E w \in Workers : r \in held[w]}

(* The uniqueness of names in the table, strengthened to cover the          *)
(* uncommitted rows as well.                                                *)
NamesAreLocked == \A r, s \in Taken : SameName(r, s) => r = s

(* A step after which no further row is taken keeps the names unique.       *)
LEMMA NothingTaken ==
  ASSUME NamesAreLocked, rows' = rows, Taken' \subseteq Taken
  PROVE  NamesAreLocked'
  BY DEF NamesAreLocked, SameName

(* Every step keeps the names unique.                                       *)
LEMMA NextNamesLocked ==
  TypeOK /\ NamesAreLocked /\ [Next]_ingestVars => NamesAreLocked'
<1> SUFFICES ASSUME TypeOK, NamesAreLocked, [Next]_ingestVars
             PROVE  NamesAreLocked'
  OBVIOUS
<1> USE DEF workerVars, tableVars
<1>1. CASE UNCHANGED <<rows, stored, held>>
  <2>1. Taken' = Taken
    BY <1>1 DEF Taken, Rows
  <2>2. QED BY <1>1, <2>1, NothingTaken
<1>2. ASSUME NEW w \in Workers, rows' = rows, stored' = stored,
             held' = [held EXCEPT ![w] = {}]
      PROVE  NamesAreLocked'
  <2>1. Taken' \subseteq Taken
    BY <1>2 DEF Taken, Rows, TypeOK
  <2>2. QED BY <1>2, <2>1, NothingTaken
<1>3. ASSUME NEW w \in Workers, rows' = rows,
             stored' = stored \union held[w],
             held' = [held EXCEPT ![w] = {}]
      PROVE  NamesAreLocked'
  <2>1. Taken' \subseteq Taken
    BY <1>3 DEF Taken, Rows, TypeOK
  <2>2. QED BY <1>3, <2>1, NothingTaken
<1>4. ASSUME NEW w \in Workers, InsertDocument(w)
      PROVE  NamesAreLocked'
  <2>1. PICK r \in todo[w] :
          /\ IsNext(w, r)
          /\ held' = [held EXCEPT ![w] =
                        IF \E s \in stored \union @ : SameName(r, s)
                        THEN @ ELSE @ \union {r}]
    BY <1>4 DEF InsertDocument
  <2>2. /\ rows' = rows /\ stored' = stored /\ Rows' = Rows
        /\ pc[w] = "insert" /\ ~ \E v \in Workers : Blocks(v, w)
    BY <1>4 DEF InsertDocument, Rows
  <2>3. CASE \E s \in stored \union held[w] : SameName(r, s)
    <3>1. Taken' \subseteq Taken
      BY <2>1, <2>2, <2>3 DEF Taken, TypeOK
    <3>2. QED BY <2>2, <3>1, NothingTaken
  <2>4. CASE ~ \E s \in stored \union held[w] : SameName(r, s)
    <3>1. Taken' \subseteq Taken \union {r}
      BY <2>1, <2>2 DEF Taken, TypeOK
    <3>2. \A v \in Workers : v # w => \A s \in held[v] : ~SameName(r, s)
      BY <2>1, <2>2 DEF Blocks
    <3>3. \A s \in Taken : ~SameName(r, s) /\ ~SameName(s, r)
      BY <3>2, <2>4 DEF Taken, SameName
    <3>4. QED BY <3>1, <3>3, <2>2 DEF NamesAreLocked, SameName
  <2>5. QED BY <2>3, <2>4
<1>5. QED
  <2>1. CASE UNCHANGED ingestVars \/ RequestCancel
    BY <2>1, <1>1 DEF ingestVars, RequestCancel
  <2>2. CASE CoordinatorStep \/ CoordinatorFails
    BY <2>2, <1>1 DEF CoordinatorStep, CoordinatorFails, Stage, Join,
       Prepare, FinalizeTerms, FinalizePostings, Finish
  <2>3. ASSUME NEW w \in Workers,
               Open(w) \/ CheckCancel(w) \/ ClaimBatch(w) \/ Begin(w)
        PROVE  NamesAreLocked'
    BY <2>3, <1>1 DEF Open, CheckCancel, ClaimBatch, Begin
  <2>4. ASSUME NEW w \in Workers,
               \/ Fetch(w) \/ AttemptOnDeadConnection(w)
               \/ DeadlockVictim(w) \/ AttemptFails(w)
        PROVE  NamesAreLocked'
    <3>1. rows' = rows /\ stored' = stored
      BY <2>4 DEF Fetch, AttemptOnDeadConnection, DeadlockVictim,
         AttemptFails
    <3>2. held' = held \/ held' = [held EXCEPT ![w] = {}]
      BY <2>4 DEF Fetch, AttemptOnDeadConnection, DeadlockVictim,
         AttemptFails, NextAttempt, GiveUp
    <3>3. QED BY <3>1, <3>2, <1>1, <1>2
  <2>5. ASSUME NEW w \in Workers, Commit(w) \/ LoseConnection(w)
        PROVE  NamesAreLocked'
    <3>1. rows' = rows /\ held' = [held EXCEPT ![w] = {}]
      BY <2>5 DEF Commit, LoseConnection
    <3>2. stored' = stored \/ stored' = stored \union held[w]
      BY <2>5 DEF Commit, LoseConnection, CommitTables
    <3>3. QED BY <3>1, <3>2, <1>2, <1>3
  <2>6. QED
    BY <2>1, <2>2, <2>3, <2>4, <2>5, <1>4
    DEF Next, IngestStep, WorkerStep, Returned

(***************************************************************************)
(* Whatever the workers insert at the same time, the table of documents    *)
(* holds one text under one name.                                          *)
(***************************************************************************)
THEOREM NamesAreUnique == Spec => []OneTextPerName
<1>1. Init => NamesAreLocked
  BY DEF Init, IdleWorkers, FreshTables, Taken, NamesAreLocked
<1>2. TypeOK /\ NamesAreLocked /\ [Next]_ingestVars => NamesAreLocked'
  BY NextNamesLocked
<1>3. TypeOK /\ NamesAreLocked => OneTextPerName
  BY DEF NamesAreLocked, OneTextPerName, Taken, TypeOK
<1>4. QED BY <1>1, <1>2, <1>3, TypeCorrect, PTL DEF Spec

-----------------------------------------------------------------------------
(* What a return value means, and the name of every indexed row.            *)

(* A worker that could not open its connection, and a run reported as       *)
(* failed, have met a fault; a run reported as cancelled has seen the flag. *)
OutcomesHaveCauses ==
  /\ \A w \in Workers : pc[w] = "failed" => faults > 0
  /\ outcome = "failed" => faults > 0
  /\ outcome = "cancelled" => cancel
  /\ phase = "done" => outcome # "none"

(* A worker whose step is not a fault fails nobody.                         *)
LEMMA CausesKept ==
  ASSUME TypeOK, OutcomesHaveCauses, faults' \in Nat, faults' >= faults,
         cancel => cancel',
         phase' = phase, outcome' = outcome,
         \A w \in Workers : pc'[w] = "failed" => pc[w] = "failed" \/ faults' > 0
  PROVE  OutcomesHaveCauses'
<1>1. faults > 0 => faults' > 0
  BY DEF TypeOK
<1>2. QED BY <1>1 DEF OutcomesHaveCauses

(* Every step keeps the causes of the outcomes.                             *)
LEMMA NextOutcomes ==
  TypeOK /\ TypeOK' /\ OutcomesHaveCauses /\ [Next]_ingestVars
    => OutcomesHaveCauses'
<1> SUFFICES ASSUME TypeOK, TypeOK', OutcomesHaveCauses, [Next]_ingestVars
             PROVE  OutcomesHaveCauses'
  OBVIOUS
<1> USE DEF workerVars, tableVars
<1>1. CASE UNCHANGED ingestVars \/ RequestCancel
  BY <1>1 DEF ingestVars, RequestCancel, OutcomesHaveCauses
<1>2. CASE CoordinatorStep \/ CoordinatorFails
  <2>1. CASE CoordinatorFails
    BY <2>1 DEF CoordinatorFails, Fault, Return, OutcomesHaveCauses, TypeOK
  <2>2. CASE Stage
    BY <2>2 DEF Stage, Return, OutcomesHaveCauses, TypeOK
  <2>3. CASE Join
    BY <2>3 DEF Join, Return, OutcomesHaveCauses
  <2>4. CASE Prepare \/ FinalizeTerms \/ FinalizePostings
    BY <2>4 DEF Prepare, FinalizeTerms, FinalizePostings, OutcomesHaveCauses
  <2>5. CASE Finish
    BY <2>5 DEF Finish, Return, OutcomesHaveCauses
  <2>6. QED BY <1>2, <2>1, <2>2, <2>3, <2>4, <2>5 DEF CoordinatorStep
<1>3. ASSUME NEW w \in Workers,
             WorkerStep(w) \/ AttemptFails(w) \/ LoseConnection(w)
      PROVE  OutcomesHaveCauses'
  <2>1. UNCHANGED <<phase, outcome, cancel>>
    BY <1>3 DEF WorkerStep, Open, CheckCancel, ClaimBatch, Fetch, Begin,
       InsertDocument, Commit, AttemptOnDeadConnection, DeadlockVictim,
       AttemptFails, LoseConnection
  <2>2. faults' \in {faults, faults + 1}
    BY <1>3 DEF WorkerStep, Open, CheckCancel, ClaimBatch, Fetch, Begin,
       InsertDocument, Commit, AttemptOnDeadConnection, DeadlockVictim,
       AttemptFails, LoseConnection, Fault
  <2>3. CASE Open(w)
    BY <1>3, <2>1, <2>2, <2>3 DEF Open, Fault, OutcomesHaveCauses, TypeOK
  <2>4. CASE ~Open(w)
    <3>1. PICK to \in {"check", "claim", "fetch", "begin", "insert", "commit",
                       "exited", pc[w]} :
            pc' = [pc EXCEPT ![w] = to]
      BY <1>3, <2>4 DEF WorkerStep, CheckCancel, ClaimBatch, Fetch, Begin,
         InsertDocument, Commit, AttemptOnDeadConnection, DeadlockVictim,
         AttemptFails, LoseConnection, NextAttempt, GiveUp, TypeOK
    <3>2. \A v \in Workers : pc'[v] = "failed" => pc[v] = "failed"
      BY <3>1 DEF TypeOK
    <3>3. faults' >= faults /\ faults' \in Nat
      BY <2>2 DEF TypeOK
    <3>4. QED BY <2>1, <3>2, <3>3, CausesKept
  <2>5. QED BY <2>3, <2>4
<1>4. QED BY <1>1, <1>2, <1>3 DEF Next, IngestStep, Returned

(* The name of an indexed row is in the table of documents; and the rows of *)
(* its batch a connected worker has dealt with have their name in the table *)
(* or in its own open transaction.                                          *)
Named(w, r) == \E s \in stored \union held[w] : SameName(r, s)

RowsAreNamed ==
  /\ \A r \in Rows : indexed[r] > 0 => \E s \in stored : SameName(r, s)
  /\ \A w \in Workers :
       connected[w] /\ pc[w] \in {"insert", "commit"} =>
         \A r \in batch[w] : r \in todo[w] \/ Named(w, r)
  /\ \A w \in Workers : pc[w] = "commit" => todo[w] = {}

(* A step of a worker that commits nothing and keeps what it has inserted   *)
(* as long as its transaction is open.                                      *)
LEMMA NamesKept ==
  ASSUME TypeOK, RowsAreNamed, NEW w \in Workers,
         UNCHANGED <<rows, stored, indexed>>,
         \A v \in Workers : v # w =>
           /\ pc'[v] = pc[v] /\ batch'[v] = batch[v] /\ todo'[v] = todo[v]
           /\ held'[v] = held[v] /\ connected'[v] = connected[v],
         connected'[w] /\ pc'[w] \in {"insert", "commit"} =>
           \A r \in batch'[w] : r \in todo'[w] \/ Named(w, r)',
         pc'[w] = "commit" => todo'[w] = {}
  PROVE  RowsAreNamed'
<1>1. \A r, s : SameName(r, s)' <=> SameName(r, s)
  BY DEF SameName
<1>2. \A v \in Workers : v # w => \A r : (Named(v, r)' <=> Named(v, r))
  BY <1>1 DEF Named
<1>3. \A r \in Rows' : indexed'[r] > 0 => \E s \in stored' : SameName(r, s)'
  BY <1>1 DEF RowsAreNamed, Rows
<1>4. \A v \in Workers :
        connected'[v] /\ pc'[v] \in {"insert", "commit"} =>
          \A r \in batch'[v] : r \in todo'[v] \/ Named(v, r)'
  BY <1>2 DEF RowsAreNamed
<1>5. \A v \in Workers : pc'[v] = "commit" => todo'[v] = {}
  BY DEF RowsAreNamed
<1>6. QED BY <1>3, <1>4, <1>5 DEF RowsAreNamed

(* A commit puts the names of the batch into the table.                     *)
LEMMA NamesCommitted ==
  ASSUME TypeOK, RowsAreNamed, NEW w \in Workers, CommitTables(w),
         connected[w], pc[w] = "commit", rows' = rows,
         \A v \in Workers : v # w =>
           /\ pc'[v] = pc[v] /\ batch'[v] = batch[v] /\ todo'[v] = todo[v]
           /\ held'[v] = held[v] /\ connected'[v] = connected[v],
         todo'[w] = todo[w],
         pc'[w] \notin {"insert", "commit"} \/ ~connected'[w]
  PROVE  RowsAreNamed'
<1>1. \A r, s : SameName(r, s)' <=> SameName(r, s)
  BY DEF SameName
<1>2. stored' = stored \union held[w] /\ Rows' = Rows
  BY DEF CommitTables, Rows
<1>3. \A r \in batch[w] : \E s \in stored' : SameName(r, s)
  BY <1>2 DEF RowsAreNamed, Named
<1>4. \A r \in Rows : r \notin batch[w] => indexed'[r] = indexed[r]
  BY DEF CommitTables
<1>5. \A r \in Rows' : indexed'[r] > 0 => \E s \in stored' : SameName(r, s)'
  BY <1>1, <1>2, <1>3, <1>4 DEF RowsAreNamed
<1>6. \A v \in Workers : v # w => \A r : (Named(v, r) => Named(v, r)')
  BY <1>1, <1>2 DEF Named
<1>7. \A v \in Workers :
        connected'[v] /\ pc'[v] \in {"insert", "commit"} =>
          \A r \in batch'[v] : r \in todo'[v] \/ Named(v, r)'
  BY <1>6 DEF RowsAreNamed
<1>8. \A v \in Workers : pc'[v] = "commit" => todo'[v] = {}
  BY DEF RowsAreNamed
<1>9. QED BY <1>5, <1>7, <1>8 DEF RowsAreNamed

(* Every step keeps the rows named.                                         *)
LEMMA NextRowsNamed ==
  TypeOK /\ RowsAreNamed /\ [Next]_ingestVars => RowsAreNamed'
<1> SUFFICES ASSUME TypeOK, RowsAreNamed, [Next]_ingestVars
             PROVE  RowsAreNamed'
  OBVIOUS
<1> USE DEF workerVars, tableVars
<1>1. CASE UNCHANGED <<rows, stored, indexed, batch, todo, held, connected>>
           /\ (pc' = pc \/ \A v \in Workers : pc'[v] = "open")
  BY <1>1 DEF RowsAreNamed, Named, SameName, Rows
<1>2. CASE UNCHANGED ingestVars \/ RequestCancel \/ CoordinatorStep
           \/ CoordinatorFails
  <2>1. UNCHANGED <<rows, stored, indexed, batch, todo, held, connected>>
    BY <1>2 DEF ingestVars, RequestCancel, CoordinatorStep, CoordinatorFails,
       Stage, Join, Prepare, FinalizeTerms, FinalizePostings, Finish
  <2>2. pc' = pc \/ pc' = [w \in Workers |-> "open"]
    BY <1>2 DEF ingestVars, RequestCancel, CoordinatorStep, CoordinatorFails,
       Stage, Join, Prepare, FinalizeTerms, FinalizePostings, Finish
  <2>3. QED BY <1>1, <2>1, <2>2
<1>3. ASSUME NEW w \in Workers,
             WorkerStep(w) \/ AttemptFails(w) \/ LoseConnection(w)
      PROVE  RowsAreNamed'
  <2> DEFINE Others == \A v \in Workers : v # w =>
               /\ pc'[v] = pc[v] /\ batch'[v] = batch[v] /\ todo'[v] = todo[v]
               /\ held'[v] = held[v] /\ connected'[v] = connected[v]
  <2>1. CASE Open(w) \/ CheckCancel(w) \/ ClaimBatch(w) \/ Fetch(w)
    <3>1. UNCHANGED <<rows, stored, indexed>>
      BY <2>1 DEF Open, CheckCancel, ClaimBatch, Fetch
    <3>2. Others /\ pc'[w] \notin {"insert", "commit"}
      BY <2>1 DEF Open, CheckCancel, ClaimBatch, Fetch, GiveUp, TypeOK
    <3>3. QED BY <3>1, <3>2, NamesKept
  <2>2. CASE NextAttempt(w) /\ UNCHANGED <<rows, stored, indexed, connected>>
    <3>1. Others /\ pc'[w] \notin {"insert", "commit"}
      BY <2>2 DEF NextAttempt, GiveUp, TypeOK
    <3>2. QED BY <2>2, <3>1, NamesKept
  <2>3. CASE Begin(w)
    <3>1. UNCHANGED <<rows, stored, indexed>>
      BY <2>3 DEF Begin
    <3>2. Others /\ pc'[w] = "insert" /\ todo'[w] = batch'[w]
      BY <2>3 DEF Begin, TypeOK
    <3>3. QED BY <3>1, <3>2, NamesKept
  <2>4. CASE InsertDocument(w)
    <3>1. PICK r \in todo[w] :
            /\ todo' = [todo EXCEPT ![w] = @ \ {r}]
            /\ held' = [held EXCEPT ![w] =
                          IF \E s \in stored \union @ : SameName(r, s)
                          THEN @ ELSE @ \union {r}]
            /\ pc' = [pc EXCEPT ![w] =
                        IF todo[w] = {r} THEN "commit" ELSE "insert"]
      BY <2>4 DEF InsertDocument
    <3>2. /\ UNCHANGED <<rows, stored, indexed, batch, connected>>
          /\ pc[w] = "insert" /\ connected[w]
      BY <2>4 DEF InsertDocument
    <3>3. Others
      BY <3>1, <3>2 DEF TypeOK
    <3>4. todo'[w] = todo[w] \ {r}
      BY <3>1 DEF TypeOK
    <3>5. pc'[w] = "commit" => todo'[w] = {}
      BY <3>1, <3>4 DEF TypeOK
    <3>6. /\ held[w] \subseteq held'[w]
          /\ \E s \in stored \union held'[w] : SameName(r, s)
      BY <3>1 DEF TypeOK, SameName
    <3>7. \A q \in batch'[w] : q \in todo'[w] \/ Named(w, q)'
      <4> SUFFICES ASSUME NEW q \in batch[w], q \notin todo[w] \ {r}
                   PROVE  \E s \in stored \union held'[w] : SameName(q, s)
        BY <3>2, <3>4 DEF Named, SameName
      <4>1. CASE q = r
        BY <4>1, <3>6
      <4>2. CASE q # r
        BY <4>2, <3>2, <3>6 DEF RowsAreNamed, Named
      <4>3. QED BY <4>1, <4>2
    <3>8. QED BY <3>2, <3>3, <3>5, <3>7, NamesKept
  <2>5. CASE Commit(w)
    <3>1. /\ CommitTables(w) /\ connected[w] /\ pc[w] = "commit" /\ rows' = rows
          /\ todo'[w] = todo[w]
      BY <2>5 DEF Commit
    <3>2. Others /\ pc'[w] \notin {"insert", "commit"}
      BY <2>5 DEF Commit, TypeOK
    <3>3. QED BY <3>1, <3>2, NamesCommitted
  <2>6. CASE LoseConnection(w)
    <3>1. /\ rows' = rows /\ todo' = todo /\ pc' = pc /\ connected[w]
          /\ Others /\ ~connected'[w]
      BY <2>6 DEF LoseConnection, TypeOK
    <3>2. CASE UNCHANGED <<stored, indexed>>
      <4>1. pc'[w] = "commit" => todo'[w] = {}
        BY <3>1 DEF RowsAreNamed
      <4>2. QED BY <3>1, <3>2, <4>1, NamesKept
    <3>3. CASE pc[w] = "commit" /\ CommitTables(w)
      BY <3>1, <3>3, NamesCommitted
    <3>4. QED BY <2>6, <3>2, <3>3 DEF LoseConnection
  <2>7. CASE AttemptOnDeadConnection(w) \/ DeadlockVictim(w) \/ AttemptFails(w)
    BY <2>2, <2>7 DEF AttemptOnDeadConnection, DeadlockVictim, AttemptFails
  <2>8. QED
    BY <1>3, <2>1, <2>3, <2>4, <2>5, <2>6, <2>7 DEF WorkerStep
<1>4. QED BY <1>2, <1>3 DEF Next, IngestStep, Returned

-----------------------------------------------------------------------------
(* What a fault costs.                                                      *)

(* A worker inserts only rows of its batch, and a batch is small.           *)
BatchesAreSmall ==
  \A w \in Workers : /\ todo[w] \subseteq batch[w]
                     /\ held[w] \subseteq batch[w]
                     /\ Cardinality(batch[w]) <= BatchSize

(* A worker that has worked and has no connection any more.                 *)
CutOff(w) == ~connected[w] /\ pc[w] \notin {"unborn", "open", "failed"}

(* As long as nobody is cut off, every batch given up was paid for by a     *)
(* fault of its own.                                                        *)
SkippedArePaidFor ==
  \/ \E w \in Workers : CutOff(w)
  \/ Cardinality(givenUp) <= BatchSize * faults

CostInv == BatchesAreSmall /\ (NamesDiffer => SkippedArePaidFor)

(* Sets of rows are finite.                                                 *)
LEMMA RowsAreFinite ==
  ASSUME TypeOK, NEW S \in SUBSET Rows
  PROVE  IsFiniteSet(S) /\ Cardinality(S) \in Nat
<1>1. Len(rows) \in Nat
  BY DEF TypeOK
<1>2. IsFiniteSet(Rows)
  BY <1>1, FS_Interval DEF Rows
<1>3. IsFiniteSet(S)
  BY <1>2, FS_Subset
<1>4. QED BY <1>3, FS_CardinalityType

(* A claim is no larger than a batch.                                       *)
LEMMA ClaimIsSmall ==
  ASSUME TypeOK
  PROVE  Cardinality(ClaimedRows) <= BatchSize
<1> DEFINE I == nextRow .. (nextRow + BatchSize - 1)
<1>1. nextRow \in Int /\ nextRow + BatchSize - 1 \in Int /\ BatchSize \in Nat \ {0}
  BY IngestAssumption DEF TypeOK
<1>2. IsFiniteSet(I) /\ Cardinality(I) = BatchSize
  BY <1>1, FS_Interval
<1>3. ClaimedRows \in SUBSET I
  BY <1>1 DEF ClaimedRows, Rows
<1>4. Cardinality(ClaimedRows) <= Cardinality(I)
  BY <1>2, <1>3, FS_Subset
<1>5. QED BY <1>2, <1>4

(* Among documents of different names nobody waits, so nobody deadlocks.    *)
LEMMA NobodyWaits ==
  ASSUME TypeOK, RowLedger, BatchesAreSmall, NamesDiffer, NEW w \in Workers
  PROVE  ~Deadlocked(w)
<1>1. ASSUME NEW x \in Workers, NEW y \in Workers, Blocks(y, x)
      PROVE  FALSE
  <2>1. PICK r \in todo[x], s \in held[y] : SameName(r, s)
    BY <1>1 DEF Blocks
  <2>2. /\ r \in batch[x] /\ s \in batch[y] /\ x # y
        /\ r \in Rows /\ s \in Rows
    BY <1>1 DEF BatchesAreSmall, Blocks, TypeOK
  <2>3. r = s
    BY <2>1, <2>2 DEF NamesDiffer
  <2>4. QED BY <2>2, <2>3 DEF RowLedger, OneOwner
<1>2. QED BY <1>1 DEF Deadlocked

(* One fault more pays for one batch more.                                  *)
LEMMA OneFaultOneBatch ==
  ASSUME TypeOK, BatchesAreSmall, NEW w \in Workers,
         Cardinality(givenUp) <= BatchSize * faults
  PROVE  Cardinality(givenUp \union batch[w]) <= BatchSize * (faults + 1)
<1>1. /\ IsFiniteSet(givenUp) /\ Cardinality(givenUp) \in Nat
      /\ IsFiniteSet(batch[w]) /\ Cardinality(batch[w]) \in Nat
  BY RowsAreFinite DEF TypeOK
<1>2. /\ Cardinality(givenUp \union batch[w])
           = Cardinality(givenUp) + Cardinality(batch[w])
             - Cardinality(givenUp \intersect batch[w])
      /\ Cardinality(givenUp \intersect batch[w]) \in Nat
  <2>1. IsFiniteSet(givenUp \intersect batch[w])
    BY <1>1, FS_Subset
  <2>2. QED BY <1>1, <2>1, FS_Union, FS_CardinalityType
<1>3. Cardinality(batch[w]) <= BatchSize
  BY DEF BatchesAreSmall
<1>4. BatchSize * (faults + 1) = BatchSize * faults + BatchSize
      /\ BatchSize * faults \in Nat
  BY IngestAssumption DEF TypeOK
<1>5. QED BY <1>1, <1>2, <1>3, <1>4, IngestAssumption

(* More faults pay for no less.                                             *)
LEMMA FaultsPay ==
  ASSUME TypeOK, Cardinality(givenUp) <= BatchSize * faults
  PROVE  Cardinality(givenUp) <= BatchSize * (faults + 1)
<1>1. Cardinality(givenUp) \in Nat
  BY RowsAreFinite DEF TypeOK
<1>2. BatchSize * (faults + 1) = BatchSize * faults + BatchSize
      /\ BatchSize * faults \in Nat /\ BatchSize \in Nat
  BY IngestAssumption DEF TypeOK
<1>3. QED BY <1>1, <1>2

(* Every step keeps the batches small.                                      *)
LEMMA NextBatches ==
  ASSUME TypeOK, RowLedger, RowsAreNamed, BatchesAreSmall, [Next]_ingestVars
  PROVE  BatchesAreSmall'
<1> USE DEF workerVars, tableVars
<1>1. CASE UNCHANGED <<batch, todo, held>>
  BY <1>1 DEF BatchesAreSmall
<1>2. CASE UNCHANGED ingestVars \/ RequestCancel \/ CoordinatorStep
           \/ CoordinatorFails
  BY <1>1, <1>2 DEF ingestVars, RequestCancel, CoordinatorStep,
     CoordinatorFails, Stage, Join, Prepare, FinalizeTerms, FinalizePostings,
     Finish
<1>3. CASE \E w \in Workers : Open(w) \/ CheckCancel(w)
  BY <1>1, <1>3 DEF Open, CheckCancel
<1>4. ASSUME NEW w \in Workers, ClaimBatch(w) PROVE BatchesAreSmall'
  <2>1. UNCHANGED <<todo, held>> /\ pc[w] = "claim"
    BY <1>4 DEF ClaimBatch
  <2>2. batch' = batch \/ batch' = [batch EXCEPT ![w] = ClaimedRows]
    BY <1>4 DEF ClaimBatch
  <2>3. todo[w] = {} /\ held[w] = {}
    <3>1. batch[w] = {}
      BY <2>1 DEF RowLedger, ClaimsMatchControl, WithoutClaim
    <3>2. QED BY <3>1 DEF BatchesAreSmall
  <2>4. QED BY <2>1, <2>2, <2>3, ClaimIsSmall DEF BatchesAreSmall, TypeOK
<1>5. ASSUME NEW w \in Workers, GiveUp(w) PROVE BatchesAreSmall'
  <2>1. Cardinality({}) = 0 /\ BatchSize \in Nat
    BY FS_EmptySet, IngestAssumption
  <2>2. QED BY <1>5, <2>1 DEF GiveUp, BatchesAreSmall, TypeOK
<1>6. ASSUME NEW w \in Workers, NextAttempt(w) PROVE BatchesAreSmall'
  BY <1>5, <1>6 DEF NextAttempt, BatchesAreSmall, TypeOK
<1>7. ASSUME NEW w \in Workers, Fetch(w) PROVE BatchesAreSmall'
  BY <1>1, <1>5, <1>7 DEF Fetch
<1>8. ASSUME NEW w \in Workers, Begin(w) PROVE BatchesAreSmall'
  BY <1>8 DEF Begin, BatchesAreSmall, TypeOK
<1>9. ASSUME NEW w \in Workers, InsertDocument(w) PROVE BatchesAreSmall'
  <2>1. PICK r \in todo[w] :
          /\ todo' = [todo EXCEPT ![w] = @ \ {r}]
          /\ held' = [held EXCEPT ![w] =
                        IF \E s \in stored \union @ : SameName(r, s)
                        THEN @ ELSE @ \union {r}]
    BY <1>9 DEF InsertDocument
  <2>2. batch' = batch
    BY <1>9 DEF InsertDocument
  <2>3. QED BY <2>1, <2>2 DEF BatchesAreSmall, TypeOK
<1>10. ASSUME NEW w \in Workers, Commit(w) PROVE BatchesAreSmall'
  <2>1. todo[w] = {}
    BY <1>10 DEF Commit, RowsAreNamed
  <2>2. Cardinality({}) = 0 /\ BatchSize \in Nat
    BY FS_EmptySet, IngestAssumption
  <2>3. QED BY <1>10, <2>1, <2>2 DEF Commit, BatchesAreSmall, TypeOK
<1>11. ASSUME NEW w \in Workers, LoseConnection(w) PROVE BatchesAreSmall'
  BY <1>11 DEF LoseConnection, BatchesAreSmall, TypeOK
<1>12. ASSUME NEW w \in Workers,
              AttemptOnDeadConnection(w) \/ DeadlockVictim(w) \/ AttemptFails(w)
       PROVE  BatchesAreSmall'
  BY <1>6, <1>12 DEF AttemptOnDeadConnection, DeadlockVictim, AttemptFails
<1>13. QED
  BY <1>2, <1>3, <1>4, <1>7, <1>8, <1>9, <1>10, <1>11, <1>12
  DEF Next, IngestStep, WorkerStep, Returned

(* A worker that is cut off stays so: it never reconnects.                  *)
LEMMA CutOffStays ==
  ASSUME TypeOK, RowLedger, [Next]_ingestVars, NEW w \in Workers, CutOff(w)
  PROVE  CutOff(w)'
<1> USE DEF workerVars, tableVars
<1>1. CASE UNCHANGED <<pc, connected>>
  BY <1>1 DEF CutOff
<1>2. phase # "stage"
  BY DEF CutOff, RowLedger, PhasesInOrder
<1>3. CASE UNCHANGED ingestVars \/ RequestCancel \/ CoordinatorStep
           \/ CoordinatorFails
  BY <1>1, <1>2, <1>3 DEF ingestVars, RequestCancel, CoordinatorStep,
     CoordinatorFails, Stage, Join, Prepare, FinalizeTerms, FinalizePostings,
     Finish
<1>4. ASSUME NEW v \in Workers,
             WorkerStep(v) \/ AttemptFails(v) \/ LoseConnection(v)
      PROVE  CutOff(w)'
  <2>1. CASE Open(v)
    <3>1. v # w
      BY <2>1 DEF Open, CutOff
    <3>2. QED BY <2>1, <3>1 DEF Open, CutOff, TypeOK
  <2>2. CASE ~Open(v)
    <3>1. PICK to \in {"check", "claim", "fetch", "begin", "insert", "commit",
                       "exited", pc[v]} :
            pc' = [pc EXCEPT ![v] = to]
      BY <1>4, <2>2 DEF WorkerStep, CheckCancel, ClaimBatch, Fetch, Begin,
         InsertDocument, Commit, AttemptOnDeadConnection, DeadlockVictim,
         AttemptFails, LoseConnection, NextAttempt, GiveUp, TypeOK
    <3>2. connected' = connected \/ connected' = [connected EXCEPT ![v] = FALSE]
      BY <1>4, <2>2 DEF WorkerStep, CheckCancel, ClaimBatch, Fetch, Begin,
         InsertDocument, Commit, AttemptOnDeadConnection, DeadlockVictim,
         AttemptFails, LoseConnection
    <3>3. QED BY <3>1, <3>2 DEF CutOff, TypeOK
  <2>3. QED BY <2>1, <2>2
<1>5. QED BY <1>3, <1>4 DEF Next, IngestStep, Returned

(* A step that gives nothing up costs nothing.                              *)
LEMMA NothingSkipped ==
  ASSUME TypeOK, Cardinality(givenUp) <= BatchSize * faults,
         givenUp' = givenUp, faults' \in {faults, faults + 1}
  PROVE  Cardinality(givenUp') <= BatchSize * faults'
  BY FaultsPay

(* Every step keeps the cost within the faults.                             *)
LEMMA NextCost ==
  ASSUME TypeOK, RowLedger, RowsAreNamed, CostInv, [Next]_ingestVars
  PROVE  CostInv'
<1> USE DEF workerVars, tableVars
<1>1. BatchesAreSmall /\ BatchesAreSmall'
  BY NextBatches DEF CostInv
<1>2. rows' = rows
  BY WorkerKeepsRows DEF Next, IngestStep, Returned, ingestVars, RequestCancel,
     CoordinatorStep, CoordinatorFails, Stage, Join, Prepare, FinalizeTerms,
     FinalizePostings, Finish
<1>3. SUFFICES ASSUME NamesDiffer PROVE SkippedArePaidFor'
  BY <1>1, <1>2 DEF CostInv, NamesDiffer, SameName, Rows
<1>4. CASE \E w \in Workers : CutOff(w)
  BY <1>4, CutOffStays DEF SkippedArePaidFor
<1>5. CASE ~ \E w \in Workers : CutOff(w)
  <2>1. Cardinality(givenUp) <= BatchSize * faults
    BY <1>3, <1>5 DEF CostInv, SkippedArePaidFor
  <2>2. CASE givenUp' = givenUp /\ faults' \in {faults, faults + 1}
    BY <2>1, <2>2, NothingSkipped DEF SkippedArePaidFor
  <2>3. ASSUME NEW w \in Workers, GiveUp(w), Fault("statement")
        PROVE  SkippedArePaidFor'
    BY <1>1, <2>1, <2>3, OneFaultOneBatch DEF GiveUp, Fault, SkippedArePaidFor
  <2>4. ASSUME NEW w \in Workers, ~connected[w],
               pc[w] \in {"fetch", "begin", "insert", "commit"}
        PROVE  FALSE
    BY <1>5, <2>4 DEF CutOff
  <2>5. CASE UNCHANGED ingestVars \/ RequestCancel \/ CoordinatorStep
             \/ CoordinatorFails
    BY <2>2, <2>5 DEF ingestVars, RequestCancel, CoordinatorStep,
       CoordinatorFails, Stage, Join, Prepare, FinalizeTerms,
       FinalizePostings, Finish, Fault
  <2>6. ASSUME NEW w \in Workers,
               \/ Open(w) \/ CheckCancel(w) \/ ClaimBatch(w) \/ Begin(w)
               \/ InsertDocument(w) \/ Commit(w) \/ LoseConnection(w)
        PROVE  SkippedArePaidFor'
    BY <2>2, <2>6 DEF Open, CheckCancel, ClaimBatch, Begin, InsertDocument,
       Commit, LoseConnection, Fault
  <2>7. ASSUME NEW w \in Workers, Fetch(w) PROVE SkippedArePaidFor'
    BY <2>2, <2>3, <2>4, <2>7 DEF Fetch
  <2>8. ASSUME NEW w \in Workers, AttemptOnDeadConnection(w) PROVE FALSE
    BY <2>4, <2>8 DEF AttemptOnDeadConnection, InTransaction
  <2>9. ASSUME NEW w \in Workers, DeadlockVictim(w) PROVE FALSE
    BY <1>1, <1>3, <2>9, NobodyWaits DEF DeadlockVictim
  <2>10. ASSUME NEW w \in Workers, AttemptFails(w) PROVE SkippedArePaidFor'
    BY <2>2, <2>3, <2>10 DEF AttemptFails, NextAttempt, Fault
  <2>11. QED
    BY <2>5, <2>6, <2>7, <2>8, <2>9, <2>10
    DEF Next, IngestStep, WorkerStep, Returned
<1>6. QED BY <1>4, <1>5

(* Initially nothing has been skipped.                                      *)
LEMMA InitCost == Init => CostInv /\ RowsAreNamed
<1> SUFFICES ASSUME Init PROVE CostInv /\ RowsAreNamed
  OBVIOUS
<1>1. Cardinality({}) = 0 /\ BatchSize \in Nat \ {0} /\ BatchSize * 0 = 0
  BY FS_EmptySet, IngestAssumption
<1>2. BatchesAreSmall
  BY <1>1 DEF Init, IdleWorkers, BatchesAreSmall
<1>3. SkippedArePaidFor
  BY <1>1 DEF Init, SkippedArePaidFor
<1>4. RowsAreNamed
  BY DEF Init, IdleWorkers, FreshTables, RowsAreNamed
<1>5. QED BY <1>2, <1>3, <1>4 DEF CostInv

(***************************************************************************)
(* A failed batch costs at most its own documents: of a run that returns   *)
(* success over documents of different names no more are missing than one  *)
(* batch for each fault, unless a worker ended without its connection.     *)
(***************************************************************************)
THEOREM FaultsCostTheirBatch == Spec => []FailureIsContained
<1>1. TypeOK /\ RowLedger /\ RowsAreNamed /\ CostInv /\ [Next]_ingestVars
        => RowsAreNamed' /\ CostInv'
  BY NextRowsNamed, NextCost
<1>2. TypeOK /\ RowLedger /\ CostInv => FailureIsContained
  <2> SUFFICES ASSUME TypeOK, RowLedger, CostInv, outcome = "ok", NamesDiffer,
                      ~ \E w \in Workers : ConnectionLost(w)
               PROVE  Cardinality({r \in Rows : indexed[r] = 0})
                        <= BatchSize * faults
    BY DEF FailureIsContained
  <2> DEFINE missing == {r \in Rows : indexed[r] = 0}
  <2>1. nextRow > Len(rows) /\ \A w \in Workers : pc[w] = "exited"
    BY DEF RowLedger, PhasesInOrder
  <2>2. Cardinality(givenUp) <= BatchSize * faults
    BY <2>1 DEF CostInv, SkippedArePaidFor, CutOff, ConnectionLost
  <2>3. \A w \in Workers : batch[w] = {}
    BY <2>1 DEF RowLedger, ClaimsMatchControl, WithoutClaim
  <2>4. \A r \in Rows : r < nextRow /\ indexed[r] \in Nat
    BY <2>1 DEF Rows, TypeOK
  <2>5. missing \in SUBSET givenUp
    BY <2>3, <2>4 DEF RowLedger, ClaimedAccounted
  <2>6. IsFiniteSet(givenUp) /\ Cardinality(givenUp) \in Nat
    BY RowsAreFinite DEF TypeOK
  <2>7. Cardinality(missing) <= Cardinality(givenUp)
        /\ Cardinality(missing) \in Nat
    BY <2>5, <2>6, FS_Subset, FS_CardinalityType
  <2>8. BatchSize * faults \in Nat
    BY IngestAssumption DEF TypeOK
  <2>9. QED BY <2>2, <2>6, <2>7, <2>8
<1>3. QED BY <1>1, <1>2, InitCost, TypeCorrect, LedgerHolds, PTL DEF Spec
=============================================================================
