------------------------- MODULE CorpusRebuildProofs -------------------------
(***************************************************************************)
(* Proofs about ingesting into a group, for every number of threads, group,*)
(* drop, ingest, fault and crash: what each report means for the group,    *)
(* that its index is whole at all times, and that the rebuild implements   *)
(* the atomic store of module CorpusStore.                                 *)
(***************************************************************************)
EXTENDS CorpusRebuild, BulkIngestProofs, FunctionTheorems, SequenceTheorems

-----------------------------------------------------------------------------
(* The inductive invariant.                                                 *)

(* What the loader keeps from the moment it is called.                      *)
LoaderInv ==
  /\ RowLedger
  /\ PhaseThreeProgress
  /\ NamesAreLocked
  /\ OutcomesHaveCauses
  /\ RowsAreNamed

Types == RebuildTypeOK /\ IsFiniteSet(live.docs)

(* The control of the two threads: a worker has a thread object, a request  *)
(* to cancel belongs to a worker.                                           *)
ThreadsMatch ==
  /\ active <=> stage # "none"
  /\ cancelling => mCancel /\ active
  /\ stage \in {"none", "finished"} \/ reported = "none"

(* Until the swap the group is what it was when the files were dropped.     *)
BeforeSwap == {"clear", "extract", "select", "ingest", "swap"}

GroupUntouched ==
  /\ stage \in BeforeSwap => live = before
  /\ CancelledIsLossless
  /\ FailedIsAllOrNothing

(* Once the flags are cleared they are set for this worker only; a cancel   *)
(* that is complete is seen at the next look.                               *)
CancelIsOurs ==
  /\ stage \in {"extract", "select", "ingest", "swap"} /\ cancel => mCancel
  /\ NoStaleCancel

CancelIsSeen ==
  /\ timely => mCancel /\ stage # "swap"
  /\ timely /\ stage \in {"select", "ingest"} => cancel
  /\ TimelyCancelWins

(* The group on line is whole and holds one text under one name.            *)
LiveIsSound ==
  /\ LiveIndexIsWhole
  /\ \A d, e \in live.docs : d.name = e.name => d = e

(* The loader works on the group's documents and the new ones.              *)
LoaderAtWork ==
  /\ stage \in {"ingest", "swap"} =>
       /\ LoaderInv
       /\ rows = InSomeOrder(Kept) \o newDocs
  /\ stage = "swap" => phase = "done" /\ outcome = "ok"

RebuildInv ==
  /\ Types
  /\ ThreadsMatch
  /\ GroupUntouched
  /\ CancelIsOurs
  /\ CancelIsSeen
  /\ NoFailureWithoutFault
  /\ LiveIsSound
  /\ LoaderAtWork

-----------------------------------------------------------------------------
(* Lemmas about the operators of the model.                                 *)

(* The rows the group's documents are written in hold each of them once.    *)
LEMMA SomeOrderIsWhole ==
  ASSUME NEW T, NEW S \in SUBSET T, IsFiniteSet(S)
  PROVE  /\ InSomeOrder(S) \in Seq(T)
         /\ SetOf(InSomeOrder(S)) = S
         /\ \A i, j \in DOMAIN InSomeOrder(S) :
              InSomeOrder(S)[i] = InSomeOrder(S)[j] => i = j
<1> DEFINE n == Cardinality(S)
           P(s) == \A i, j \in 1 .. n : s[i] = s[j] => i = j
<1>1. n \in Nat /\ ExistsBijection(1 .. n, S)
  BY FS_CardinalityType
<1>2. PICK f \in [1 .. n -> S] : P(f)
  BY <1>1, Fun_BijectionProperties DEF ExistsBijection
<1>3. InSomeOrder(S) \in [1 .. n -> S] /\ P(InSomeOrder(S))
  BY <1>2 DEF InSomeOrder
<1> DEFINE g == InSomeOrder(S)
<1>4. g \in Injection(1 .. n, S)
  BY <1>3, Fun_IsInj
<1>5. IsFiniteSet(1 .. n) /\ Cardinality(1 .. n) = n
  BY <1>1, FS_Interval
<1>6. g \in Surjection(1 .. n, S)
  BY <1>4, <1>5, FS_Injection
<1>7. SetOf(g) = S
  <2>1. \A x \in S : \E i \in 1 .. n : g[i] = x
    BY <1>6 DEF Surjection
  <2>2. DOMAIN g = 1 .. n /\ \A i \in 1 .. n : g[i] \in S
    BY <1>3
  <2> HIDE DEF g, n
  <2>3. QED BY <2>1, <2>2 DEF SetOf
<1>8. g \in Seq(T)
  BY <1>1, <1>3
<1>9. QED BY <1>3, <1>7, <1>8

(* What a sequence made of two holds.                                       *)
LEMMA SetOfConcat ==
  ASSUME NEW T, NEW s \in Seq(T), NEW t \in Seq(T)
  PROVE  SetOf(s \o t) = SetOf(s) \union SetOf(t)
<1>1. /\ s \o t \in Seq(T) /\ Len(s \o t) = Len(s) + Len(t)
      /\ Len(s) \in Nat /\ Len(t) \in Nat
      /\ DOMAIN s = 1 .. Len(s) /\ DOMAIN t = 1 .. Len(t)
      /\ DOMAIN (s \o t) = 1 .. Len(s) + Len(t)
      /\ \A i \in 1 .. Len(s) + Len(t) :
           (s \o t)[i] = IF i <= Len(s) THEN s[i] ELSE t[i - Len(s)]
  BY ConcatProperties, LenProperties
<1>2. ASSUME NEW x \in SetOf(s \o t) PROVE x \in SetOf(s) \union SetOf(t)
  <2>1. PICK i \in 1 .. Len(s) + Len(t) : x = (s \o t)[i]
    BY <1>1, <1>2 DEF SetOf
  <2>2. CASE i <= Len(s)
    BY <1>1, <2>1, <2>2 DEF SetOf
  <2>3. CASE ~(i <= Len(s))
    <3>1. i - Len(s) \in 1 .. Len(t) /\ x = t[i - Len(s)]
      BY <1>1, <2>1, <2>3
    <3>2. QED BY <1>1, <3>1 DEF SetOf
  <2>4. QED BY <2>2, <2>3
<1>3. ASSUME NEW x \in SetOf(s) PROVE x \in SetOf(s \o t)
  <2>1. PICK i \in 1 .. Len(s) : x = s[i]
    BY <1>1, <1>3 DEF SetOf
  <2>2. i \in 1 .. Len(s) + Len(t) /\ x = (s \o t)[i]
    BY <1>1, <2>1
  <2>3. QED BY <1>1, <2>2 DEF SetOf
<1>4. ASSUME NEW x \in SetOf(t) PROVE x \in SetOf(s \o t)
  <2>1. PICK i \in 1 .. Len(t) : x = t[i]
    BY <1>1, <1>4 DEF SetOf
  <2>2. i + Len(s) \in 1 .. Len(s) + Len(t) /\ x = (s \o t)[i + Len(s)]
    BY <1>1, <2>1
  <2>3. QED BY <1>1, <2>2 DEF SetOf
<1>5. QED BY <1>2, <1>3, <1>4

(* The input of a rebuild holds what is kept and what is new.               *)
LEMMA InputHolds ==
  ASSUME Types
  PROVE  /\ InSomeOrder(Kept) \o newDocs \in Seq(Document)
         /\ SetOf(InSomeOrder(Kept) \o newDocs) = Kept \union SetOf(newDocs)
<1>1. Kept \in SUBSET live.docs /\ live.docs \in SUBSET Document
  BY DEF Kept, Types, RebuildTypeOK
<1>2. IsFiniteSet(Kept)
  BY <1>1, FS_Subset DEF Types
<1>3. InSomeOrder(Kept) \in Seq(Document) /\ SetOf(InSomeOrder(Kept)) = Kept
  BY <1>1, <1>2, SomeOrderIsWhole
<1>4. newDocs \in Seq(Document)
  BY DEF Types, RebuildTypeOK
<1>5. QED BY <1>3, <1>4, SetOfConcat, ConcatProperties

-----------------------------------------------------------------------------
(* The loader.                                                              *)

(* Its steps keep its invariant.                                            *)
LEMMA LoaderKeeps ==
  ASSUME TypeOK, LoaderInv, [Next]_ingestVars
  PROVE  TypeOK' /\ LoaderInv'
<1>1. TypeOK'
  BY NextType
<1>2. RowLedger' /\ PhaseThreeProgress' /\ NamesAreLocked'
  BY NextLedger, NextPhaseThree, NextNamesLocked DEF LoaderInv
<1>3. OutcomesHaveCauses' /\ RowsAreNamed'
  BY <1>1, NextOutcomes, NextRowsNamed DEF LoaderInv
<1>4. QED BY <1>1, <1>2, <1>3 DEF LoaderInv

(* A reset leaves a call about to begin, or none.                           *)
LEMMA ResetType ==
  ASSUME NEW input \in Seq(Document), NEW where \in {"stage", "done"},
         ResetLoader(input, where), cancel' \in BOOLEAN,
         faults' \in 0 .. MaxFaults
  PROVE  TypeOK'
<1>1. rows' = input /\ Rows' = 1 .. Len(input)
  BY DEF ResetLoader, Rows
<1>2. DOMAIN input = 1 .. Len(input)
  BY LenProperties
<1>3. QED
  BY <1>1, <1>2, IngestAssumption DEF ResetLoader, TypeOK

LEMMA ResetBegins ==
  ASSUME NEW input \in Seq(Document), ResetLoader(input, "stage")
  PROVE  LoaderInv'
<1>1. Rows' = 1 .. Len(input) /\ DOMAIN input = 1 .. Len(input)
  BY LenProperties DEF ResetLoader, Rows
<1>2. /\ nextRow' = 1 /\ phase' = "stage" /\ outcome' = "none"
      /\ indexed' = [r \in Rows' |-> 0] /\ stored' = {} /\ postings' = {}
      /\ \A w \in Workers : /\ batch'[w] = {} /\ pc'[w] = "unborn"
                            /\ held'[w] = {} /\ todo'[w] = {}
  BY <1>1 DEF ResetLoader
<1>3. RowLedger'
  <2>1. UnclaimedUntouched' /\ ClaimedAccounted'
    BY <1>1, <1>2 DEF UnclaimedUntouched, ClaimedAccounted
  <2>2. OwnedWasClaimed' /\ OneOwner' /\ OwnedAndIndexedIsDead'
    BY <1>2 DEF OwnedWasClaimed, OneOwner, OwnedAndIndexedIsDead
  <2>3. ClaimsMatchControl' /\ PhasesInOrder'
    BY <1>2 DEF ClaimsMatchControl, PhasesInOrder
  <2>4. QED BY <2>1, <2>2, <2>3 DEF RowLedger
<1>4. PhaseThreeProgress' /\ OutcomesHaveCauses'
  BY <1>2 DEF PhaseThreeProgress, OutcomesHaveCauses
<1>5. NamesAreLocked'
  BY <1>2 DEF NamesAreLocked, Taken
<1>6. RowsAreNamed'
  BY <1>2 DEF RowsAreNamed
<1>7. QED BY <1>3, <1>4, <1>5, <1>6 DEF LoaderInv

(* A step outside the loader leaves its types as they are.                  *)
LEMMA OutsideTheLoader ==
  ASSUME TypeOK, cancel' \in BOOLEAN, faults' \in 0 .. MaxFaults,
         UNCHANGED <<rows, phase, outcome, nextRow, workerVars, tableVars,
                     givenUp, lateClaims>>
  PROVE  TypeOK' /\ Rebuilt' = Rebuilt
<1>1. Rebuilt' = Rebuilt
  BY DEF tableVars, Rebuilt, Staged, Rows
<1>2. TypeOK'
  BY DEF TypeOK, workerVars, tableVars, Rows
<1>3. QED BY <1>1, <1>2

(* A step that changes neither the loader nor its input, nor starts it.     *)
LEMMA LoaderUndisturbed ==
  ASSUME TypeOK, LoaderAtWork, UNCHANGED <<ingestVars, live, newDocs>>,
         stage' \in {"ingest", "swap"} => stage' = stage
  PROVE  TypeOK' /\ Rebuilt' = Rebuilt /\ LoaderAtWork'
<1>1. TypeOK' /\ Rebuilt' = Rebuilt
  BY OutsideTheLoader DEF ingestVars, TypeOK
<1>2. [Next]_ingestVars /\ UNCHANGED <<rows, phase, outcome>>
  BY DEF ingestVars
<1>3. (InSomeOrder(Kept) \o newDocs)' = InSomeOrder(Kept) \o newDocs
  BY DEF Kept, SetOf
<1>4. stage' \in {"ingest", "swap"} => LoaderInv'
  BY <1>2, LoaderKeeps DEF LoaderAtWork
<1>5. QED BY <1>1, <1>2, <1>3, <1>4 DEF LoaderAtWork

(* A step that leaves the group as it is leaves it sound.                   *)
LEMMA LiveKept ==
  ASSUME LiveIsSound, live' = live
  PROVE  LiveIsSound'
  BY DEF LiveIsSound, LiveIndexIsWhole

-----------------------------------------------------------------------------
(* The steps of the UI thread.                                              *)

LEMMA IngestFilesKeeps == RebuildInv /\ IngestFiles => RebuildInv'
<1> SUFFICES ASSUME RebuildInv, IngestFiles PROVE RebuildInv'
  OBVIOUS
<1>1. TypeOK' /\ LoaderAtWork'
  <2>1. TypeOK'
    BY OutsideTheLoader
       DEF IngestFiles, RebuildInv, Types, RebuildTypeOK, ingestVars, TypeOK
  <2>2. QED BY <2>1 DEF IngestFiles, LoaderAtWork
<1>2. files' \in Seq(Seq(Document))
  BY RebuildAssumption DEF IngestFiles
<1>3. Types'
  <2>1. ingests' \in 0 .. MaxIngests
    BY RebuildAssumption DEF IngestFiles, RebuildInv, Types, RebuildTypeOK
  <2>2. newDocs' \in Seq(Document)
    BY DEF IngestFiles
  <2>3. UNCHANGED <<live, scratch, cancelling, crashes>> /\ before' = live
        /\ active' = TRUE /\ stage' = "clear" /\ mCancel' = FALSE
        /\ reported' = "none" /\ timely' = FALSE
    BY DEF IngestFiles
  <2>4. QED
    BY <1>1, <1>2, <2>1, <2>2, <2>3 DEF RebuildInv, Types, RebuildTypeOK
<1>4. ThreadsMatch' /\ GroupUntouched'
  BY DEF IngestFiles, RebuildInv, ThreadsMatch, GroupUntouched,
         CancelledIsLossless, FailedIsAllOrNothing
<1>5. CancelIsOurs' /\ CancelIsSeen' /\ NoFailureWithoutFault'
  BY DEF IngestFiles, CancelIsOurs, CancelIsSeen, NoStaleCancel,
         TimelyCancelWins, NoFailureWithoutFault
<1>6. LiveIsSound'
  BY LiveKept DEF IngestFiles, RebuildInv
<1>7. QED BY <1>1, <1>3, <1>4, <1>5, <1>6 DEF RebuildInv

LEMMA CancelWorkerKeeps == RebuildInv /\ CancelWorker => RebuildInv'
<1> SUFFICES ASSUME RebuildInv, CancelWorker PROVE RebuildInv'
  OBVIOUS
<1>1. TypeOK' /\ Rebuilt' = Rebuilt /\ LoaderAtWork'
  BY LoaderUndisturbed
     DEF CancelWorker, RebuildInv, Types, RebuildTypeOK
<1>2. Types' /\ LiveIsSound'
  BY <1>1, LiveKept
     DEF CancelWorker, RebuildInv, Types, RebuildTypeOK
<1>3. ThreadsMatch' /\ GroupUntouched'
  BY <1>1 DEF CancelWorker, RebuildInv, ThreadsMatch, GroupUntouched,
              CancelledIsLossless, FailedIsAllOrNothing, Types, RebuildTypeOK
<1>4. CancelIsOurs' /\ CancelIsSeen' /\ NoFailureWithoutFault'
  BY DEF CancelWorker, RebuildInv, CancelIsOurs, CancelIsSeen, NoStaleCancel,
         TimelyCancelWins, NoFailureWithoutFault, ingestVars
<1>5. QED BY <1>1, <1>2, <1>3, <1>4 DEF RebuildInv

(* The second store of a cancel is the RequestCancel of the loader, if one  *)
(* is running and has not been cancelled.                                   *)
LEMMA CancelLoaderKeeps == RebuildInv /\ CancelLoader => RebuildInv'
<1> SUFFICES ASSUME RebuildInv, CancelLoader PROVE RebuildInv'
  OBVIOUS
<1>1. TypeOK' /\ Rebuilt' = Rebuilt
  BY OutsideTheLoader DEF CancelLoader, RebuildInv, Types, RebuildTypeOK, TypeOK
<1>2. LoaderAtWork'
  <2>1. [Next]_ingestVars
    BY DEF CancelLoader, Next, RequestCancel, ingestVars, RebuildInv, Types,
           RebuildTypeOK, TypeOK
  <2>2. (InSomeOrder(Kept) \o newDocs)' = InSomeOrder(Kept) \o newDocs
    BY DEF Kept, SetOf, CancelLoader
  <2>3. stage \in {"ingest", "swap"} => LoaderInv'
    BY <2>1, LoaderKeeps
       DEF RebuildInv, Types, RebuildTypeOK, LoaderAtWork
  <2>4. QED BY <2>2, <2>3 DEF RebuildInv, LoaderAtWork, CancelLoader
<1>3. Types' /\ LiveIsSound'
  <2>1. timely' \in BOOLEAN
    BY DEF CancelLoader
  <2>2. LiveIsSound'
    BY LiveKept DEF CancelLoader, RebuildInv
  <2>3. QED
    BY <1>1, <2>1, <2>2 DEF CancelLoader, RebuildInv, Types, RebuildTypeOK
<1>4. ThreadsMatch' /\ GroupUntouched'
  BY <1>1 DEF CancelLoader, RebuildInv, ThreadsMatch, GroupUntouched,
              CancelledIsLossless, FailedIsAllOrNothing, Types, RebuildTypeOK
<1>5. CancelIsOurs' /\ CancelIsSeen' /\ NoFailureWithoutFault'
  BY DEF CancelLoader, RebuildInv, CancelIsOurs, CancelIsSeen, NoStaleCancel,
         TimelyCancelWins, NoFailureWithoutFault, ThreadsMatch
<1>6. QED BY <1>1, <1>2, <1>3, <1>4, <1>5 DEF RebuildInv

LEMMA RemoveDocumentKeeps ==
  ASSUME RebuildInv, NEW n \in Names, RemoveDocument(n)
  PROVE  RebuildInv'
<1>1. TypeOK' /\ LoaderAtWork'
  <2>1. TypeOK'
    BY OutsideTheLoader
       DEF RemoveDocument, RebuildInv, Types, RebuildTypeOK, ingestVars, TypeOK
  <2>2. QED BY <2>1
    DEF RemoveDocument, LoaderAtWork, RebuildInv, ThreadsMatch, Types,
        RebuildTypeOK
<1>2. live' = [docs     |-> {d \in live.docs : d.name # n},
               passages |-> {p \in live.passages : p.name # n},
               whole    |-> live.whole]
  BY DEF RemoveDocument, RebuildInv, Types, RebuildTypeOK
<1>3. live'.docs \subseteq live.docs /\ IsFiniteSet(live'.docs)
  BY <1>2, FS_Subset DEF RebuildInv, Types
<1>4. Types'
  BY <1>1, <1>2, <1>3 DEF RemoveDocument, RebuildInv, Types, RebuildTypeOK
<1>5. ThreadsMatch' /\ GroupUntouched'
  BY DEF RemoveDocument, RebuildInv, ThreadsMatch, GroupUntouched, BeforeSwap,
         CancelledIsLossless, FailedIsAllOrNothing, Types, RebuildTypeOK
<1>6. CancelIsOurs' /\ CancelIsSeen' /\ NoFailureWithoutFault'
  BY DEF RemoveDocument, RebuildInv, CancelIsOurs, CancelIsSeen, NoStaleCancel,
         TimelyCancelWins, NoFailureWithoutFault, ThreadsMatch, Types,
         RebuildTypeOK, ingestVars
<1>7. LiveIsSound'
  BY <1>2 DEF RebuildInv, LiveIsSound, LiveIndexIsWhole
<1>8. QED BY <1>1, <1>4, <1>5, <1>6, <1>7 DEF RebuildInv

LEMMA OnIngestFinishedKeeps == RebuildInv /\ OnIngestFinished => RebuildInv'
<1> SUFFICES ASSUME RebuildInv, OnIngestFinished PROVE RebuildInv'
  OBVIOUS
<1>1. TypeOK' /\ Rebuilt' = Rebuilt /\ LoaderAtWork'
  BY LoaderUndisturbed
     DEF OnIngestFinished, RebuildInv, Types, RebuildTypeOK
<1>2. Types' /\ LiveIsSound'
  BY <1>1, LiveKept
     DEF OnIngestFinished, RebuildInv, Types, RebuildTypeOK
<1>3. ThreadsMatch' /\ GroupUntouched'
  BY DEF OnIngestFinished, RebuildInv, ThreadsMatch, GroupUntouched,
         BeforeSwap, CancelledIsLossless, FailedIsAllOrNothing, Types,
         RebuildTypeOK
<1>4. CancelIsOurs' /\ CancelIsSeen' /\ NoFailureWithoutFault'
  BY DEF OnIngestFinished, RebuildInv, CancelIsOurs, CancelIsSeen,
         NoStaleCancel, TimelyCancelWins, NoFailureWithoutFault, ingestVars
<1>5. QED BY <1>1, <1>2, <1>3, <1>4 DEF RebuildInv

-----------------------------------------------------------------------------
(* The steps of the worker thread.                                          *)

(* Before the loader runs nothing but the flags matters.                    *)
LEMMA ClearCancelKeeps == RebuildInv /\ ClearCancel => RebuildInv'
<1> SUFFICES ASSUME RebuildInv, ClearCancel PROVE RebuildInv'
  OBVIOUS
<1>1. TypeOK' /\ LoaderAtWork'
  <2>1. TypeOK'
    BY OutsideTheLoader DEF ClearCancel, RebuildInv, Types, RebuildTypeOK, TypeOK
  <2>2. QED BY <2>1 DEF ClearCancel, LoaderAtWork
<1>2. Types'
  BY <1>1 DEF ClearCancel, RebuildInv, Types, RebuildTypeOK
<1>3. LiveIsSound'
  BY LiveKept DEF ClearCancel, RebuildInv
<1>4. ThreadsMatch' /\ GroupUntouched'
  BY DEF ClearCancel, RebuildInv, ThreadsMatch, GroupUntouched, BeforeSwap,
         CancelledIsLossless, FailedIsAllOrNothing
<1>5. CancelIsOurs' /\ CancelIsSeen' /\ NoFailureWithoutFault'
  BY DEF ClearCancel, RebuildInv, CancelIsOurs, CancelIsSeen, NoStaleCancel,
         TimelyCancelWins, NoFailureWithoutFault
<1>6. QED BY <1>1, <1>2, <1>3, <1>4, <1>5 DEF RebuildInv

LEMMA ExtractFileKeeps == RebuildInv /\ ExtractFile => RebuildInv'
<1> SUFFICES ASSUME RebuildInv, ExtractFile PROVE RebuildInv'
  OBVIOUS
<1>1. TypeOK' /\ LoaderAtWork'
  <2>1. TypeOK'
    BY OutsideTheLoader
       DEF ExtractFile, RebuildInv, Types, RebuildTypeOK, ingestVars, TypeOK
  <2>2. QED BY <2>1 DEF ExtractFile, Report, LoaderAtWork
<1>2. files' \in Seq(Seq(Document)) /\ newDocs' \in Seq(Document)
  <2>1. /\ files \in Seq(Seq(Document)) /\ files # <<>>
        /\ newDocs \in Seq(Document)
    BY DEF ExtractFile, RebuildInv, Types, RebuildTypeOK
  <2>2. Tail(files) \in Seq(Seq(Document)) /\ Head(files) \in Seq(Document)
    BY <2>1, HeadTailProperties
  <2>3. newDocs \o Head(files) \in Seq(Document)
    BY <2>1, <2>2, ConcatProperties
  <2>4. QED BY <2>1, <2>2, <2>3 DEF ExtractFile
<1>3. Types'
  <2>1. stage' \in {"extract", "finished"} /\ reported' \in {reported, "cancelled"}
    BY DEF ExtractFile, Report
  <2>2. UNCHANGED <<live, scratch, active, cancelling, mCancel, before, timely,
                    ingests, crashes>>
    BY DEF ExtractFile
  <2>3. QED BY <1>1, <1>2, <2>1, <2>2 DEF RebuildInv, Types, RebuildTypeOK
<1>4. LiveIsSound'
  BY LiveKept DEF ExtractFile, RebuildInv
<1>5. ThreadsMatch' /\ GroupUntouched'
  BY DEF ExtractFile, Report, RebuildInv, ThreadsMatch, GroupUntouched,
         BeforeSwap, CancelledIsLossless, FailedIsAllOrNothing
<1>6. CancelIsOurs' /\ CancelIsSeen' /\ NoFailureWithoutFault'
  BY DEF ExtractFile, Report, RebuildInv, ThreadsMatch, GroupUntouched,
         BeforeSwap, CancelIsOurs, CancelIsSeen, NoStaleCancel,
         TimelyCancelWins, NoFailureWithoutFault, ingestVars
<1>7. QED BY <1>1, <1>3, <1>4, <1>5, <1>6 DEF RebuildInv

LEMMA EndExtractionKeeps == RebuildInv /\ EndExtraction => RebuildInv'
<1> SUFFICES ASSUME RebuildInv, EndExtraction PROVE RebuildInv'
  OBVIOUS
<1>1. TypeOK' /\ LoaderAtWork'
  <2>1. TypeOK'
    BY OutsideTheLoader
       DEF EndExtraction, RebuildInv, Types, RebuildTypeOK, ingestVars, TypeOK
  <2>2. QED BY <2>1 DEF EndExtraction, Report, LoaderAtWork
<1>2. Types'
  <2>1. /\ stage' \in {"select", "finished"}
        /\ reported' \in {reported, "ok", "cancelled"}
    BY DEF EndExtraction, Report
  <2>2. UNCHANGED <<live, scratch, active, cancelling, mCancel, files, newDocs,
                    before, timely, ingests, crashes>>
    BY DEF EndExtraction
  <2>3. QED BY <1>1, <2>1, <2>2 DEF RebuildInv, Types, RebuildTypeOK
<1>3. LiveIsSound'
  BY LiveKept DEF EndExtraction, RebuildInv
<1>4. ThreadsMatch' /\ GroupUntouched'
  BY DEF EndExtraction, Report, RebuildInv, ThreadsMatch, GroupUntouched,
         BeforeSwap, CancelledIsLossless, FailedIsAllOrNothing
<1>5. CancelIsOurs' /\ CancelIsSeen' /\ NoFailureWithoutFault'
  BY DEF EndExtraction, Report, RebuildInv, ThreadsMatch, GroupUntouched,
         BeforeSwap, CancelIsOurs, CancelIsSeen, NoStaleCancel,
         TimelyCancelWins, NoFailureWithoutFault, ingestVars
<1>6. QED BY <1>1, <1>2, <1>3, <1>4, <1>5 DEF RebuildInv

LEMMA PrepareRebuildKeeps == RebuildInv /\ PrepareRebuild => RebuildInv'
<1> SUFFICES ASSUME RebuildInv, PrepareRebuild PROVE RebuildInv'
  OBVIOUS
<1> DEFINE input == InSomeOrder(Kept) \o newDocs
<1>1. input \in Seq(Document) /\ ResetLoader(input, "stage")
  BY InputHolds DEF RebuildInv, PrepareRebuild
<1>2. input' = input
  BY DEF Kept, SetOf, PrepareRebuild
<1>3. cancel' \in BOOLEAN /\ faults' \in 0 .. MaxFaults
  BY DEF PrepareRebuild, RebuildInv, Types, RebuildTypeOK, TypeOK
<1> HIDE DEF input
<1>4. TypeOK'
  BY <1>1, <1>3, ResetType
<1>5. LoaderInv'
  BY <1>1, ResetBegins
<1>6. rows' = input
  BY <1>1 DEF ResetLoader
<1>7. LoaderAtWork'
  BY <1>2, <1>5, <1>6 DEF LoaderAtWork, PrepareRebuild, input
<1>8. Types'
  BY <1>4 DEF PrepareRebuild, RebuildInv, Types, RebuildTypeOK
<1>9. LiveIsSound'
  BY LiveKept DEF PrepareRebuild, RebuildInv
<1>10. ThreadsMatch' /\ GroupUntouched'
  BY DEF PrepareRebuild, RebuildInv, ThreadsMatch, GroupUntouched,
         BeforeSwap, CancelledIsLossless, FailedIsAllOrNothing
<1>11. CancelIsOurs' /\ CancelIsSeen' /\ NoFailureWithoutFault'
  BY DEF PrepareRebuild, RebuildInv, CancelIsOurs, CancelIsSeen,
         NoStaleCancel, TimelyCancelWins, NoFailureWithoutFault
<1>12. QED BY <1>7, <1>8, <1>9, <1>10, <1>11 DEF RebuildInv

(* A fault is counted.                                                      *)
LEMMA FaultCounted ==
  ASSUME TypeOK, NEW kind, Fault(kind)
  PROVE  faults' \in 0 .. MaxFaults /\ faults' # 0
  BY IngestAssumption DEF TypeOK, Fault

LEMMA PrepareRebuildFailsKeeps ==
  RebuildInv /\ PrepareRebuildFails => RebuildInv'
<1> SUFFICES ASSUME RebuildInv, PrepareRebuildFails PROVE RebuildInv'
  OBVIOUS
<1>1. faults' \in 0 .. MaxFaults /\ faults' # 0
  BY FaultCounted DEF PrepareRebuildFails, RebuildInv, Types, RebuildTypeOK
<1>2. TypeOK' /\ LoaderAtWork'
  <2>1. TypeOK'
    BY <1>1, OutsideTheLoader
       DEF PrepareRebuildFails, RebuildInv, Types, RebuildTypeOK, TypeOK
  <2>2. QED BY <2>1 DEF PrepareRebuildFails, Report, LoaderAtWork
<1>3. Types'
  BY <1>2 DEF PrepareRebuildFails, Report, RebuildInv, Types, RebuildTypeOK
<1>4. LiveIsSound'
  BY LiveKept DEF PrepareRebuildFails, RebuildInv
<1>5. ThreadsMatch' /\ GroupUntouched'
  BY DEF PrepareRebuildFails, Report, RebuildInv, ThreadsMatch,
         GroupUntouched, BeforeSwap, CancelledIsLossless, FailedIsAllOrNothing
<1>6. CancelIsOurs' /\ CancelIsSeen' /\ NoFailureWithoutFault'
  BY <1>1 DEF PrepareRebuildFails, Report, RebuildInv, GroupUntouched,
         BeforeSwap, CancelIsOurs, CancelIsSeen, NoStaleCancel,
         TimelyCancelWins, NoFailureWithoutFault
<1>7. QED BY <1>2, <1>3, <1>4, <1>5, <1>6 DEF RebuildInv

(* A drop of the scratch schema counts its fault, if it has one.            *)
LEMMA DropScratchType ==
  ASSUME TypeOK, scratch \in BOOLEAN, DropScratch
  PROVE  /\ scratch' \in BOOLEAN /\ faults' \in 0 .. MaxFaults
         /\ faults # 0 => faults' # 0
<1>1. CASE scratch' = FALSE /\ UNCHANGED faults
  BY <1>1 DEF TypeOK
<1>2. CASE Fault("statement") /\ UNCHANGED scratch
  BY <1>2, FaultCounted
<1>3. QED BY <1>1, <1>2 DEF DropScratch

(* Whoever returned neither cancelled nor failed returned ok.               *)
LEMMA DecideKeeps == RebuildInv /\ Decide => RebuildInv'
<1> SUFFICES ASSUME RebuildInv, Decide PROVE RebuildInv'
  OBVIOUS
<1>1. /\ TypeOK /\ scratch \in BOOLEAN /\ LoaderInv
      /\ stage = "ingest" /\ phase = "done" /\ live = before
  BY DEF Decide, RebuildInv, Types, RebuildTypeOK, LoaderAtWork,
         GroupUntouched, BeforeSwap
<1>2. UNCHANGED <<rows, phase, outcome, nextRow, cancel, workerVars, tableVars,
                  givenUp, lateClaims, live, active, cancelling, mCancel,
                  files, newDocs, before, timely, ingests, crashes>>
  BY DEF Decide
<1>3. CASE outcome = "cancelled" \/ cancel
  <2>1. Report("cancelled") /\ DropScratch
    BY <1>3 DEF Decide
  <2>2. cancel
    BY <1>1, <1>3 DEF LoaderInv, OutcomesHaveCauses
  <2>3. scratch' \in BOOLEAN /\ faults' \in 0 .. MaxFaults
    BY <1>1, <2>1, DropScratchType
  <2>4. TypeOK'
    BY <1>1, <1>2, <2>3, OutsideTheLoader DEF TypeOK
  <2>5. Types' /\ LoaderAtWork'
    BY <1>2, <2>1, <2>3, <2>4
       DEF Report, RebuildInv, Types, RebuildTypeOK, LoaderAtWork
  <2>6. LiveIsSound'
    BY <1>2, LiveKept DEF RebuildInv
  <2>7. ThreadsMatch' /\ GroupUntouched' /\ NoFailureWithoutFault'
    BY <1>1, <1>2, <2>1
       DEF Report, RebuildInv, ThreadsMatch, GroupUntouched, BeforeSwap,
           CancelledIsLossless, FailedIsAllOrNothing, NoFailureWithoutFault
  <2>8. CancelIsOurs' /\ CancelIsSeen'
    BY <1>1, <1>2, <2>1, <2>2
       DEF Report, RebuildInv, CancelIsOurs, CancelIsSeen, NoStaleCancel,
           TimelyCancelWins
  <2>9. QED BY <2>5, <2>6, <2>7, <2>8 DEF RebuildInv
<1>4. CASE ~(outcome = "cancelled" \/ cancel) /\ outcome = "failed"
  <2>1. Report("failed") /\ DropScratch
    BY <1>4 DEF Decide
  <2>2. faults # 0
    BY <1>1, <1>4 DEF LoaderInv, OutcomesHaveCauses
  <2>3. scratch' \in BOOLEAN /\ faults' \in 0 .. MaxFaults /\ faults' # 0
    BY <1>1, <2>1, <2>2, DropScratchType
  <2>4. TypeOK'
    BY <1>1, <1>2, <2>3, OutsideTheLoader DEF TypeOK
  <2>5. Types' /\ LoaderAtWork'
    BY <1>2, <2>1, <2>3, <2>4
       DEF Report, RebuildInv, Types, RebuildTypeOK, LoaderAtWork
  <2>6. LiveIsSound'
    BY <1>2, LiveKept DEF RebuildInv
  <2>7. ThreadsMatch' /\ GroupUntouched' /\ NoFailureWithoutFault'
    BY <1>1, <1>2, <2>1, <2>3
       DEF Report, RebuildInv, ThreadsMatch, GroupUntouched, BeforeSwap,
           CancelledIsLossless, FailedIsAllOrNothing, NoFailureWithoutFault
  <2>8. CancelIsOurs' /\ CancelIsSeen'
    BY <1>1, <1>2, <2>1
       DEF Report, RebuildInv, CancelIsOurs, CancelIsSeen, NoStaleCancel,
           TimelyCancelWins
  <2>9. QED BY <2>5, <2>6, <2>7, <2>8 DEF RebuildInv
<1>5. CASE ~(outcome = "cancelled" \/ cancel) /\ outcome # "failed"
  <2>1. stage' = "swap" /\ UNCHANGED <<reported, scratch, faults>>
    BY <1>5 DEF Decide
  <2>2. outcome = "ok"
    BY <1>1, <1>5 DEF LoaderInv, OutcomesHaveCauses, TypeOK
  <2>3. UNCHANGED ingestVars
    BY <1>2, <2>1 DEF ingestVars
  <2>4. TypeOK'
    BY <1>1, <2>3, OutsideTheLoader DEF TypeOK, ingestVars
  <2>5. LoaderAtWork'
    <3>1. [Next]_ingestVars
      BY <2>3
    <3>2. LoaderInv'
      BY <1>1, <3>1, LoaderKeeps
    <3>3. (InSomeOrder(Kept) \o newDocs)' = InSomeOrder(Kept) \o newDocs
      BY <1>2 DEF Kept, SetOf
    <3>4. rows = InSomeOrder(Kept) \o newDocs
      BY <1>1 DEF RebuildInv, LoaderAtWork
    <3>5. QED BY <1>1, <1>2, <2>2, <3>2, <3>3, <3>4 DEF LoaderAtWork
  <2>6. Types'
    BY <1>2, <2>1, <2>4 DEF RebuildInv, Types, RebuildTypeOK
  <2>7. LiveIsSound'
    BY <1>2, LiveKept DEF RebuildInv
  <2>8. ThreadsMatch' /\ GroupUntouched' /\ NoFailureWithoutFault'
    BY <1>1, <1>2, <2>1
       DEF RebuildInv, ThreadsMatch, GroupUntouched, BeforeSwap,
           CancelledIsLossless, FailedIsAllOrNothing, NoFailureWithoutFault
  <2>9. CancelIsOurs' /\ CancelIsSeen'
    BY <1>1, <1>2, <1>5, <2>1
       DEF RebuildInv, CancelIsOurs, CancelIsSeen, NoStaleCancel,
           TimelyCancelWins
  <2>10. QED BY <2>5, <2>6, <2>7, <2>8, <2>9 DEF RebuildInv
<1>6. QED BY <1>3, <1>4, <1>5

(***************************************************************************)
(* What the loader has built when it returned ok is sound: the index is    *)
(* whole, a row with passages shares its name with a row whose document is *)
(* stored, and no name is stored twice.                                    *)
(***************************************************************************)
LEMMA RebuiltIsSound ==
  ASSUME RebuildInv, stage = "swap"
  PROVE  /\ Rebuilt \in [docs : SUBSET Document, passages : SUBSET Document,
                         whole : BOOLEAN]
         /\ IsFiniteSet(Rebuilt.docs)
         /\ Rebuilt.whole
         /\ \A p \in Rebuilt.passages : \E d \in Rebuilt.docs : d.name = p.name
         /\ \A d, e \in Rebuilt.docs : d.name = e.name => d = e
<1>1. TypeOK /\ LoaderInv /\ outcome = "ok"
  BY DEF RebuildInv, Types, RebuildTypeOK, LoaderAtWork
<1>2. /\ rows \in Seq(Document) /\ Len(rows) \in Nat /\ Rows = 1 .. Len(rows)
      /\ stored \subseteq Rows /\ Staged \subseteq Rows
      /\ \A r \in Rows : rows[r] \in Document
  BY <1>1 DEF TypeOK, Rows, Staged
<1>3. sealed /\ postings = Staged
  BY <1>1 DEF LoaderInv, PhaseThreeProgress
<1>4. Rebuilt \in [docs : SUBSET Document, passages : SUBSET Document,
                   whole : BOOLEAN]
  BY <1>2, <1>3 DEF Rebuilt
<1>5. IsFiniteSet(Rebuilt.docs)
  <2>1. IsFiniteSet(stored)
    <3>1. IsFiniteSet(Rows)
      BY <1>2, FS_Interval
    <3>2. QED BY <1>2, <3>1, FS_Subset
  <2>2. IsFiniteSet({rows[r] : r \in stored})
    <3> DEFINE T == {rows[r] : r \in stored}
               f == [r \in stored |-> rows[r]]
    <3>1. f \in Surjection(stored, T)
      BY DEF Surjection
    <3> HIDE DEF f, T
    <3>2. IsFiniteSet(T)
      BY <2>1, <3>1, FS_Surjection
    <3>3. QED BY <3>2 DEF T
  <2>3. QED BY <2>2 DEF Rebuilt
<1>6. Rebuilt.whole
  BY <1>3 DEF Rebuilt
<1>7. ASSUME NEW p \in Rebuilt.passages
      PROVE  \E d \in Rebuilt.docs : d.name = p.name
  <2>1. PICK r \in Staged : p = rows[r]
    BY <1>7 DEF Rebuilt
  <2>2. r \in Rows /\ indexed[r] > 0
    BY <2>1 DEF Staged
  <2>3. PICK s \in stored : SameName(r, s)
    BY <1>1, <2>2 DEF LoaderInv, RowsAreNamed
  <2>4. rows[s] \in Rebuilt.docs /\ rows[s].name = p.name
    BY <2>1, <2>3 DEF Rebuilt, SameName
  <2>5. QED BY <2>4
<1>8. ASSUME NEW d \in Rebuilt.docs, NEW e \in Rebuilt.docs, d.name = e.name
      PROVE  d = e
  <2>1. PICK r \in stored : d = rows[r]
    BY <1>8 DEF Rebuilt
  <2>2. PICK s \in stored : e = rows[s]
    BY <1>8 DEF Rebuilt
  <2>3. SameName(r, s)
    BY <1>8, <2>1, <2>2 DEF SameName
  <2>4. r = s
    <3>1. r \in Taken /\ s \in Taken
      BY <1>2 DEF Taken
    <3>2. QED BY <1>1, <2>3, <3>1 DEF LoaderInv, NamesAreLocked
  <2>5. QED BY <2>1, <2>2, <2>4
<1>9. QED BY <1>4, <1>5, <1>6, <1>7, <1>8

(* The end of a swap that took effect, whatever it reports.                 *)
LEMMA SwappedIn ==
  ASSUME RebuildInv, stage = "swap", live' = Rebuilt,
         stage' = "finished", TypeOK',
         Rebuilt' = Rebuilt, scratch' \in BOOLEAN,
         reported' \in {"ok", "failed"},
         faults = 0 => faults' # 0 \/ reported' = "ok",
         faults' = 0 => faults = 0,
         UNCHANGED <<cancel, active, cancelling, mCancel, files, newDocs,
                     before, timely, ingests, crashes>>
  PROVE  RebuildInv'
<1>1. LoaderAtWork'
  BY DEF LoaderAtWork
<1>2. Types'
  BY RebuiltIsSound DEF RebuildInv, Types, RebuildTypeOK
<1>3. LiveIsSound'
  BY RebuiltIsSound DEF LiveIsSound, LiveIndexIsWhole
<1>4. ThreadsMatch' /\ GroupUntouched' /\ NoFailureWithoutFault'
  BY DEF RebuildInv, ThreadsMatch, GroupUntouched, BeforeSwap,
         CancelledIsLossless, FailedIsAllOrNothing, NoFailureWithoutFault
<1>5. CancelIsOurs' /\ CancelIsSeen'
  BY DEF RebuildInv, CancelIsOurs, CancelIsSeen, NoStaleCancel,
         TimelyCancelWins
<1>6. QED BY <1>1, <1>2, <1>3, <1>4, <1>5 DEF RebuildInv

LEMMA SwapKeeps == RebuildInv /\ Swap => RebuildInv'
<1> SUFFICES ASSUME RebuildInv, Swap PROVE RebuildInv'
  OBVIOUS
<1>1. TypeOK' /\ Rebuilt' = Rebuilt
  BY OutsideTheLoader
     DEF Swap, RebuildInv, Types, RebuildTypeOK, TypeOK, ingestVars
<1>2. /\ stage = "swap" /\ live' = Rebuilt /\ scratch' = FALSE
      /\ stage' = "finished" /\ reported' = "ok"
      /\ UNCHANGED <<faults, cancel, active, cancelling, mCancel, files,
                     newDocs, before, timely, ingests, crashes>>
  BY DEF Swap, SwapSchema, Report, ingestVars
<1>3. QED BY <1>1, <1>2, SwappedIn

LEMMA SwapFailsKeeps == RebuildInv /\ SwapFails => RebuildInv'
<1> SUFFICES ASSUME RebuildInv, SwapFails PROVE RebuildInv'
  OBVIOUS
<1>1. faults' \in 0 .. MaxFaults /\ faults' # 0
  BY FaultCounted DEF SwapFails, RebuildInv, Types, RebuildTypeOK
<1>2. TypeOK' /\ Rebuilt' = Rebuilt
  BY <1>1, OutsideTheLoader
     DEF SwapFails, RebuildInv, Types, RebuildTypeOK, TypeOK
<1>3. /\ stage = "swap" /\ stage' = "finished" /\ reported' = "failed"
      /\ UNCHANGED <<cancel, active, cancelling, mCancel, files, newDocs,
                     before, timely, ingests, crashes>>
  BY DEF SwapFails, Report
<1>4. CASE SwapSchema
  <2>1. live' = Rebuilt /\ scratch' = FALSE
    BY <1>4 DEF SwapSchema
  <2>2. QED BY <1>1, <1>2, <1>3, <2>1, SwappedIn
<1>5. CASE UNCHANGED <<live, scratch>>
  <2>1. Types' /\ LoaderAtWork'
    BY <1>2, <1>3, <1>5
       DEF RebuildInv, Types, RebuildTypeOK, LoaderAtWork
  <2>2. LiveIsSound'
    BY <1>5, LiveKept DEF RebuildInv
  <2>3. ThreadsMatch' /\ GroupUntouched' /\ NoFailureWithoutFault'
    BY <1>1, <1>3, <1>5
       DEF RebuildInv, ThreadsMatch, GroupUntouched, BeforeSwap,
           CancelledIsLossless, FailedIsAllOrNothing, NoFailureWithoutFault
  <2>4. CancelIsOurs' /\ CancelIsSeen'
    BY <1>3, <1>5
       DEF RebuildInv, CancelIsOurs, CancelIsSeen, NoStaleCancel,
           TimelyCancelWins
  <2>5. QED BY <2>1, <2>2, <2>3, <2>4 DEF RebuildInv
<1>6. QED BY <1>4, <1>5 DEF SwapFails

-----------------------------------------------------------------------------
(* The loader's own steps, a crash, and waiting.                            *)

(* None of the loader's steps touches the cancel flag.                      *)
LEMMA LoaderNeverCancels == IngestStep => cancel' = cancel
  BY DEF IngestStep, CoordinatorStep, CoordinatorFails, WorkerStep, Stage,
         Join, Prepare, FinalizeTerms, FinalizePostings, Finish, Open,
         CheckCancel, ClaimBatch, Fetch, Begin, InsertDocument, Commit,
         AttemptOnDeadConnection, DeadlockVictim, AttemptFails, LoseConnection

LEMMA LoadKeeps == RebuildInv /\ Load => RebuildInv'
<1> SUFFICES ASSUME RebuildInv, Load PROVE RebuildInv'
  OBVIOUS
<1>1. /\ stage = "ingest" /\ TypeOK /\ LoaderInv
      /\ UNCHANGED rebuildVars /\ [Next]_ingestVars /\ cancel' = cancel
  BY LoaderNeverCancels
     DEF Load, RebuildInv, Types, RebuildTypeOK, LoaderAtWork, Next
<1>2. TypeOK' /\ LoaderInv'
  BY <1>1, LoaderKeeps
<1>3. rows' = rows
  BY DEF Load, IngestStep, CoordinatorStep, CoordinatorFails, WorkerStep,
         Stage, Join, Prepare, FinalizeTerms, FinalizePostings, Finish, Open,
         CheckCancel, ClaimBatch, Fetch, Begin, InsertDocument, Commit,
         AttemptOnDeadConnection, DeadlockVictim, AttemptFails, LoseConnection
<1>4. LoaderAtWork'
  <2>1. (InSomeOrder(Kept) \o newDocs)' = InSomeOrder(Kept) \o newDocs
    BY <1>1 DEF Kept, SetOf, rebuildVars
  <2>2. rows = InSomeOrder(Kept) \o newDocs
    BY <1>1 DEF RebuildInv, LoaderAtWork
  <2>3. stage' = "ingest"
    BY <1>1 DEF rebuildVars
  <2>4. QED BY <1>2, <1>3, <2>1, <2>2, <2>3 DEF LoaderAtWork
<1>5. Types'
  BY <1>1, <1>2 DEF RebuildInv, Types, RebuildTypeOK, rebuildVars
<1>6. LiveIsSound'
  BY <1>1, LiveKept DEF RebuildInv, rebuildVars
<1>7. ThreadsMatch' /\ GroupUntouched' /\ NoFailureWithoutFault'
  BY <1>1 DEF RebuildInv, ThreadsMatch, GroupUntouched, BeforeSwap,
              CancelledIsLossless, FailedIsAllOrNothing,
              NoFailureWithoutFault, rebuildVars
<1>8. CancelIsOurs' /\ CancelIsSeen'
  BY <1>1 DEF RebuildInv, CancelIsOurs, CancelIsSeen, NoStaleCancel,
              TimelyCancelWins, rebuildVars
<1>9. QED BY <1>4, <1>5, <1>6, <1>7, <1>8 DEF RebuildInv

LEMMA CrashKeeps == RebuildInv /\ Crash => RebuildInv'
<1> SUFFICES ASSUME RebuildInv, Crash PROVE RebuildInv'
  OBVIOUS
<1>1. TypeOK'
  <2>1. ResetLoader(<<>>, "done") /\ cancel' = FALSE /\ faults' = faults
    BY DEF Crash
  <2>2. faults \in 0 .. MaxFaults
    BY DEF RebuildInv, Types, RebuildTypeOK, TypeOK
  <2>3. <<>> \in Seq(Document)
    OBVIOUS
  <2>4. QED BY <2>1, <2>2, <2>3, ResetType
<1>2. /\ stage' = "none" /\ active' = FALSE /\ cancelling' = FALSE
      /\ mCancel' = FALSE /\ files' = <<>> /\ newDocs' = <<>>
      /\ reported' = "none" /\ timely' = FALSE /\ before' = live
      /\ cancel' = FALSE /\ UNCHANGED <<live, scratch, ingests>>
  BY DEF Crash
<1>3. crashes' \in 0 .. MaxCrashes
  BY RebuildAssumption DEF Crash, RebuildInv, Types, RebuildTypeOK
<1>4. Types' /\ LoaderAtWork'
  <2>1. files' \in Seq(Seq(Document)) /\ newDocs' \in Seq(Document)
    BY <1>2
  <2>2. /\ Types /\ stage' = "none" /\ active' = FALSE /\ cancelling' = FALSE
        /\ mCancel' = FALSE /\ reported' = "none" /\ timely' = FALSE
        /\ before' = live /\ UNCHANGED <<live, scratch, ingests>>
    BY <1>2 DEF RebuildInv
  <2>3. Types'
    BY <1>1, <1>3, <2>1, <2>2 DEF Types, RebuildTypeOK
  <2>4. QED BY <1>2, <2>3 DEF LoaderAtWork
<1>5. LiveIsSound'
  BY <1>2, LiveKept DEF RebuildInv
<1>6. ThreadsMatch' /\ GroupUntouched' /\ NoFailureWithoutFault'
  BY <1>2 DEF ThreadsMatch, GroupUntouched, BeforeSwap, CancelledIsLossless,
              FailedIsAllOrNothing, NoFailureWithoutFault
<1>7. CancelIsOurs' /\ CancelIsSeen'
  BY <1>2 DEF CancelIsOurs, CancelIsSeen, NoStaleCancel, TimelyCancelWins
<1>8. QED BY <1>4, <1>5, <1>6, <1>7 DEF RebuildInv

LEMMA NothingKeeps == RebuildInv /\ UNCHANGED allVars => RebuildInv'
<1> SUFFICES ASSUME RebuildInv, UNCHANGED allVars PROVE RebuildInv'
  OBVIOUS
<1>1. UNCHANGED ingestVars /\ UNCHANGED rebuildVars
  BY DEF allVars
<1>2. TypeOK' /\ Rebuilt' = Rebuilt /\ LoaderAtWork'
  BY <1>1, LoaderUndisturbed
     DEF RebuildInv, Types, RebuildTypeOK, rebuildVars
<1>3. Types'
  BY <1>1, <1>2 DEF RebuildInv, Types, RebuildTypeOK, rebuildVars
<1>4. LiveIsSound'
  BY <1>1, LiveKept DEF RebuildInv, rebuildVars
<1>5. ThreadsMatch' /\ GroupUntouched' /\ NoFailureWithoutFault'
  BY <1>1, <1>2
     DEF RebuildInv, ThreadsMatch, GroupUntouched, BeforeSwap,
         CancelledIsLossless, FailedIsAllOrNothing, NoFailureWithoutFault,
         rebuildVars, ingestVars
<1>6. CancelIsOurs' /\ CancelIsSeen'
  BY <1>1 DEF RebuildInv, CancelIsOurs, CancelIsSeen, NoStaleCancel,
              TimelyCancelWins, rebuildVars, ingestVars
<1>7. QED BY <1>2, <1>3, <1>4, <1>5, <1>6 DEF RebuildInv

-----------------------------------------------------------------------------
(* Every state of the rebuild satisfies the invariant.                      *)

LEMMA InitRebuildInv == RebuildInit => RebuildInv
<1> SUFFICES ASSUME RebuildInit PROVE RebuildInv
  OBVIOUS
<1>1. TypeOK
  <2>1. rows = <<>> /\ Rows = {} /\ rows \in Seq(Document)
    BY DEF RebuildInit, NoCallRunning, Rows
  <2>2. /\ attempt \in [Workers -> 0 .. Retries]
        /\ lateClaims \in [Workers -> Nat]
        /\ faults \in 0 .. MaxFaults /\ nextRow \in Nat \ {0}
        /\ cancel \in BOOLEAN
    <3>1. /\ attempt = [w \in Workers |-> 0] /\ nextRow = 1
          /\ lateClaims = [w \in Workers |-> 0] /\ faults = 0 /\ cancel = FALSE
      BY DEF RebuildInit, NoCallRunning, IdleWorkers
    <3>2. 0 \in 0 .. Retries /\ 0 \in 0 .. MaxFaults
      BY IngestAssumption
    <3>3. faults \in 0 .. MaxFaults /\ nextRow \in Nat \ {0}
      BY <3>1, <3>2
    <3>4. attempt \in [Workers -> 0 .. Retries]
      BY <3>1, <3>2
    <3>5. lateClaims \in [Workers -> Nat]
      BY <3>1
    <3>6. cancel \in BOOLEAN
      BY <3>1
    <3>7. QED BY <3>3, <3>4, <3>5, <3>6
  <2>3. /\ stored \subseteq Rows /\ terms \subseteq Rows
        /\ postings \subseteq Rows /\ givenUp \subseteq Rows
        /\ indexed \in [Rows -> Nat] /\ sealed \in BOOLEAN
    BY DEF RebuildInit, NoCallRunning, FreshTables
  <2>4. /\ phase = "done" /\ outcome = "none"
        /\ pc = [w \in Workers |-> "unborn"]
        /\ batch = [w \in Workers |-> {}] /\ todo = [w \in Workers |-> {}]
        /\ held = [w \in Workers |-> {}]
        /\ connected = [w \in Workers |-> FALSE]
    BY DEF RebuildInit, NoCallRunning, IdleWorkers
  <2>5. QED BY <2>1, <2>2, <2>3, <2>4 DEF TypeOK
<1>2. live = [docs |-> InitialDocuments, passages |-> InitialDocuments,
              whole |-> TRUE]
  BY DEF RebuildInit, Schema
<1>3. Types
  <2>1. /\ live \in [docs : SUBSET Document, passages : SUBSET Document,
                     whole : BOOLEAN]
        /\ IsFiniteSet(live.docs)
    BY <1>2, RebuildAssumption
  <2>2. ingests \in 0 .. MaxIngests /\ crashes \in 0 .. MaxCrashes
    BY RebuildAssumption DEF RebuildInit
  <2>3. before = live
    BY DEF RebuildInit
  <2>4. /\ scratch = FALSE /\ stage = "none" /\ active = FALSE
        /\ cancelling = FALSE /\ mCancel = FALSE /\ reported = "none"
        /\ timely = FALSE
    BY DEF RebuildInit, NoWorker
  <2>5. files \in Seq(Seq(Document)) /\ newDocs \in Seq(Document)
    BY DEF RebuildInit, NoWorker
  <2>6. QED BY <1>1, <2>1, <2>2, <2>3, <2>4, <2>5 DEF Types, RebuildTypeOK
<1>4. LiveIsSound
  BY <1>2, RebuildAssumption DEF LiveIsSound, LiveIndexIsWhole
<1>5. LoaderAtWork /\ ThreadsMatch /\ GroupUntouched /\ NoFailureWithoutFault
  BY DEF RebuildInit, NoWorker, LoaderAtWork, ThreadsMatch, GroupUntouched,
         BeforeSwap, CancelledIsLossless, FailedIsAllOrNothing,
         NoFailureWithoutFault
<1>6. CancelIsOurs /\ CancelIsSeen
  BY DEF RebuildInit, NoWorker, CancelIsOurs, CancelIsSeen, NoStaleCancel,
         TimelyCancelWins
<1>7. QED BY <1>3, <1>4, <1>5, <1>6 DEF RebuildInv

LEMMA NextRebuildInv == RebuildInv /\ [RebuildNext]_allVars => RebuildInv'
<1> SUFFICES ASSUME RebuildInv, [RebuildNext]_allVars PROVE RebuildInv'
  OBVIOUS
<1>1. CASE IngestFiles \/ CancelWorker \/ CancelLoader \/ OnIngestFinished
  BY <1>1, IngestFilesKeeps, CancelWorkerKeeps, CancelLoaderKeeps,
     OnIngestFinishedKeeps
<1>2. CASE \E n \in Names : RemoveDocument(n)
  BY <1>2, RemoveDocumentKeeps
<1>3. CASE WorkerThread
  BY <1>3, ClearCancelKeeps, ExtractFileKeeps, EndExtractionKeeps,
     PrepareRebuildKeeps, DecideKeeps, SwapKeeps DEF WorkerThread
<1>4. CASE PrepareRebuildFails \/ SwapFails
  BY <1>4, PrepareRebuildFailsKeeps, SwapFailsKeeps
<1>5. CASE Load \/ Crash
  BY <1>5, LoadKeeps, CrashKeeps
<1>6. CASE Idle \/ UNCHANGED allVars
  BY <1>6, NothingKeeps DEF Idle
<1>7. QED BY <1>1, <1>2, <1>3, <1>4, <1>5, <1>6 DEF RebuildNext

THEOREM RebuildIsInvariant == RebuildSpec => []RebuildInv
<1>1. RebuildInit => RebuildInv
  BY InitRebuildInv
<1>2. RebuildInv /\ [RebuildNext]_allVars => RebuildInv'
  BY NextRebuildInv
<1>3. QED BY <1>1, <1>2, PTL DEF RebuildSpec

-----------------------------------------------------------------------------
(* What follows for every state.                                            *)

(* Every variable of the rebuild has its type.                              *)
THEOREM RebuildTypeCorrect == RebuildSpec => []RebuildTypeOK
<1>1. RebuildInv => RebuildTypeOK
  BY DEF RebuildInv, Types
<1>2. QED BY <1>1, RebuildIsInvariant, PTL

(* An ingest reported as cancelled left the group as it was.                *)
THEOREM CancelLosesNothing == RebuildSpec => []CancelledIsLossless
<1>1. RebuildInv => CancelledIsLossless
  BY DEF RebuildInv, GroupUntouched
<1>2. QED BY <1>1, RebuildIsInvariant, PTL

(* One reported as failed left it as it was, or complete.                   *)
THEOREM FailureIsAtomic == RebuildSpec => []FailedIsAllOrNothing
<1>1. RebuildInv => FailedIsAllOrNothing
  BY DEF RebuildInv, GroupUntouched
<1>2. QED BY <1>1, RebuildIsInvariant, PTL

(* A cancel complete before the last look at the flag is not lost.          *)
THEOREM TimelyCancelIsHeeded == RebuildSpec => []TimelyCancelWins
<1>1. RebuildInv => TimelyCancelWins
  BY DEF RebuildInv, CancelIsSeen
<1>2. QED BY <1>1, RebuildIsInvariant, PTL

(* What a crash has left does not make a later ingest fail.                 *)
THEOREM OnlyFaultsFail == RebuildSpec => []NoFailureWithoutFault
<1>1. RebuildInv => NoFailureWithoutFault
  BY DEF RebuildInv
<1>2. QED BY <1>1, RebuildIsInvariant, PTL

(* A cancel that came too late for one ingest does not stop the next.       *)
THEOREM CancelsDoNotLinger == RebuildSpec => []NoStaleCancel
<1>1. RebuildInv => NoStaleCancel
  BY DEF RebuildInv, CancelIsOurs
<1>2. QED BY <1>1, RebuildIsInvariant, PTL

(* The group on line is never half built.                                   *)
THEOREM LiveIsAlwaysWhole == RebuildSpec => []LiveIndexIsWhole
<1>1. RebuildInv => LiveIndexIsWhole
  BY DEF RebuildInv, LiveIsSound
<1>2. QED BY <1>1, RebuildIsInvariant, PTL

-----------------------------------------------------------------------------
(* What a swap may change.                                                  *)

(* The rows of a rebuild are the documents kept and the new ones.           *)
LEMMA RowsAreTheInput ==
  ASSUME RebuildInv, stage \in {"ingest", "swap"}
  PROVE  {rows[r] : r \in Rows} = Kept \union SetOf(newDocs)
<1>1. rows = InSomeOrder(Kept) \o newDocs
  BY DEF RebuildInv, LoaderAtWork
<1>2. SetOf(rows) = Kept \union SetOf(newDocs)
  BY <1>1, InputHolds DEF RebuildInv
<1>3. DOMAIN rows = Rows
  BY DEF RebuildInv, Types, RebuildTypeOK, TypeOK, Rows
<1>4. QED BY <1>2, <1>3 DEF SetOf

(* A name that a swap takes out of the group was skipped with its batch.    *)
LEMMA MissingWasSkipped ==
  ASSUME RebuildInv, stage = "swap",
         NEW n \in NamesOf(live.docs) \ NamesOf(Rebuilt.docs)
  PROVE  \E r \in givenUp : rows[r].name = n
<1>1. TypeOK /\ LoaderInv /\ outcome = "ok"
  BY DEF RebuildInv, Types, RebuildTypeOK, LoaderAtWork
<1>2. PICK d \in live.docs : d.name = n
  BY DEF NamesOf
<1>3. \E e \in Kept \union SetOf(newDocs) : e.name = n
  BY <1>2 DEF Kept
<1>4. PICK r \in Rows : rows[r].name = n
  BY <1>3, RowsAreTheInput
<1>5. indexed[r] = 0
  <2>1. SUFFICES ASSUME indexed[r] > 0 PROVE FALSE
    BY <1>1, <1>4 DEF TypeOK
  <2>2. PICK s \in stored : SameName(r, s)
    BY <1>1, <1>4, <2>1 DEF LoaderInv, RowsAreNamed
  <2>3. rows[s] \in Rebuilt.docs /\ rows[s].name = n
    BY <1>4, <2>2 DEF Rebuilt, SameName
  <2>4. QED BY <2>3 DEF NamesOf
<1>6. r < nextRow
  <2>1. nextRow > Len(rows)
    BY <1>1 DEF LoaderInv, RowLedger, PhasesInOrder
  <2>2. Len(rows) \in Nat /\ nextRow \in Nat /\ r \in 1 .. Len(rows)
    BY <1>1, <1>4 DEF TypeOK, Rows
  <2>3. QED BY <2>1, <2>2
<1>7. \A w \in Workers : batch[w] = {}
  BY <1>1 DEF LoaderInv, RowLedger, PhasesInOrder, ClaimsMatchControl,
              WithoutClaim
<1>8. r \in givenUp
  BY <1>1, <1>4, <1>5, <1>6, <1>7 DEF LoaderInv, RowLedger, ClaimedAccounted
<1>9. QED BY <1>4, <1>8

(* While an ingest is at work only a swap changes the group.                *)
LEMMA OnlySwapsChangeTheGroup ==
  ASSUME RebuildInv, [RebuildNext]_allVars, active
  PROVE  live' = live \/ (stage = "swap" /\ live' = Rebuilt)
<1>1. CASE \/ IngestFiles \/ CancelWorker \/ CancelLoader \/ OnIngestFinished
           \/ ClearCancel \/ ExtractFile \/ EndExtraction \/ PrepareRebuild
           \/ PrepareRebuildFails \/ Decide
  BY <1>1 DEF IngestFiles, CancelWorker, CancelLoader, OnIngestFinished,
              ClearCancel, ExtractFile, EndExtraction, PrepareRebuild,
              PrepareRebuildFails, Decide
<1>2. CASE \E n \in Names : RemoveDocument(n)
  BY <1>2 DEF RemoveDocument
<1>3. CASE Swap \/ SwapFails
  BY <1>3 DEF Swap, SwapFails, SwapSchema
<1>4. CASE Load \/ Crash \/ Idle \/ UNCHANGED allVars
  BY <1>4 DEF Load, Crash, Idle, allVars, rebuildVars
<1>5. QED BY <1>1, <1>2, <1>3, <1>4 DEF RebuildNext, WorkerThread

(***************************************************************************)
(* An ingest makes a document disappear only with a batch that the loader  *)
(* skipped.                                                                *)
(***************************************************************************)
THEOREM NothingElseDisappears == RebuildSpec => OnlySkippedDocumentsDisappear
<1>1. ASSUME RebuildInv, [RebuildNext]_allVars
      PROVE  [active => \A n \in NamesOf(live.docs) \ NamesOf(live'.docs) :
                          \E r \in givenUp : rows[r].name = n]_live
  <2>1. SUFFICES ASSUME active, live' # live
                 PROVE  \A n \in NamesOf(live.docs) \ NamesOf(live'.docs) :
                          \E r \in givenUp : rows[r].name = n
    OBVIOUS
  <2>2. stage = "swap" /\ live' = Rebuilt
    BY <1>1, <2>1, OnlySwapsChangeTheGroup
  <2>3. QED BY <1>1, <2>2, MissingWasSkipped
<1>2. QED
  BY <1>1, RebuildIsInvariant, PTL
     DEF RebuildSpec, OnlySkippedDocumentsDisappear

-----------------------------------------------------------------------------
(* The group as an atomic store.                                            *)

(* A step out of sight of the store.                                        *)
LEMMA StoreStutters ==
  ASSUME live' = live, AtWork' = AtWork, AtWork => newDocs' = newDocs
  PROVE  UNCHANGED Store!storeVars
  BY DEF Store!storeVars, SetOf

LEMMA StoreIsOffered ==
  ASSUME RebuildInv, EndExtraction
  PROVE  [Store!StoreNext]_(Store!storeVars)
<1>1. stage = "extract" /\ UNCHANGED <<live, newDocs>> /\ ~AtWork
  BY DEF EndExtraction, AtWork
<1>2. CASE stage' = "finished"
  BY <1>1, <1>2, StoreStutters DEF AtWork
<1>3. CASE stage' = "select"
  <2>1. SetOf(newDocs) \in SUBSET Store!StoredDocument
    <3>1. newDocs \in Seq(Document)
      BY DEF RebuildInv, Types, RebuildTypeOK
    <3>2. SetOf(newDocs) \subseteq Document
      BY <3>1 DEF SetOf
    <3>3. QED BY <3>2 DEF Document, Store!StoredDocument
  <2>2. AtWork' = TRUE /\ AtWork = FALSE
    BY <1>1, <1>3 DEF AtWork
  <2>3. SetOf(newDocs)' = SetOf(newDocs)
    BY <1>1 DEF SetOf
  <2>4. Store!Offer(SetOf(newDocs))
    BY <1>1, <2>2, <2>3 DEF Store!Offer
  <2>5. QED BY <2>1, <2>4 DEF Store!StoreNext
<1>4. QED BY <1>2, <1>3 DEF EndExtraction, Report

(* The work ends without a change.                                          *)
LEMMA StoreAbandons ==
  ASSUME AtWork, ~AtWork', live' = live
  PROVE  Store!StoreNext
  BY DEF Store!StoreNext, Store!Abandon

(* The work ends with a swap.                                               *)
LEMMA StoreInstalls ==
  ASSUME RebuildInv, stage = "swap", stage' = "finished", live' = Rebuilt
  PROVE  Store!StoreNext
<1>1. AtWork = TRUE /\ AtWork' = FALSE
  BY DEF AtWork
<1>2. Store!Merged = Kept \union SetOf(newDocs)
  BY <1>1 DEF Store!Merged, Kept
<1>3. Rebuilt.docs \subseteq {rows[r] : r \in Rows}
  BY DEF Rebuilt, RebuildInv, Types, RebuildTypeOK, TypeOK
<1>4. live'.docs \in SUBSET Store!Merged
  BY <1>2, <1>3, RowsAreTheInput
<1>5. Store!Install
  BY <1>1, <1>4 DEF Store!Install
<1>6. QED BY <1>5 DEF Store!StoreNext

(* Every step of the rebuild is one of the store, or none.                  *)
LEMMA StepOfTheStore ==
  ASSUME RebuildInv, [RebuildNext]_allVars
  PROVE  [Store!StoreNext]_(Store!storeVars)
<1>1. CASE IngestFiles \/ OnIngestFinished \/ ClearCancel \/ ExtractFile
  <2>1. live' = live /\ AtWork' = AtWork /\ ~AtWork
    BY <1>1 DEF IngestFiles, OnIngestFinished, ClearCancel, ExtractFile,
                Report, AtWork, RebuildInv, ThreadsMatch
  <2>2. QED BY <2>1, StoreStutters
<1>2. CASE CancelWorker \/ CancelLoader \/ PrepareRebuild \/ Load
           \/ Idle \/ UNCHANGED allVars
  <2>1. live' = live /\ AtWork' = AtWork /\ newDocs' = newDocs
    BY <1>2 DEF CancelWorker, CancelLoader, PrepareRebuild, Load, Idle,
                AtWork, allVars, rebuildVars
  <2>2. QED BY <2>1, StoreStutters
<1>3. CASE \E n \in Names : RemoveDocument(n)
  <2>1. PICK n \in Names : RemoveDocument(n)
    BY <1>3
  <2>2. AtWork' = FALSE /\ AtWork = FALSE
    BY <2>1 DEF RemoveDocument, AtWork, RebuildInv, ThreadsMatch
  <2>3. live'.docs = {d \in live.docs : d.name # n}
    BY <2>1 DEF RemoveDocument, RebuildInv, Types, RebuildTypeOK
  <2>4. Store!Remove(n)
    BY <2>2, <2>3 DEF Store!Remove
  <2>5. QED BY <2>4 DEF Store!StoreNext
<1>4. CASE EndExtraction
  BY <1>4, StoreIsOffered
<1>5. CASE PrepareRebuildFails
  <2>1. AtWork /\ ~AtWork' /\ live' = live
    BY <1>5 DEF PrepareRebuildFails, Report, AtWork
  <2>2. QED BY <2>1, StoreAbandons
<1>6. CASE Decide
  <2>1. live' = live /\ newDocs' = newDocs /\ AtWork
        /\ stage' \in {"swap", "finished"}
    BY <1>6 DEF Decide, Report, AtWork
  <2>2. CASE stage' = "swap"
    BY <2>1, <2>2, StoreStutters DEF AtWork
  <2>3. CASE stage' = "finished"
    BY <2>1, <2>3, StoreAbandons DEF AtWork
  <2>4. QED BY <2>1, <2>2, <2>3
<1>7. CASE Swap \/ SwapFails
  <2>1. /\ stage = "swap" /\ stage' = "finished"
        /\ live' = Rebuilt \/ live' = live
    BY <1>7 DEF Swap, SwapFails, SwapSchema, Report
  <2>2. CASE live' = Rebuilt
    BY <2>1, <2>2, StoreInstalls
  <2>3. CASE live' = live
    BY <2>1, <2>3, StoreAbandons DEF AtWork
  <2>4. QED BY <2>1, <2>2, <2>3
<1>8. CASE Crash
  <2>1. live' = live /\ ~AtWork'
    BY <1>8 DEF Crash, AtWork
  <2>2. CASE AtWork
    BY <2>1, <2>2, StoreAbandons
  <2>3. CASE ~AtWork
    BY <2>1, <2>3, StoreStutters DEF AtWork
  <2>4. QED BY <2>2, <2>3
<1>9. QED BY <1>1, <1>2, <1>3, <1>4, <1>5, <1>6, <1>7, <1>8
          DEF RebuildNext, WorkerThread

LEMMA StartOfTheStore == RebuildInit => Store!StoreInit
<1> SUFFICES ASSUME RebuildInit PROVE Store!StoreInit
  OBVIOUS
<1>1. AtWork = FALSE
  BY DEF RebuildInit, NoWorker, AtWork
<1>2. live.docs \subseteq Store!StoredDocument
  BY RebuildAssumption
     DEF RebuildInit, Schema, Document, Store!StoredDocument
<1>3. QED BY <1>1, <1>2 DEF Store!StoreInit

(***************************************************************************)
(* The rebuild implements the atomic store: whatever the threads, faults,  *)
(* cancels and crashes do, a group is seen to change by a removal or by    *)
(* the installation of documents it had and documents it was offered.      *)
(***************************************************************************)
THEOREM RebuildIsAtomic == RebuildSpec => ImplementsCorpusStore
<1>1. RebuildInit => Store!StoreInit
  BY StartOfTheStore
<1>2. RebuildInv /\ [RebuildNext]_allVars => [Store!StoreNext]_(Store!storeVars)
  BY StepOfTheStore
<1>3. QED
  BY <1>1, <1>2, RebuildIsInvariant, PTL
     DEF RebuildSpec, ImplementsCorpusStore, Store!StoreSpec

-----------------------------------------------------------------------------
(* The text behind the passages.                                            *)

(* No two documents of the list have a name in common.                      *)
NoTwins(docs) ==
  \A i, j \in DOMAIN docs : docs[i].name = docs[j].name => i = j

(* No two documents of the files have a name in common.                     *)
NoTwinsIn(drop) ==
  \A i, j \in DOMAIN drop : \A k \in DOMAIN drop[i], l \in DOMAIN drop[j] :
    drop[i][k].name = drop[j][l].name => i = j /\ k = l

(* What the user drops at a time holds no two documents of one name.        *)
DropsHaveNoTwins == \A drop \in Drops : NoTwinsIn(drop)

(* What was read of a drop and what is still to be read hold no twins.      *)
DropInv ==
  /\ NoTwins(newDocs)
  /\ NoTwinsIn(files)
  /\ \A i \in DOMAIN files, j \in DOMAIN newDocs : \A k \in DOMAIN files[i] :
       files[i][k].name # newDocs[j].name

(* A file that is read moves its documents from the one to the other.       *)
LEMMA ReadingAFile ==
  ASSUME files \in Seq(Seq(Document)), newDocs \in Seq(Document), DropInv,
         files # <<>>, files' = Tail(files),
         newDocs' \in {newDocs, newDocs \o Head(files)}
  PROVE  DropInv'
<1> DEFINE m == Len(newDocs)
           h == Head(files)
<1>1. /\ Len(files) \in Nat /\ Len(files) > 0 /\ DOMAIN files = 1 .. Len(files)
      /\ Len(files') = Len(files) - 1 /\ DOMAIN files' = 1 .. Len(files) - 1
      /\ \A i \in 1 .. Len(files) - 1 : files'[i] = files[i + 1]
      /\ h = files[1] /\ h \in Seq(Document)
  BY EmptySeq, HeadTailProperties
<1>2. /\ m \in Nat /\ DOMAIN newDocs = 1 .. m
      /\ Len(h) \in Nat /\ DOMAIN h = 1 .. Len(h)
  BY <1>1
<1>3. NoTwinsIn(files')
  <2>1. ASSUME NEW i \in DOMAIN files', NEW j \in DOMAIN files',
               NEW k \in DOMAIN files'[i], NEW l \in DOMAIN files'[j],
               files'[i][k].name = files'[j][l].name
        PROVE  i = j /\ k = l
    <3>1. /\ i + 1 \in DOMAIN files /\ files'[i] = files[i + 1]
          /\ j + 1 \in DOMAIN files /\ files'[j] = files[j + 1]
      BY <1>1
    <3>2. i + 1 = j + 1 /\ k = l
      BY <2>1, <3>1 DEF DropInv, NoTwinsIn
    <3>3. QED BY <1>1, <3>2
  <2>2. QED BY <2>1 DEF NoTwinsIn
<1>4. CASE newDocs' = newDocs
  <2>1. \A i \in DOMAIN files', j \in DOMAIN newDocs' :
          \A k \in DOMAIN files'[i] : files'[i][k].name # newDocs'[j].name
    BY <1>1, <1>4 DEF DropInv
  <2>2. QED BY <1>3, <1>4, <2>1 DEF DropInv
<1>5. CASE newDocs' = newDocs \o h
  <2>1. /\ DOMAIN newDocs' = 1 .. m + Len(h)
        /\ \A j \in 1 .. m + Len(h) :
             newDocs'[j] = IF j <= m THEN newDocs[j] ELSE h[j - m]
    BY <1>1, <1>2, <1>5, ConcatProperties, LenProperties
  <2> HIDE DEF m, h
  <2>2. \A j \in 1 .. m + Len(h) :
          \/ j \in 1 .. m /\ newDocs'[j] = newDocs[j]
          \/ j > m /\ j - m \in DOMAIN files[1] /\ newDocs'[j] = files[1][j - m]
    BY <1>1, <1>2, <2>1
  <2>3. ASSUME NEW i \in DOMAIN files', NEW j \in DOMAIN newDocs',
               NEW k \in DOMAIN files'[i]
        PROVE  files'[i][k].name # newDocs'[j].name
    <3>1. /\ i + 1 \in DOMAIN files /\ i + 1 # 1 /\ 1 \in DOMAIN files
          /\ files'[i] = files[i + 1]
      BY <1>1, <2>3
    <3>2. CASE j \in 1 .. m /\ newDocs'[j] = newDocs[j]
      BY <1>2, <3>1, <3>2 DEF DropInv
    <3>3. CASE j - m \in DOMAIN files[1] /\ newDocs'[j] = files[1][j - m]
      BY <3>1, <3>3 DEF DropInv, NoTwinsIn
    <3>4. QED BY <2>1, <2>2, <3>2, <3>3
  <2>4. ASSUME NEW i \in DOMAIN newDocs', NEW j \in DOMAIN newDocs',
               newDocs'[i].name = newDocs'[j].name
        PROVE  i = j
    <3>1. 1 \in DOMAIN files
      BY <1>1
    <3>2. CASE i \in 1 .. m /\ j \in 1 .. m
      BY <1>2, <2>2, <2>4, <3>2 DEF DropInv, NoTwins
    <3>3. CASE i > m /\ j > m
      <4>1. i - m = j - m
        BY <1>2, <2>1, <2>2, <2>4, <3>1, <3>3 DEF DropInv, NoTwinsIn
      <4>2. QED BY <1>2, <2>1, <4>1
    <3>4. CASE i \in 1 .. m /\ j > m
      BY <1>2, <2>1, <2>2, <2>4, <3>1, <3>4 DEF DropInv
    <3>5. CASE i > m /\ j \in 1 .. m
      BY <1>2, <2>1, <2>2, <2>4, <3>1, <3>5 DEF DropInv
    <3>6. QED BY <1>2, <2>1, <2>2, <3>2, <3>3, <3>4, <3>5
  <2>5. QED BY <1>3, <2>3, <2>4 DEF DropInv, NoTwins
<1>6. QED BY <1>4, <1>5

LEMMA NextDropInv ==
  ASSUME DropsHaveNoTwins, RebuildInv, DropInv, [RebuildNext]_allVars
  PROVE  DropInv'
<1>1. CASE UNCHANGED <<files, newDocs>>
  BY <1>1 DEF DropInv, NoTwins, NoTwinsIn
<1>2. CASE IngestFiles
  <2>1. files' \in Drops /\ newDocs' = <<>>
    BY <1>2 DEF IngestFiles
  <2>2. QED BY <2>1 DEF DropsHaveNoTwins, DropInv, NoTwins
<1>3. CASE ExtractFile
  <2>1. CASE mCancel
    BY <1>1, <1>3, <2>1 DEF ExtractFile
  <2>2. CASE ~mCancel
    <3>1. files \in Seq(Seq(Document)) /\ newDocs \in Seq(Document)
      BY DEF RebuildInv, Types, RebuildTypeOK
    <3>2. files # <<>> /\ files' = Tail(files)
          /\ newDocs' \in {newDocs, newDocs \o Head(files)}
      BY <1>3, <2>2 DEF ExtractFile
    <3>3. QED BY <3>1, <3>2, ReadingAFile
  <2>3. QED BY <2>1, <2>2
<1>4. CASE Crash
  <2>1. files' = <<>> /\ newDocs' = <<>>
    BY <1>4 DEF Crash
  <2>2. QED BY <2>1 DEF DropInv, NoTwins, NoTwinsIn
<1>5. CASE \/ CancelWorker \/ CancelLoader \/ OnIngestFinished \/ ClearCancel
           \/ EndExtraction \/ PrepareRebuild \/ PrepareRebuildFails \/ Decide
           \/ Swap \/ SwapFails \/ Load \/ Idle \/ UNCHANGED allVars
  BY <1>1, <1>5
     DEF CancelWorker, CancelLoader, OnIngestFinished, ClearCancel,
         EndExtraction, PrepareRebuild, PrepareRebuildFails, Decide, Swap,
         SwapFails, Load, Idle, allVars, rebuildVars
<1>6. CASE \E n \in Names : RemoveDocument(n)
  BY <1>1, <1>6 DEF RemoveDocument
<1>7. QED BY <1>2, <1>3, <1>4, <1>5, <1>6 DEF RebuildNext, WorkerThread

(* No two rows of a rebuild have a name in common.                          *)
LEMMA RowsHaveNoTwins ==
  ASSUME RebuildInv, DropInv, stage = "swap"
  PROVE  NamesDiffer
<1> DEFINE old == InSomeOrder(Kept)
           m == Len(old)
<1>1. Kept \in SUBSET live.docs /\ live.docs \in SUBSET Document
  BY DEF Kept, RebuildInv, Types, RebuildTypeOK
<1>2. IsFiniteSet(Kept)
  BY <1>1, FS_Subset DEF RebuildInv, Types
<1>3. /\ old \in Seq(Document) /\ SetOf(old) = Kept
      /\ \A i, j \in DOMAIN old : old[i] = old[j] => i = j
  BY <1>1, <1>2, SomeOrderIsWhole
<1>4. newDocs \in Seq(Document) /\ rows = old \o newDocs
  BY DEF RebuildInv, Types, RebuildTypeOK, LoaderAtWork
<1> HIDE DEF old
<1>5. /\ m \in Nat /\ Len(newDocs) \in Nat
      /\ DOMAIN old = 1 .. m /\ DOMAIN newDocs = 1 .. Len(newDocs)
      /\ Len(rows) = m + Len(newDocs) /\ Rows = 1 .. m + Len(newDocs)
      /\ \A r \in 1 .. m + Len(newDocs) :
           rows[r] = IF r <= m THEN old[r] ELSE newDocs[r - m]
  BY <1>3, <1>4, ConcatProperties, LenProperties DEF Rows
<1> HIDE DEF m
<1>6. \A r \in Rows :
        \/ r \in DOMAIN old /\ rows[r] = old[r] /\ rows[r] \in Kept
        \/ r > m /\ r - m \in DOMAIN newDocs /\ rows[r] = newDocs[r - m]
             /\ rows[r] \in SetOf(newDocs)
  <2>1. ASSUME NEW r \in Rows, r <= m
        PROVE  r \in DOMAIN old /\ rows[r] = old[r] /\ rows[r] \in Kept
    <3>1. r \in DOMAIN old /\ rows[r] = old[r]
      BY <1>5, <2>1
    <3>2. QED BY <1>3, <3>1 DEF SetOf
  <2>2. ASSUME NEW r \in Rows, ~(r <= m)
        PROVE  /\ r > m /\ r - m \in DOMAIN newDocs
               /\ rows[r] = newDocs[r - m] /\ rows[r] \in SetOf(newDocs)
    <3>1. r > m /\ r - m \in DOMAIN newDocs /\ rows[r] = newDocs[r - m]
      BY <1>5, <2>2
    <3>2. QED BY <3>1 DEF SetOf
  <2>3. QED BY <2>1, <2>2
<1>7. ASSUME NEW r \in Rows, NEW s \in Rows, SameName(r, s)
      PROVE  r = s
  <2>1. rows[r].name = rows[s].name
    BY <1>7 DEF SameName
  <2>2. CASE r \in DOMAIN old /\ rows[r] = old[r] /\ rows[r] \in Kept
    <3>1. rows[s] \notin SetOf(newDocs)
      BY <2>1, <2>2 DEF Kept
    <3>2. s \in DOMAIN old /\ rows[s] = old[s] /\ rows[s] \in Kept
      BY <1>6, <3>1
    <3>3. rows[r] = rows[s]
      BY <1>1, <2>1, <2>2, <3>2 DEF RebuildInv, LiveIsSound
    <3>4. QED BY <1>3, <2>2, <3>2, <3>3
  <2>3. CASE r > m /\ r - m \in DOMAIN newDocs /\ rows[r] = newDocs[r - m]
             /\ rows[r] \in SetOf(newDocs)
    <3>1. rows[s] \notin Kept
      BY <2>1, <2>3 DEF Kept
    <3>2. s > m /\ s - m \in DOMAIN newDocs /\ rows[s] = newDocs[s - m]
      BY <1>6, <3>1
    <3>3. r - m = s - m
      BY <2>1, <2>3, <3>2 DEF DropInv, NoTwins
    <3>4. QED BY <1>5, <3>3
  <2>4. QED BY <1>6, <2>2, <2>3
<1>8. QED BY <1>7 DEF NamesDiffer

(* What the loader has built cuts its passages from the stored texts.       *)
LEMMA RebuiltFromStoredText ==
  ASSUME RebuildInv, DropInv, stage = "swap"
  PROVE  Rebuilt.passages \subseteq Rebuilt.docs
<1>1. SUFFICES ASSUME NEW r \in Staged PROVE r \in stored
  BY DEF Rebuilt
<1>2. r \in Rows /\ indexed[r] > 0
  BY DEF Staged
<1>3. PICK s \in stored : SameName(r, s)
  BY <1>2 DEF RebuildInv, LoaderAtWork, LoaderInv, RowsAreNamed
<1>4. s \in Rows
  BY <1>3 DEF RebuildInv, Types, RebuildTypeOK, TypeOK
<1>5. r = s
  BY <1>2, <1>3, <1>4, RowsHaveNoTwins DEF NamesDiffer
<1>6. QED BY <1>3, <1>5

(***************************************************************************)
(* As long as no drop holds two documents of one name, every passage of a  *)
(* group is cut from a text the group stores.  Where one does, it need not *)
(* be: the first text under a name is stored, the passages of both are.    *)
(***************************************************************************)
THEOREM PassagesHaveTheirText ==
  ASSUME DropsHaveNoTwins
  PROVE  RebuildSpec => []PassagesComeFromStoredText
<1> DEFINE Inv == RebuildInv /\ DropInv /\ PassagesComeFromStoredText
<1>1. RebuildInit => Inv
  <2> SUFFICES ASSUME RebuildInit PROVE Inv
    OBVIOUS
  <2>1. DropInv
    BY DEF RebuildInit, NoWorker, DropInv, NoTwins, NoTwinsIn
  <2>2. PassagesComeFromStoredText
    BY DEF RebuildInit, Schema, PassagesComeFromStoredText
  <2>3. QED BY <2>1, <2>2, InitRebuildInv
<1>2. Inv /\ [RebuildNext]_allVars => Inv'
  <2> SUFFICES ASSUME Inv, [RebuildNext]_allVars PROVE Inv'
    OBVIOUS
  <2>1. RebuildInv' /\ DropInv'
    BY NextRebuildInv, NextDropInv
  <2>2. PassagesComeFromStoredText'
    <3>1. CASE live' = live
      BY <3>1 DEF PassagesComeFromStoredText
    <3>2. CASE stage = "swap" /\ live' = Rebuilt
      BY <3>2, RebuiltFromStoredText DEF PassagesComeFromStoredText
    <3>3. CASE ~active
      <4>1. CASE \E n \in Names : RemoveDocument(n)
        <5>1. PICK n \in Names : RemoveDocument(n)
          BY <4>1
        <5>2. live' = [docs     |-> {d \in live.docs : d.name # n},
                       passages |-> {p \in live.passages : p.name # n},
                       whole    |-> live.whole]
          BY <5>1 DEF RemoveDocument, RebuildInv, Types, RebuildTypeOK
        <5>3. QED BY <5>2 DEF PassagesComeFromStoredText
      <4>2. CASE ~ \E n \in Names : RemoveDocument(n)
        <5>1. live' = live
          BY <3>3, <4>2
             DEF RebuildNext, WorkerThread, IngestFiles, CancelWorker,
                 CancelLoader, OnIngestFinished, ClearCancel, ExtractFile,
                 EndExtraction, PrepareRebuild, PrepareRebuildFails, Decide,
                 Swap, SwapFails, Load, Crash, Idle, allVars, rebuildVars,
                 RebuildInv, ThreadsMatch
        <5>2. QED BY <3>1, <5>1
      <4>3. QED BY <4>1, <4>2
    <3>4. QED BY <3>1, <3>2, <3>3, OnlySwapsChangeTheGroup
  <2>3. QED BY <2>1, <2>2
<1>3. Inv => PassagesComeFromStoredText
  OBVIOUS
<1>4. QED BY <1>1, <1>2, <1>3, PTL DEF RebuildSpec
=============================================================================
