----------------------------- MODULE CorpusStore -----------------------------
(***************************************************************************)
(* What ingesting into a document group promises, with the loader, its     *)
(* threads, the scratch schema and the cancel flags out of sight: a group  *)
(* is a set of documents; an ingest takes effect at one instant or not at  *)
(* all; it installs nothing but documents the group had and documents it   *)
(* was offered, the offered ones replacing those of the same name; and a   *)
(* document the user removes stays removed.                                *)
(***************************************************************************)
EXTENDS Naturals

CONSTANTS Names, Texts

VARIABLES
  content,   (* the documents of the group                                  *)
  offered,   (* the documents the running ingest brings                     *)
  running    (* whether an ingest is at work                                *)

storeVars == <<content, offered, running>>

StoredDocument == [name : Names, text : Texts]

StoreInit ==
  /\ content \subseteq StoredDocument
  /\ offered = {}
  /\ running = FALSE

Merged ==
  {d \in content : \A o \in offered : o.name # d.name} \union offered

Offer(D) ==
  /\ ~running
  /\ running' = TRUE
  /\ offered' = D
  /\ UNCHANGED content

Install ==
  /\ running
  /\ running' = FALSE
  /\ content' \in SUBSET Merged
  /\ offered' = {}

Abandon ==
  /\ running
  /\ running' = FALSE
  /\ offered' = {}
  /\ UNCHANGED content

Remove(n) ==
  /\ ~running
  /\ content' = {d \in content : d.name # n}
  /\ UNCHANGED <<offered, running>>

StoreNext ==
  \/ \E D \in SUBSET StoredDocument : Offer(D)
  \/ Install
  \/ Abandon
  \/ \E n \in Names : Remove(n)

StoreSpec == StoreInit /\ [][StoreNext]_storeVars
=============================================================================
