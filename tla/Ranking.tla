------------------------------ MODULE Ranking ------------------------------
(***************************************************************************)
(* Scoring and choosing passages (bm25.c, reranker.c): a result list that  *)
(* is filled term by term through a hash index over passage numbers, the   *)
(* bonus for passages that match several terms, the reranker's fusion of   *)
(* two orders, and the cut to what the model may be given.                 *)
(* Scores are integers in the order of the code's: a term's score grows    *)
(* with its frequency and shrinks with the number of passages it is in.    *)
(***************************************************************************)
EXTENDS Integers, Sequences, FiniteSets, SequencesExt, FiniteSetsExt

CONSTANTS
  FirstCapacity,   (* slots of a fresh index                                *)
  Hash,            (* bm25_hash_passage_id, as a function                   *)
  FullWeight, ExpansionWeight,  (* of the question's terms, of added ones   *)
  CoordBonus,      (* for each further term matched, in parts of a whole    *)
  FloorNum, FloorDen,           (* score_floor_ratio                        *)
  CandidateCeiling, MaxPassages, TokenBudget,
  RrfScale, RrfK   (* 1 / (RrfK + rank), as a part of RrfScale              *)

ASSUME RankingAssumption ==
  /\ {FirstCapacity, FullWeight, ExpansionWeight, FloorDen, MaxPassages,
      CandidateCeiling, RrfScale, RrfK} \subseteq Nat \ {0}
  /\ {CoordBonus, FloorNum, TokenBudget} \subseteq Nat
  /\ FloorNum <= FloorDen

-----------------------------------------------------------------------------
(* The result list and its index: open addressing, every slot of an index   *)
(* free or holding a passage and its place in the list.                     *)

Free == [passage |-> 0, item |-> 0]

FreshIndex(capacity) == [slot \in 0 .. capacity - 1 |-> Free]

EmptyResults == [items |-> <<>>, index |-> FreshIndex(FirstCapacity)]

Capacity(index) == Cardinality(DOMAIN index)

(* Mutant: whatever sits where the passage hashes to is taken for it.       *)
FindHome(index, passage) == Hash[passage] % Capacity(index)

(* From where the passage hashes to, the first slot that is free or its own *)
FindSlot(index, passage) ==
  LET n == Capacity(index)
      At(k) == (Hash[passage] + k) % n
      stops == {k \in 0 .. n - 1 : index[At(k)].passage \in {0, passage}}
  IN  At(Min(stops))

(* Twice the slots; where a passage goes depends on how many there are.     *)
Grow(index) ==
  FoldSet(LAMBDA slot, grown : [grown EXCEPT ![FindSlot(grown, slot.passage)] = slot],
          FreshIndex(2 * Capacity(index)),
          {index[s] : s \in {t \in DOMAIN index : index[t] # Free}})

Insert(index, passage, item) ==
  LET count == Cardinality({s \in DOMAIN index : index[s] # Free})
      room == IF (count + 1) * 10 >= Capacity(index) * 7 THEN Grow(index) ELSE index
  IN  [room EXCEPT ![FindSlot(room, passage)] = [passage |-> passage, item |-> item]]

(* A passage that is there already is scored up, and counts a term more.    *)
AddScore(results, passage, score) ==
  LET slot == FindSlot(results.index, passage)
      found == results.index[slot]
  IN  IF found # Free
      THEN [results EXCEPT !.items[found.item].score = @ + score,
                           !.items[found.item].matched = @ + 1]
      ELSE [items |-> Append(results.items,
                             [passage |-> passage, score |-> score, matched |-> 1]),
            index |-> Insert(results.index, passage, Len(results.items) + 1)]

(* postings: a sequence of rows [passage, frequency], in the server's order *)
TermScore(total, rows, frequency) == (total - Len(rows) + 1) * frequency

Accumulate(results, rows, weight, total) ==
  FoldLeft(LAMBDA r, row :
             AddScore(r, row.passage, weight * TermScore(total, rows, row.frequency)),
           results, rows)

-----------------------------------------------------------------------------
(* score * (1 + bonus * (matched - 1) / (terms - 1)), times terms - 1.      *)
WithCoordination(items, terms) ==
  IF terms < 2 THEN items
  ELSE [i \in DOMAIN items |->
         [items[i] EXCEPT !.score = @ * (terms - 1 + CoordBonus * (items[i].matched - 1))]]

(* Ties go to the lower passage number.                                     *)
Ahead(a, b) == a.score > b.score \/ (a.score = b.score /\ a.passage < b.passage)

(* The k-th of a sorted list has k - 1 others ahead of it.                  *)
Sorted(items) ==
  LET all == ToSet(items)
  IN  [k \in 1 .. Cardinality(all) |->
         CHOOSE item \in all :
           Cardinality({other \in all : Ahead(other, item)}) = k - 1]

TopK(items) == SubSeq(items, 1, Min({Len(items), CandidateCeiling}))

Ranked(items, terms) == TopK(Sorted(WithCoordination(items, terms)))

(* Reciprocal-rank fusion of the list's order and the order of similarity:  *)
(* closest[r] is the place in the list of the r-th most similar passage.    *)
(* With fewer than two passages nothing is done, and the scores stay.       *)
RankPart(rank) == RrfScale \div (RrfK + rank)

Rescored(items, closest) ==
  IF Len(items) < 2 THEN items
  ELSE Sorted([i \in DOMAIN items |->
         [items[i] EXCEPT !.score =
            RankPart(i) + RankPart(CHOOSE r \in DOMAIN closest : closest[r] = i)]])

(* The longest head of the list that keeps to the number of passages, the   *)
(* floor below the best score and the budget of tokens; the best passage is *)
(* within the budget whatever its length.                                   *)
(* tokens[p]: the length of a passage, 0 when it cannot be fetched.         *)
Trimmed(items, tokens, floored) ==
  LET Sum(k) == FoldLeft(LAMBDA n, item : n + tokens[item.passage], 0, SubSeq(items, 1, k))
      Stays(k) == /\ k <= MaxPassages
                  /\ ~floored \/ items[k].score * FloorDen >= items[1].score * FloorNum
                  /\ k = 1 \/ Sum(k) <= TokenBudget
      stays == {k \in DOMAIN items : \A j \in 1 .. k : Stays(j)}
  IN  SubSeq(items, 1, Cardinality(stays))
=============================================================================
