---------------------------- MODULE MCBulkIngest ----------------------------
(* Small instances of BulkIngest for TLC.                                   *)
EXTENDS BulkIngest, TLC

CONSTANTS a, b, c, d, e, v1, v2

Doc(n, t) == [name |-> n, text |-> t]

(* Distinct names: what a rebuild without repeated file names writes.       *)
DistinctInputs ==
  {<<>>, <<Doc(a, v1), Doc(b, v1), Doc(c, v1), Doc(d, v1), Doc(e, v1)>>}

(* Repeated names, in opposite orders in two batches and within one batch.  *)
RepeatedInputs ==
  {<<Doc(a, v1), Doc(b, v1), Doc(b, v2), Doc(a, v2)>>,
   <<Doc(a, v1), Doc(a, v2), Doc(b, v1)>>}

AllInputs == DistinctInputs \union RepeatedInputs
=============================================================================
