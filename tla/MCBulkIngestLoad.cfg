\* Three batches for two threads; repeated names in opposite orders; every fault.
SPECIFICATION Spec
CONSTANTS
  a = a  b = b  c = c  d = d  e = e  v1 = v1  v2 = v2
  Workers = {w1, w2}
  Names = {a, b, c, d, e}
  Texts = {v1, v2}
  Inputs <- AllInputs
  BatchSize = 2
  Retries = 2
  FaultKinds = {"statement", "connection"}
  MaxFaults = 2
INVARIANTS
  TypeOK
  RowLedger
  RowsIndexedAtMostOnce
  OneTextPerName
  EveryRowAccountedFor
  SuccessLeavesWholeIndex
  CancelLandsWithinOneBatch
  FailureIsContained
PROPERTY Terminates
