\* Two ingests of distinct documents with cancels, a crash and every fault.
SPECIFICATION RebuildSpec
CONSTANTS
  a = a  b = b  v1 = v1  v2 = v2
  Workers = {w1, w2}
  Names = {a, b}
  Texts = {v1, v2}
  Inputs <- NoInputs
  BatchSize = 1
  Retries = 2
  FaultKinds = {"statement", "connection"}
  MaxFaults = 2
  InitialDocuments <- GroupWithOne
  Drops <- DistinctDrops
  MaxIngests = 2
  MaxCrashes = 1
INVARIANTS
  CancelledIsLossless
  FailedIsAllOrNothing
  TimelyCancelWins
  NoFailureWithoutFault
  NoStaleCancel
  LiveIndexIsWhole
  PassagesComeFromStoredText
PROPERTIES
  OnlySkippedDocumentsDisappear
  ImplementsCorpusStore
  EveryIngestIsReported
