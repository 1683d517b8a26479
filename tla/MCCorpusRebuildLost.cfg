\* One worker loses its connection.
SPECIFICATION RebuildSpec
CONSTANTS
  a = a  b = b  v1 = v1  v2 = v2
  Workers = {w1, w2}
  Names = {a, b}
  Texts = {v1, v2}
  Inputs <- NoInputs
  BatchSize = 1
  Retries = 3
  FaultKinds = {"connection"}
  MaxFaults = 1
  InitialDocuments <- GroupWithOne
  Drops <- MixedDrop
  MaxIngests = 1
  MaxCrashes = 0

PROPERTY IngestKeepsDocuments
