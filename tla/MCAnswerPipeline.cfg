SPECIFICATION Spec
CONSTANTS
  Stopwords <- MCStopwords
  Exceptions <- MCExceptions
  DataFiles <- MCDataFiles
  SynonymRows <- MCSynonymRows
  Documents <- MCDocuments
  Questions <- MCQuestions
  Rewritings <- MCRewritings
  Replies <- MCReplies
  Hash <- MCHash
  FirstCapacity = 2
  FullWeight = 5
  ExpansionWeight = 2
  CoordBonus = 1
  FloorNum = 1
  FloorDen = 2
  CandidateCeiling = 3
  MaxPassages = 2
  TokenBudget = 2
  RrfScale = 226920
  RrfK = 60
  CsvFiles <- MCCsvFiles
  AnyFiles <- MCAnyFiles
  ChunkSizes = {0, 1, 2, 3}
  Overlaps = {0, 1, 2}
  NCtx = 10
  MaxNew = 3
  Headroom = 2
  RouterReserve = 4
  ContextualizeReserve = 5
  BytesPerToken = 3
  ExcerptsPerDoc = 3
  MinExcerpt = 2
  Markup = 1
  ConverseHead = 1
  Turn <- MCTurn
  Prompt <- MCPrompt
  MaxHistory = 3
  TextSizes = {1, 2, 3, 5, 6, 7, 8, 9, 12}
  MaxReply = 6
  MaxPiece = 2
INVARIANTS
  DocumentsAreReadWhole
  SearchKeepsTheQuestion
  BestPassagesSurvive
  PromptFitsTheContext
  ShownTextIsTheReply
