SPECIFICATION Spec
CONSTANTS
  g1 = g1  g2 = g2  n1 = n1  n2 = n2  x = x  y = y  p = p  t = t  u = u
  Groups = {g1, g2}
  Names = {n1, n2}
  Texts = {x, y, p}
  Terms = {t, u}
  Mentions <- MCMentions
  Question = {t}
  Uploads <- MCUploads
  PublicDocuments <- MCPublicDocuments
  NoGroup = NoGroup
  MaxIngests = 2
  MaxRemovals = 1
  MaxQueries = 2
SYMMETRY Symmetry
INVARIANTS
  GroupTypeOK
  GrowingGroupServesItsSummary
  SourcesAreWhatWasRead
  AnswersStayInTheirGroup
CHECK_DEADLOCK FALSE
