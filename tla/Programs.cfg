SPECIFICATION Spec
CONSTANTS
  Threads = {t1, t2, t3}
  Rounds = 3
  Fds <- MCFds
  Cap = 4
  Round = 2
  MaxPort = 2
  MaxInbox = 1
  MaxLength = 4
  Chunk = 2
  Budget = 2
  Letter = {97}
  MaxHost = 4
  Labels <- MCLabels
  Addresses <- MCAddresses
  MaxAnswers = 2
  Images <- MCImages
  NULL = NULL
  BufferLength = 3
  MaxRows = 3
  N = 19
  Key = {"a", "b", "c"}
  Position <- MCPosition
INVARIANTS NeverAhead TwoSurvive OpenAreCounted EventsAreOpen SavedIsReceived
           QueryIsEncoded ListIsAnswer CopyIsStored NoFalseNegatives
PROPERTIES Finishes Ends
