SPECIFICATION FairSpec
CONSTANTS
  Requests <- AllRequests
  PreviewAnswers = {"continue","204","206","error"}
  EndAnswers = {"done","204","206","error"}
  EchoCap = 5
  ChunkMax = 2
  FAKE_ALLOW204 = TRUE
  ALLOW204_AS_200OK_ZERO_ENCAPS = FALSE
INVARIANTS
  AnswerInOrder
  DoneIsWhole
  ServiceGetsAll
PROPERTIES
  RequestEnds
