SPECIFICATION FairSpec
CONSTANTS
  Batches = 3
  Size <- OneTwoOne
  Workers = 2
  Retries = 2
  RateRetries = 1
  Cues <- SomeCues
  Answers <- SomeAnswers
  Texts <- SomeTexts
  Limits <- SomeLimits
  Replies <- SomeReplies
  PlainFiles <- SomePlainFiles
  AssFiles <- SomeAssFiles
INVARIANTS
  ResultsComplete
  RefusalEndsTheCall
  RequestsBounded
PROPERTIES
  MarkupKept
  EchoKeepsCue
  LinesFit
  AnswersMapped
  FilesKept
  EverythingEnds
CHECK_DEADLOCK FALSE
