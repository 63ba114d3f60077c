SPECIFICATION FairSpec
CONSTANTS
  Image = {v1, v2}
  FactoryImage = v1
  Broken = Broken
  NoImage = NoImage
  Chunks = 2
  QueueSize = 1
  MaxEvents = 1
  MaxLeaks = 1
INVARIANTS
  TypeOK
  RunningIsIntact
  SuccessAwaitsRestart
PROPERTIES
  RestartRunsPromised
  CountDownIsToRestart
  SuccessRestarts
  UploadEnds
  QuestionAnswered
