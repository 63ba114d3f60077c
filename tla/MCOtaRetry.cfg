SPECIFICATION Spec
CONSTANTS
  Image = {v1, v2}
  FactoryImage = v1
  Broken = Broken
  NoImage = NoImage
  Chunks = 2
  QueueSize = 3
  MaxEvents = 1
  MaxLeaks = 1
PROPERTIES
  TimeoutIsRetried
