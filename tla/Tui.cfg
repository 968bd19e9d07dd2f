\* Batches of two orders, every third one published; reset above 18 of 20.
SPECIFICATION Spec
CONSTANTS
  Capacity = 20
  BATCH_SIZE = 2
  PUBLISH = 3
INVARIANTS
  TypeOK
  NeverFull
  FrameAtomic
  FrameFresh
  UsedNotOlder
PROPERTIES
  EngineRuns
  FrameDrawn
