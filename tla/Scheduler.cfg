CONSTANTS
  Worker = {0, 1, 2}
  NoJob = NoJob
  QSize = 5
  Start = 0
  End = 5
  Modes <- SomeModes
  Measured = {1, 3}
SPECIFICATION Spec
INVARIANTS OwnJobIsRight NoDanglingJob
PROPERTIES ImplementsParallelFor ShutsDown
