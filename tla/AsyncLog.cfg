SPECIFICATION Spec
CONSTANTS
  Writers = {w1, w2}
  LinesEach = 2
  QueueSize = 2
  SplitLines = 2
  Days = 2
  None = None
INVARIANTS ExactlyOnce FlushedIsWritten WriterOrder SplitBound
PROPERTY QueuedArrives
CHECK_DEADLOCK FALSE
