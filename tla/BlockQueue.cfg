SPECIFICATION Spec
CONSTANTS
  Items = {x1, x2}
  Threads = {t1, t2, t3}
  MaxSize = 3
  NoItem = NoItem
INVARIANT NoSleepOnItems
PROPERTY ImplementsFifo
