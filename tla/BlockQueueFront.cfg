SPECIFICATION Spec
CONSTANTS
  Items = {x1, x2}
  Threads = {t1}
  MaxSize = 3
  NoItem = NoItem
PROPERTY FrontIsOldest
