SPECIFICATION FairSpec
CONSTANTS
  Fds = {1, 2, 3}
  Workers = {w1, w2}
  MaxUsers = 2
  MaxRequests = 2
INVARIANTS OneOwner CountIsOpen NothingRefused PermitsMatch
PROPERTIES ComesBack TakesTurns
CHECK_DEADLOCK FALSE
