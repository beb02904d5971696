SPECIFICATION FairSpec
CONSTANTS
  s1 = s1  s2 = s2  u1 = u1  u2 = u2  c1 = c1  c2 = c2  c3 = c3
  Users = {u1, u2}
  Servers = {s1, s2}
  Conns = {c1, c2, c3}
  Msgs = {m1}
  Home <- MCHome
  GroupUsers <- MCGroup
  None = None
  Overlap = FALSE
  Stops = FALSE
  MaxEvents = 3
INVARIANTS SettledAgree AwayAgree NoLossWhenCalm
CHECK_DEADLOCK FALSE
PROPERTIES CalmArrives
