SPECIFICATION Spec
CONSTANTS
  s1 = s1  s2 = s2  u1 = u1  u2 = u2  c1 = c1  c2 = c2  c3 = c3
  Users = {u1, u2}
  Servers = {s1, s2}
  Conns = {c1, c2, c3}
  Msgs = {m1}
  Home <- MCHome
  GroupUsers <- MCGroup
  None = None
  Overlap = TRUE
  Stops = TRUE
  MaxEvents = 4
SYMMETRY Symmetry
INVARIANTS TypeOK TabledSessions OnlyAddressees LockHolder
PROPERTY LockGuardsTable
CHECK_DEADLOCK FALSE
