SPECIFICATION Spec
CONSTANTS
  Fds = {1, 2}
  Workers = {w1}
  MaxUsers = 2
  MaxRequests = 2
INVARIANT KeepsSocket
