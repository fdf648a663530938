SPECIFICATION Spec
CONSTANTS
  Threads = {t1, t2}
  Conversations = {c1}
  Users = {u1}
  c1 = c1
  c2 = c2
  c3 = c3
  u1 = u1
  u2 = u2
  Owner <- OneOwner
  Keys = {k1}
  NoKey = NoKey
  Limit = 2
  ContentLength <- Lengths
  SystemLength = 200
  TokenBudget = 100
  MaxMessages = 3
CHECK_DEADLOCK FALSE
INVARIANT ContextIsolated
