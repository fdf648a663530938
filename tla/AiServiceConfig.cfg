SPECIFICATION ServiceSpec
CONSTANTS
  Threads = {t1, t2}
  Conversations = {c1, c2, c3}
  Users = {u1, u2}
  c1 = c1
  c2 = c2
  c3 = c3
  u1 = u1
  u2 = u2
  Owner <- TwoOwners
  Keys = {k1}
  NoKey = NoKey
  Limit = 1
  ContentLength <- Lengths
  SystemLength = 200
  TokenBudget = 100
  MaxMessages = 3
  m1 = m1
  m2 = m2
  x1 = x1
  x2 = x2
  Callers = {x1, x2}
  CallsOf <- Calls
  Fates <- Outcomes
  Attempts = 2
  Catalogs <- CatalogHistory
  Wanted = m2
INVARIANT ConfigErrorsFail
CHECK_DEADLOCK FALSE
