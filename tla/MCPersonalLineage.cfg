SPECIFICATION Spec
CONSTANTS
  e1 = e1
  e2 = e2
  e3 = e3
  e4 = e4
  s1 = s1
  g1 = g1
  g2 = g2
  a = a
  b = b
  p = p
  q = q
  c1 = c1
  NoEvent = NoEvent
  NoRequest = NoRequest
  NoPolicy = NoPolicy
  Events = {e1, e2, e3, e4}
  Sessions = {s1}
  Groups = {g1, g2}
  Values = {a, b}
  Kinds = {p, q}
  Callers = {c1}
  MaxSequence = 4
  GroupLimit = 3
  MaxEpoch = 2
  Requests <- MCRequests
  Stamps <- MCStamps
INVARIANTS StoreNeverRaises ActiveViewsAgree LineageReachable
