SPECIFICATION PagesSpec
CONSTANTS
  e1 = e1
  e2 = e2
  e3 = e3
  s1 = s1
  g1 = g1
  g2 = g2
  a = a
  b = b
  p = p
  c1 = c1
  c2 = c2
  NoEvent = NoEvent
  NoRequest = NoRequest
  NoPolicy = NoPolicy
  NoPage = NoPage
  PageSize = 1
  Events = {e1, e2, e3}
  Sessions = {s1}
  Groups = {g1, g2}
  Values = {a, b}
  Kinds = {p}
  Callers = {c1, c2}
  MaxSequence = 3
  GroupLimit = 2
  MaxEpoch = 3
  Requests <- MCRequests
  Stamps <- MCStamps
INVARIANTS FencesHold PagesTell
PROPERTIES NoStoreAfterRevocation StoredInOrder ForgottenStaysForgotten
SYMMETRY AnyCaller
VIEW Live
