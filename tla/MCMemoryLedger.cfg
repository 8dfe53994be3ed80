SPECIFICATION RecordsSpec
CONSTANTS
  r1 = r1
  r2 = r2
  r3 = r3
  p1 = p1
  p2 = p2
  s1 = s1
  s2 = s2
  v = v
  w = w
  k = k
  Ids = {r1, r2, r3}
  Profiles = {p1, p2}
  Sessions = {s1, s2}
  Keys = {k}
  Values = {v, w}
  MaxTime = 2
  NoSession = NoSession
  Candidates <- MCCandidates
INVARIANTS IdsNameOneRecord NeverBothShown
PROPERTIES HiddenStaysHidden ScopesIndependent
CHECK_DEADLOCK FALSE
