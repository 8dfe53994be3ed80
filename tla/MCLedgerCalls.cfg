SPECIFICATION FairSpec
CONSTANTS
  t1 = t1
  t2 = t2
  t3 = t3
  p1 = p1
  p2 = p2
  Threads = {t1, t2, t3}
  Processes = {p1, p2}
  ProcessOf <- MCProcessOf
  Items = {x}
  Kinds = {"put", "read"}
  Inodes = {n1, n2, n3}
  MaxOrphans = 1
  Leftovers = 2
  MaxFaults = 1
  Absent = Absent
  Torn = Torn
  Nobody = Nobody
PROPERTIES CallsReturn
VIEW Live
