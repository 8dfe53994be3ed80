SPECIFICATION Spec
CONSTANTS
  Path <- MCPath
  Cases <- MCCases
  SizeLimit = 2
  MaxChanges = 2
  MaxFaults = 1
  Absent = Absent
INVARIANTS LoadsSound DescriptorsClosed ReportHonest
CHECK_DEADLOCK FALSE
VIEW Live
