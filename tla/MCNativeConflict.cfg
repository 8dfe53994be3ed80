SPECIFICATION Spec
CONSTANTS
  MaxSequence = 3
  Events <- MCSequences
  Sessions = {s1}
  Groups = {"general"}
  Values = {"short", "detailed"}
  Kinds = {"preference"}
  GroupLimit = 3
  NoEvent = NoEvent
  Texts <- Approving
  AskedAt = {1}
  Questions = {}
  Outside <- OtherDetailed
  OutsideModes = {}
  MaxEpoch = 2
  MaxEvictions = 0
  AnyGroup = AnyGroup
  None = None
  Window = 3
PROPERTIES ConflictsNeverStored
VIEW Live
