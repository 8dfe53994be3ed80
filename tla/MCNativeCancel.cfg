SPECIFICATION Spec
CONSTANTS
  MaxSequence = 3
  Events <- MCSequences
  Sessions = {s1}
  Groups = {"general"}
  Values = {"short", "detailed"}
  Kinds = {"preference"}
  GroupLimit = 3
  NoEvent = NoEvent
  Texts <- Cancelling
  AskedAt = {1}
  Questions = {}
  Outside <- Nothing
  OutsideModes = {}
  MaxEpoch = 2
  MaxEvictions = 0
  AnyGroup = AnyGroup
  None = None
  Window = 3
PROPERTIES CancelledStaysCancelled
VIEW LiveAndCancelled
