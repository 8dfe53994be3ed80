SPECIFICATION Spec
CONSTANTS
  MaxSequence = 3
  Events <- MCSequences
  Sessions = {s1}
  Groups = {"general"}
  Values = {"short", "detailed"}
  Kinds = {"preference"}
  GroupLimit = 3
  NoEvent = NoEvent
  Texts <- Restricting
  AskedAt = {1}
  Questions = {q}
  Outside <- Nothing
  OutsideModes = {"no_save", "no_recall"}
  MaxEpoch = 2
  MaxEvictions = 1
  AnyGroup = AnyGroup
  None = None
  Window = 3
INVARIANTS WhyIsCurrent
PROPERTIES OnlyAnswersExpand NoSaveHonoured ContextHonoured
VIEW Live
