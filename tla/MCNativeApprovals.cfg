SPECIFICATION Spec
CONSTANTS
  MaxSequence = 3
  Events <- MCSequences
  Sessions = {s1, s2}
  Groups = {"general"}
  Values = {"short", "detailed"}
  Kinds = {"preference"}
  GroupLimit = 3
  NoEvent = NoEvent
  Texts <- Approving
  AskedAt = {1}
  Questions = {}
  Outside <- OtherShort
  OutsideModes = {}
  MaxEpoch = 2
  MaxEvictions = 1
  AnyGroup = AnyGroup
  None = None
  Window = 3
PROPERTIES NoOutdatedApproval ApprovalsStayInSession AnsweredOnceInTime
VIEW Live
SYMMETRY AnySession
