SPECIFICATION Spec
CONSTANTS
  WordSize = 4
  Width = 2
  Children = {1, 2, 3}
  MaximumChildren = 2
  SadCapacity = 5
  HardPackets = 2
  MaximumUnanswered = 1
  Esn = {TRUE, FALSE}
  MaxSent = 4
INVARIANTS
  FreshPacketAdmitted
  WindowSummarises
  SadHoldsWholePairs
  BindingsInstalled
  ClosedLeavesNothing
PROPERTY
  NoReplay
CHECK_DEADLOCK FALSE
