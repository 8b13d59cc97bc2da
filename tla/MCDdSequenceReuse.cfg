SPECIFICATION Spec
CONSTANTS
  Foreign = {3}
  Home = 1
  MaxForeign = 1
  HeaderCapacity = 1
  MaxFaults = 2
INVARIANT RequestsAnswerable
