SPECIFICATION Spec
CONSTANTS
  Foreign = {3}
  Home = 1
  MaxForeign = 1
  HeaderCapacity = 1
  MaxFaults = 1
INVARIANTS TurnNeverRejected NothingForgotten FullHasDescribed
PROPERTIES AdjacencyRecovers LoadingEnds
