SPECIFICATION Spec
CONSTANTS
  Routers = {0, 1}
  Links = {0}
  NShards = 2
  MaxGeneration = 3
  SavedGeneration = 3
  SavedRouters = {0, 1}
  SavedLinks = {0}
  Speeds = {1, 2}
  DefaultSpeed = 1
  CableSpeeds = {0, 2}
  RingFrames = 1
  WorkBudget = 1
  MaxFrames = 2
  MaxEdits = 3
INVARIANTS
  NoMisdelivery
  BarrierComplete
  RegistriesAgree
  BindingsReciprocal
  CarrierTruthful
CHECK_DEADLOCK FALSE
