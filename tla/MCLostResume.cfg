SPECIFICATION Spec
CONSTANTS
  Routers = {0}
  Links = {}
  NShards = 1
  MaxGeneration = 3
  SavedGeneration = 3
  SavedRouters = {}
  SavedLinks = {}
  Speeds = {1}
  DefaultSpeed = 1
  CableSpeeds = {0}
  RingFrames = 1
  WorkBudget = 1
  MaxFrames = 0
  MaxEdits = 2
PROPERTY ProcessingResumes
CHECK_DEADLOCK FALSE
