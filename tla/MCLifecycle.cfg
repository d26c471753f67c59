SPECIFICATION LifeSpec
CONSTANTS
  Connections = {c1, c2}
CHECK_DEADLOCK FALSE
INVARIANTS
  CoordinatorUsesLiveObjects
  ChannelsAreFreedOnce
PROPERTIES
  SignalEndsServer
