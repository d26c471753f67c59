SPECIFICATION Spec
CONSTANTS
  Versions = {v1, v2}
  NoVersion = NoVersion
  Users = {u1, u2, u3}
  Main = main
  Timer = timer
  Nobody = nobody
INVARIANTS
  NeverTorn
  VersionMeansComplete
  ThreadsFindSchema
  WaitsEnd
PROPERTIES
  CheckpointsGoOn
  DestructorEnds
