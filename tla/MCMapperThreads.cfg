SPECIFICATION Spec
CONSTANTS
  Groups = {g1, g2}
  Handles = {h1, h2}
  NoHandle = NoHandle
  Clients = {c1, c2}
INVARIANTS
  UncontestedIsExclusive
  LoopWalksSettledMap
PROPERTIES
  CallsAreServed
  CallsReturn
