SPECIFICATION Spec
CONSTANTS
  Groups = {g1, g2, g3}
  Handles = {h1, h2, h3}
  NoHandle = NoHandle
INVARIANTS
  Exclusive
  StaleBufferIsFlagged
PROPERTIES
  FrameUsesOwnBuffer
  ImplementsDrivers
