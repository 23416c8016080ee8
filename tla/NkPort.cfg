CONSTANTS
  Depth = 3
  Messages = {m1, m2, m3}
  Oversize = {big}
  NoMessage = zero
SPECIFICATION NkSpec
INVARIANTS
  RingConsistent
PROPERTIES
  ImplementsFifo
