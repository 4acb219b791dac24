SPECIFICATION Spec
CONSTANTS
  Byte = {a, b}
  Capacity = 4
  MaxLen = 3
INVARIANTS
  TypeOK
  NoLostWakeup
PROPERTIES
  FifoImplemented
