SPECIFICATION Spec
CONSTANTS
  Limit = 12
  IntBits = 4
PROPERTIES     NumbersRight
INVARIANTS SynchronizedSound EventsSound
CHECK_DEADLOCK FALSE
