\* Three calls over two slots.
CONSTANTS
  Calls <- ThreeCalls
  Limit = 2
SPECIFICATION FairSpec
INVARIANTS
  TypeOK
  SlotsBounded
PROPERTIES
  SlotsFreed
CHECK_DEADLOCK FALSE
