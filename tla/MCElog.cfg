\* 12 cells: full at 8, the first 4 are dropped.
CONSTANTS
  LogSize = 12
  Header = 1
  MaxEvent = 2
  ShrinkSize = 4
  UserEvents <- MCUserEvents
  MaxResets = 2
  MaxFaults = 1
SPECIFICATION Spec
INVARIANTS TypeOK RoomLeft Coherent
PROPERTIES ImplementsLog
