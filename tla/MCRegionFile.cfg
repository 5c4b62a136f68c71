\* 6 blocks of 3 words in 2 sectors, with 3-bit block offsets.
CONSTANTS
  RegionBlocks = 6
  SlotsPerBlock = 3
  SectorBlocks = 3
  Unallocated = 7
  Updates <- MCUpdates
  AndWord <- MCAndWord
  TornWord <- MCTornWord
SPECIFICATION Spec
INVARIANTS TypeOK NoOverprogram ReturnsLatest OneErasePerUpdate
PROPERTIES UpdateTerminates ImplementsStore
