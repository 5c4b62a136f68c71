\* The region of MCRegionFile.cfg; erases may be cut short.
CONSTANTS
  RegionBlocks = 6
  SlotsPerBlock = 3
  SectorBlocks = 3
  Unallocated = 7
  Updates <- MCUpdates
  AndWord <- MCAndWord
  TornWord <- MCTornWord
SPECIFICATION Spec
INVARIANTS ReturnsLatestAlways
