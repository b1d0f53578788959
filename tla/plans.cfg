SPECIFICATION Spec
CONSTANTS
  BlockSize = 2
  ChunkBlocks = 2
  NumLayers = 2
  NumBlocks = 5
  Layouts <- SmallLayouts
  Tables <- SmallTables
  Ranges <- SmallRanges
  Skips = {0, 1, 4, 5}
  Pipelines = {TRUE, FALSE}
  MaxFaults = 1
  None = None
  Raised = Raised
  Old = Old
INVARIANTS TokensLand OthersUntouched PlansExecutable
