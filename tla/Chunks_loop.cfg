CONSTANTS
  SourceLength = 5
  Sources <- MCSources
  MaxWords = 3
  Floor = 2
SPECIFICATION ChunkSpec
INVARIANT SpansTileTheSource
INVARIANT BudgetOpensNoStructure
PROPERTY CutToTheEnd
CHECK_DEADLOCK FALSE
