SPECIFICATION ChunkingSpec
CONSTANTS
  MaxItems = 5
  MaxElements = 3
  Levels = {1, 2}
  MaxTokens = 3
  OverlapTokens = 2
  MaxSentences = 2
  MaxOversize = 5
INVARIANTS
  PartitionTiles
  ChunkSize
  NoGap
  HeaderScope
