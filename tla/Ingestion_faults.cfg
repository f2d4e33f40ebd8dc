SPECIFICATION FairSpec
CONSTANTS
  Root = "root"
  Files <- MCFiles
  EntriesOf <- MCEntriesOf
  DocsOf <- MCDocsOf
  ChunksOf <- MCChunksOf
  Registered = {"a.pdf", "b.pdf"}
  Pair = 2
  Rows = 3
  Capacity = 1
  MaxFaults = 2
  OtherWriter = TRUE
INVARIANTS
  EveryFileAndChunkOnce
PROPERTIES
  RowsKept
  IngestionEnds
