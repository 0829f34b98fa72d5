\* Integers of four bits, groups of two values: a run of groups is padded by one, and
\* a miniblock of deltas too.
SPECIFICATION Spec
CONSTANTS
  Files <- MCFiles
  RowGroupSize = 2
  Chunks <- MCChunks
  W = 4
  GROUP = 2
INVARIANTS LoadedIsWritten OnlyBeyondTheSample ChunkIsWritten
CHECK_DEADLOCK FALSE
