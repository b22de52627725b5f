SPECIFICATION FairSpec
CONSTANTS
  Lines <- MCLines
  NoLine = NoLine
  LastBeat = 1
  Indices = {0}
  IndexOf <- MCIndexOf
  Words = {0, 1}
  Zero = 0
  Cacheable <- MCCacheable
  Cells <- MCCells
  CellOf <- MCCellOf
  Readable <- MCReadable
  Writable <- MCWritable
  Fetches <- MCFetches
  Requests <- MCRequests
  DmaWrites <- MCDmaWrites
  InitialMem <- MCInitialMem
INVARIANTS TypeOK SequencersExclusive LinesAgree LoadsAreCurrent
PROPERTIES CachesFollowDiagrams ImplementsNoncoherentMemory EveryRequestAnswered
