SPECIFICATION MCSpec
CONSTANTS
  LineWords = 2
  MemAddrs <- MCMemAddrs
  DmaBase <- MCDmaBase
  Ops <- MCOps
  InitialMem <- MCInitialMem
INVARIANT StatusIsExclusive
