SPECIFICATION MCSpec
CONSTANTS
  LineWords = 2
  MemAddrs <- MCMemAddrs
  DmaBase <- MCDmaBase
  Ops <- MCOps
  InitialMem <- MCInitialMem
INVARIANTS TypeOK ResponsesAreOwned ResponsesAreCurrent DmaCopiesInOrder MasterOvertakenOnce FetchOvertakenByOneFill
PROPERTIES DmaFollowsDiagram AccessesAreAtomic EveryAccessAnswered DmaTransferEnds
