\* Three pages in two frames: every policy must evict.
CONSTANTS
  npages = 3
  nframes = 2
  v0 = v0
  v1 = v1
  Values <- TwoValues
  Policies <- AllPolicies
  Zero = v0
  NoAccess = NoAccess
  MaxReads = 5
  MaxNotUsed = 1
SPECIFICATION Spec
CHECK_DEADLOCK FALSE
INVARIANTS TypeOK NoAbort ResidencyAgrees CleanFrameMatchesDisk UnusedFramesTrapped FifoOrder
PROPERTY ImplementsFlatMemory
