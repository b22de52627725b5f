SPECIFICATION FairSpec
CONSTANTS
  Bits <- MCBits
  Depth = 2
  MaxPayload = 2
  MagicWords <- MCMagicWords
  Devices <- MCDevices
  Jobs <- MCJobs
  Retries = 1
  Mishaps <- MCMishaps
INVARIANTS TypeOK HostBelievesTrue InterruptionIsHarmless ErrorsHaveACause
PROPERTIES IllegalFramesBurnNothing ImplementsAbstractOtp JobEnds
