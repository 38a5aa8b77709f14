SPECIFICATION FairSpec
CONSTANTS
  Workers = {w1, w2}
  Caller = caller
  Nobody = Nobody
  MaxSamples = 5
  ChunksPerThread = 1
CHECK_DEADLOCK FALSE
INVARIANTS OneCallerPerSample EverySampleOnce
PROPERTIES RoundEnds
