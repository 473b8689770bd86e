CONSTANTS
  q1 = q1
  q2 = q2
  q3 = q3
  NoSeq = NoSeq
  Seqs <- MCSeqs
  NumStages = 2
  PerSeq = 2
  BlockSize = 2
  MaxBatchTokens = 4
  BatchBuckets = {2}
  ContextBucket = 4
  MaxGraphs = 1
  Deployments <- MCDeployments
SPECIFICATION PipeSpec
INVARIANTS
  PipeSafe
PROPERTY
  EveryRequestServed
CHECK_DEADLOCK FALSE
