CONSTANTS
  q1 = q1
  q2 = q2
  q3 = q3
  NoSeq = NoSeq
  Seqs <- MCSeqs3
  MaxSeqs = 3
  BlockSize = 2
  BlocksPerSeq = 3
  Deployments <- MCDeployments
  BatchBuckets = {2}
  ContextBucket = 4
  PrefillBuckets = {2}
  MaxGraphs = 2
  MaxDraft = 2
SYMMETRY MCSymmetry
SPECIFICATION GraphSpec
INVARIANTS
  GraphInv
  ContextsIntact
CHECK_DEADLOCK FALSE
