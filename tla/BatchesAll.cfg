CONSTANTS
  c1 = c1
  c2 = c2
  f1 = f1
  f2 = f2
  s1 = s1
  Calls <- MCCalls
  Uploads <- MCUploads
  Streams <- MCStreams
  Lines <- MCLines
  Input <- MCInput
  Items = 2
  MaxFiles = 2
  Threads = 1
SPECIFICATION Spec
INVARIANTS
  BatchSafe
PROPERTIES
  BatchEnds
CHECK_DEADLOCK FALSE
