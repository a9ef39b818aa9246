\* Two requests for one document, one for another and an ordinary one, with
\* one client bucket and two places for compilers.
SPECIFICATION FairSpec
CONSTANTS
  Network = net
  Capacity = 4
  Rate = 1
  NetworkCapacity = 4
  NetworkRate = 2
  MaximumConcurrent = 3
  MaximumConcurrentCompiles = 2
  MaximumBuckets = 1
  MaxTime = 1
  paper = paper
  slides = slides
  Request <- MCRequest
  Class <- MCClass
  Client <- MCClient
  Source <- MCSource
  Outputs <- MCOutputs
  Cost <- MCCost
INVARIANTS  ArtifactIsWhole
PROPERTIES EveryRequestEnds
CHECK_DEADLOCK FALSE
