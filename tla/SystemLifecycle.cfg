SPECIFICATION WatchedSpec
CONSTANTS
  s1 = s1
  s2 = s2
  s3 = s3
  r1 = r1
  r2 = r2
  r3 = r3
  none = none
  keep = keep
  None = none
  Keep = keep
  Systems <- ThreeSystems
  Requests <- TwoRequests
  Operations <- Overlapped
  MaxDepth = 2
INVARIANTS
  OwnGrammarCurrent
  SerialChainsWhole
  SerialPublishedBuilds
  SerialVerdictsMatchParts

SYMMETRY Symmetric
CHECK_DEADLOCK FALSE
