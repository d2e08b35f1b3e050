\* One job whose creator loses the write role before the acknowledgement arrives.
CONSTANTS
  j1 = j1
  j2 = j2
  w1 = w1
  w2 = w2
  w3 = w3
  a1 = a1
  a2 = a2
  Jobs = {j1}
  Workers = {w1}
  Actors = {a1}
  Creator <- MCCreator
  Kind <- MCRunKind
  MaxAttempts = 2
  ReadCtCap = 3
  MaxFaults = 1
SPECIFICATION FairSpec
PROPERTY DemotedCreatorIsAcked
