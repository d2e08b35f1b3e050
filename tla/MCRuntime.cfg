SPECIFICATION RuntimeSpec
CONSTANTS
  b1 = b1
  b2 = b2
  r3 = r3
  Members = {1, 2}
  Founding <- MCFounding
  AskedRoles = {"owner", "viewer"}
  MaxRequests = 3
  Requests = {r1, r2, r3}
  Bodies = {b1, b2}
  RateLimit = 1
  MaxMinutes = 1
  MaxFaults = 2
  Stages = {s1, s2, s3, s4}
  Capacity = 2
  Calls = {p1, p2}
  Clients = {k1, k2}
  PoolSize = 1
  SubjectOf <- MCSubjectOf
  Visibility = 18
  LeaseSafety = 2
  TerminalReserve = 2
  MinOperation = 1
  TransitionTimeout = 1
  OcrComputeTimeout = 1
  StorageDownloadTimeout = 1
  OcrTimeout = 2
  StageCleanupTimeout = 2
  PersistTimeout = 1
  QueueTimeout = 1
  ClaimLatency = 1
  ServerLag = 1
  LastMoment = 22
INVARIANTS AnOwnerRemains OneRunPerKey ToldTheSame PermitsAreConserved ClientsChangeHandsClean AnswersTellTheOutcome NoWriteOutlastsTheLease
PROPERTIES OwnersAreOutOfReach ImplementsRoster EveryRequestEnds EveryStageAnswered
CHECK_DEADLOCK FALSE
