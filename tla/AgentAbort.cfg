SPECIFICATION AgentSpec
CONSTANTS
  Requests = {r1, r2}
  Bodies = {b1}
  RateLimit = 1
  MaxMinutes = 0
  MaxFaults = 0
INVARIANT AbortReleasesKey
CHECK_DEADLOCK FALSE
