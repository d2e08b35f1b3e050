\* A report job and a forecast job of two subjects share two slots, whose
\* deliveries may overlap.
CONSTANTS
  j1 = j1
  j2 = j2
  w1 = w1
  w2 = w2
  w3 = w3
  a1 = a1
  a2 = a2
  Jobs = {j1, j2}
  Workers = {w1, w2}
  Actors = {a1, a2}
  Creator <- MCCreator
  Kind <- MCBothKinds
  MaxAttempts = 2
  ReadCtCap = 3
  MaxFaults = 2
SPECIFICATION Spec
SYMMETRY Slots
INVARIANTS ExactlyOnce DeadLetterIsLastResort LiveJobHasMessage RunAgreesWithJob
