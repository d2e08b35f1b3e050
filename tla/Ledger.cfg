SPECIFICATION Spec
CONSTANTS
  None = None
  t1 = t1
  t2 = t2
  q1 = q1
  q2 = q2
  Accounts = {1, 2}
  Txns = {t1, t2}
  Home <- MCHome
  Recons = {q1, q2}
  Requests = {r1, r2, r3, r4}
  Commands <- MCLife
  Patch = {None, "pending"}
INVARIANTS ReversedOnce ClaimedOnce BooksMatchStatuses NoCrossedWaits
PROPERTIES NoWorkInClosedAccounts
SYMMETRY MCSymmetry
CHECK_DEADLOCK FALSE
