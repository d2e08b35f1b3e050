SPECIFICATION SumSpec
CONSTANTS
  f1 = f1
  f2 = f2
  l1 = l1
  l2 = l2
  l3 = l3
  c1 = c1
  c2 = c2
  c3 = c3
  acc1 = acc1
  acc2 = acc2
  d1 = d1
  d2 = d2
  d3 = d3
  s1 = s1
  s2 = s2
  Scenarios <- MCScenarios
  Files = {f1, f2}
  Accounts = {acc1, acc2}
  Commits = {c1, c2, c3}
  Rollbacks = {b1}
  FileOf <- MCFileOf
  AccountOf <- MCAccountOf
  Lines = {l1, l2, l3}
  LinesOf <- MCLinesOf
  LineRow <- MCLineRow
  Amounts = {1}
  Texts = {"x", "y"}
  SkipsDuplicates = {c1, c2, c3}
  MaxEdits = 1
  ListNames <- MCLists
  MaxRow = 3
  LastPlace = 1
  MaxLimit = 2
  MaxChanges = 1
  Deciders = {d1, d2, d3}
  Decider <- MCDecider
  Decides <- MCDecides
  DecisionKey <- MCKey
  ExpiresAt = 2
  LastTick = 2
  Devices = {v1}
  People = {s1, s2}
  Polls = {q1, q2}
  Addresses = {x1, x2}
  Lifetime = 2
  PollLimit = 3
  ApprovalLimit = 1
  LastInstant = 2
  FirstYear = 2096
  FirstWeekday = 0
  Rules <- MCRules
  Starts <- MCStarts
  Delays <- MCDelays
  Terms = {0, 1, 40}
  MaxIterations = 20
  Renders = {rd1, rd2, rd3}
  MaxAdmissions = 1
INVARIANTS SentTwiceDoneOnce RefusalsLeaveNothing ChecksStillHold DefaultIsActive ImportsAreWhole RowsAreImportedOnce WalksListEachRowOnce AnswersMatchTheDecision OneTokenPerApproval NextOccurrenceIsNext BrowsersAreAccountedFor
SYMMETRY MCSymmetry
CHECK_DEADLOCK FALSE
