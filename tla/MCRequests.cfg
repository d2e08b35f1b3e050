SPECIFICATION RequestsSpec
CONSTANTS
  a1 = a1
  a2 = a2
  a3 = a3
  r1 = r1
  p1 = p1
  p2 = p2
  Attempts = {a1, a2, a3}
  Payload <- MCPayload
  Ttl = 1
  MaxClock = 2
  Receipts = {r1}
  Deliveries = {dl1, dl2}
  Posts = {p1, p2}
  ReceiptOf <- MCReceiptOf
  KeyOf <- MCKeyOf
  Renders = {rd1, rd2}
  MaxAdmissions = 2
INVARIANTS AtMostOncePerDay ReceiptsHold
PROPERTIES AttemptsActAtOnce EveryAttemptAnswered RecognitionSettles EveryRenderEnds
CHECK_DEADLOCK FALSE
