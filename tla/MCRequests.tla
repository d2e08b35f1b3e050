----------------------------- MODULE MCRequests -----------------------------
\* Small instances of three modules about requests that must be answered, of
\* which a behaviour runs one: attempts under one key, receipts, and renders.
EXTENDS IdempotentCommands, Receipts, PdfRenderer
CONSTANTS a1, a2, a3,  \* attempts; the last reuses the key for another payload
          r1, p1, p2   \* a receipt, and requests to post

VARIABLE part   \* the module that runs

requestVars == <<part, keyVars, receiptVars, renderVars>>

MCPayload   == [a \in Attempts |-> IF a = a3 THEN "other" ELSE "same"]
MCReceiptOf == [p \in Posts |-> r1]
MCKeyOf     == [p \in Posts |-> IF p = p2 THEN "k2" ELSE "k1"]

RequestsInit ==
  /\ part \in {"keys", "receipts", "renders"}
  /\ KeyInit /\ ReceiptInit /\ RendererInit

Runs(p) ==
  /\ part = p /\ UNCHANGED part
  /\ p # "keys"     => UNCHANGED keyVars
  /\ p # "receipts" => UNCHANGED receiptVars
  /\ p # "renders"  => UNCHANGED renderVars

RequestsNext ==
  \/ KeyNext      /\ Runs("keys")
  \/ ReceiptNext  /\ Runs("receipts")
  \/ RendererNext /\ Runs("renders")

\* The fairness of the specifications of the parts, of the behaviours they run in.
RequestsFairness ==
  /\ \A a \in Attempts : /\ WF_keyVars(part = "keys" /\ AttemptStep(a))
                         /\ SF_keyVars(part = "keys" /\ LockSubject(a))
  /\ \A p \in Posts :
       WF_receiptVars(part = "receipts" /\ (\/ CreateTransaction(p) \/ ConfirmReceipt(p)
                                            \/ CommitDirect(p) \/ AbortPost(p)))
  /\ \A r \in Receipts : SF_receiptVars(part = "receipts" /\ EndJob(r))
  /\ \A r \in Renders : WF_renderVars(part = "renders" /\ OwnStep(r))

RequestsSpec ==
  RequestsInit /\ [][RequestsNext]_requestVars /\ RequestsFairness
=============================================================================
