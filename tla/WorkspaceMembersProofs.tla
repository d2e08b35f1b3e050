------------------------ MODULE WorkspaceMembersProofs ------------------------
(***************************************************************************)
(* An owner remains, for any number of members and requests.  The          *)
(* argument: the trigger counts only rows it has locked, as they will be   *)
(* after its own COMMIT, and nobody else can commit a change to a locked   *)
(* row; so an owner it counted is an owner still when it commits.  What    *)
(* the writing statement checked of its target stays true for the same     *)
(* reason, and what it wrote is what its COMMIT makes of the row, so that  *)
(* each request acts at once (WorkspaceRoster).                            *)
(***************************************************************************)
EXTENDS WorkspaceMembers, TLAPS

Has(x)    == x.pc \in {"trigger", "triggering", "commit"}
Counts(x) == x.pc \in {"triggering", "commit"}

(* The row m once the transaction x has committed. *)
After(x, m) == IF m = x.ask.target THEN x.mine ELSE row[m]

(* What the transaction x has written is locked, and what allowed it to    *)
(* write still holds.                                                      *)
Wrote(x) ==
  Has(x) =>
    /\ x.ask.target \in x.locks
    /\ MayTouch(x.acts, row[x.ask.target])
    /\ MayTouch(x.acts, x.mine)
    /\ x.ask.version \in {0, row[x.ask.target].version}

(* The owners it has counted are locked, and owners once it has committed. *)
Counted(x) ==
  /\ Counts(x) => /\ x.kept \subseteq x.locks
                  /\ \A m \in x.kept : ActiveOwner(After(x, m))
  /\ x.pc = "commit" => x.kept # {}

LocksApart ==
  \A c, d \in Members : c # d => tx[c].locks \cap tx[d].locks = {}

IInv ==
  /\ TypeOK
  /\ \A c \in Members : Wrote(tx[c]) /\ Counted(tx[c])
  /\ LocksApart
  /\ AnOwnerRemains

-----------------------------------------------------------------------------
LEMMA TxShape ==
  ASSUME TypeOK, NEW c \in Members
  PROVE  /\ tx[c] \in {NoTx} \cup OpenTx
         /\ tx[c].pc # "idle" => tx[c] \in OpenTx
         /\ tx[c].locks \subseteq Members
         /\ row[c] \in {Gone} \cup Row
  BY DEF TypeOK, NoTx, OpenTx

(* A step that changes one transaction, keeps the rows and leaves the      *)
(* transaction sound keeps the invariant.                                  *)
LEMMA TxStep ==
  ASSUME IInv, NEW c \in Members, NEW x \in {NoTx} \cup OpenTx,
         tx' = [tx EXCEPT ![c] = x], UNCHANGED row, made' \in 0..MaxRequests,
         Wrote(x), Counted(x),
         \A d \in Members \ {c} : x.locks \cap tx[d].locks = {}
  PROVE  IInv'
<1>1. TypeOK'
  BY DEF IInv, TypeOK
<1>2. tx'[c] = x /\ \A d \in Members \ {c} : tx'[d] = tx[d]
  BY DEF IInv, TypeOK
<1>3. ASSUME NEW d \in Members PROVE Wrote(tx[d])' /\ Counted(tx[d])'
  <2>1. PICK y : y = tx'[d]
    OBVIOUS
  <2>2. Wrote(y) /\ Counted(y)
    BY <1>2, <2>1 DEF IInv
  <2>3. QED
    BY <2>1, <2>2 DEF Wrote, Counted, After, Has, Counts
<1>4. LocksApart'
  BY <1>2 DEF IInv, LocksApart
<1>5. AnOwnerRemains'
  BY DEF IInv, AnOwnerRemains
<1>6. QED
  BY <1>1, <1>3, <1>4, <1>5 DEF IInv

LEMMA EndStep ==
  ASSUME IInv, NEW c \in Members, End(c), UNCHANGED <<row, made>>
  PROVE  IInv'
<1>1. Wrote(NoTx) /\ Counted(NoTx)
  BY DEF NoTx, Wrote, Counted, Has, Counts
<1>2. made' \in 0..MaxRequests
  BY DEF IInv, TypeOK
<1>3. \A d \in Members \ {c} : NoTx.locks \cap tx[d].locks = {}
  BY DEF NoTx
<1>4. QED
  BY <1>1, <1>2, <1>3, TxStep DEF End

(* Steps that take no lock and have nothing written or counted.            *)
LEMMA EarlyStep ==
  ASSUME IInv, NEW c \in Members, NEW x \in OpenTx,
         ~Has(x), x.locks \subseteq tx[c].locks,
         tx' = [tx EXCEPT ![c] = x], UNCHANGED row, made' \in 0..MaxRequests
  PROVE  IInv'
<1>1. Wrote(x) /\ Counted(x)
  BY DEF Wrote, Counted, Has, Counts
<1>2. \A d \in Members \ {c} : x.locks \cap tx[d].locks = {}
  BY DEF IInv, LocksApart
<1>3. QED
  BY <1>1, <1>2, TxStep

LEMMA GotoStep ==
  ASSUME IInv, NEW c \in Members, tx[c].pc # "idle", NEW pc \in PCs \ {"idle"},
         pc \notin {"trigger", "triggering", "commit"},
         Goto(c, pc), UNCHANGED <<row, made>>
  PROVE  IInv'
<1> DEFINE x == [tx[c] EXCEPT !.pc = pc]
<1>1. tx[c] \in OpenTx /\ tx \in [Members -> {NoTx} \cup OpenTx]
  BY TxShape DEF IInv, TypeOK
<1>2. x \in OpenTx /\ x.pc = pc /\ x.locks = tx[c].locks
  BY <1>1 DEF OpenTx
<1>3. tx' = [tx EXCEPT ![c] = x]
  BY <1>1 DEF Goto
<1>4. ~Has(x) /\ made' \in 0..MaxRequests
  BY <1>2 DEF Has, IInv, TypeOK
<1> HIDE DEF x
<1>5. QED
  BY <1>2, <1>3, <1>4, EarlyStep

LEMMA AskStep ==
  ASSUME IInv, NEW c \in Members, Ask(c)
  PROVE  IInv'
<1>0. PICK m \in Members :
        /\ row[m] # Gone
        /\ \E ask \in Asks(m) : tx' = [tx EXCEPT ![c] =
             [pc |-> "caller", ask |-> ask, seen |-> "none", acts |-> "none",
              todo |-> {}, kept |-> {}, locks |-> {}, mine |-> Gone]]
  BY DEF Ask
<1>1. PICK ask \in Asks(m) :
        tx' = [tx EXCEPT ![c] =
             [pc |-> "caller", ask |-> ask, seen |-> "none", acts |-> "none",
              todo |-> {}, kept |-> {}, locks |-> {}, mine |-> Gone]]
  BY <1>0
<1> DEFINE x == [pc |-> "caller", ask |-> ask, seen |-> "none", acts |-> "none",
                 todo |-> {}, kept |-> {}, locks |-> {}, mine |-> Gone]
<1>2. row[m] \in Row
  BY <1>0 DEF IInv, TypeOK
<1>3. ask \in Request
  BY <1>2, MembersAssumption DEF Asks, Request, Row
<1>4. x \in OpenTx
  BY <1>3 DEF OpenTx, PCs
<1>5. ~Has(x) /\ x.locks \subseteq tx[c].locks
  BY DEF Has
<1>6. UNCHANGED row /\ made' \in 0..MaxRequests
  BY MembersAssumption DEF Ask, IInv, TypeOK
<1>7. tx' = [tx EXCEPT ![c] = x]
  BY <1>1
<1> HIDE DEF x
<1>8. QED
  BY <1>4, <1>5, <1>6, <1>7, EarlyStep

LEMMA CheckCallerStep ==
  ASSUME IInv, NEW c \in Members, CheckCaller(c)
  PROVE  IInv'
<1>1. CASE ~MayManage(row[c])
  BY <1>1, EndStep DEF CheckCaller
<1>2. CASE MayManage(row[c])
  <2> DEFINE x == [tx[c] EXCEPT !.pc = "target", !.seen = row[c].role]
  <2>1. tx[c] \in OpenTx /\ tx \in [Members -> {NoTx} \cup OpenTx]
    BY TxShape DEF IInv, TypeOK, CheckCaller, At
  <2>2. row[c].role \in Roles \cup {"none"}
    BY <1>2 DEF MayManage, Roles
  <2>3. x \in OpenTx /\ x.pc = "target" /\ x.locks = tx[c].locks
    BY <2>1, <2>2 DEF OpenTx, PCs
  <2>4. tx' = [tx EXCEPT ![c] = x]
    BY <1>2, <2>1 DEF CheckCaller, OpenTx
  <2>5. ~Has(x) /\ UNCHANGED row /\ made' \in 0..MaxRequests
    BY <2>3 DEF Has, IInv, TypeOK, CheckCaller
  <2> HIDE DEF x
  <2>6. QED
    BY <2>3, <2>4, <2>5, EarlyStep
<1>3. QED
  BY <1>1, <1>2

LEMMA CheckTargetStep ==
  ASSUME IInv, NEW c \in Members, CheckTarget(c)
  PROVE  IInv'
<1>1. tx[c].pc # "idle" /\ UNCHANGED <<row, made>>
  BY DEF CheckTarget, At
<1>2. End(c) \/ Goto(c, "retain") \/ Goto(c, "write")
  BY DEF CheckTarget
<1>3. QED
  BY <1>1, <1>2, EndStep, GotoStep DEF PCs

LEMMA ScanStep ==
  ASSUME IInv, NEW c \in Members, Scan(c)
  PROVE  IInv'
<1> DEFINE pc == IF tx[c].pc = "retain" THEN "retaining" ELSE "triggering"
           todo == {m \in Members : ActiveOwner(Seen(c, m))}
           x == [tx[c] EXCEPT !.pc = pc, !.todo = todo, !.kept = {}]
<1>1. tx[c] \in OpenTx /\ tx \in [Members -> {NoTx} \cup OpenTx]
  BY TxShape DEF IInv, TypeOK, Scan, At
<1>2. x \in OpenTx
  BY <1>1 DEF OpenTx, PCs
<1>3. /\ x.pc = pc /\ x.ask = tx[c].ask /\ x.acts = tx[c].acts
      /\ x.mine = tx[c].mine /\ x.locks = tx[c].locks /\ x.kept = {}
  BY <1>1 DEF OpenTx
<1>4. tx' = [tx EXCEPT ![c] = x]
  BY <1>1 DEF Scan, OpenTx
<1>5. UNCHANGED row /\ made' \in 0..MaxRequests
  BY DEF Scan, IInv, TypeOK
<1> HIDE DEF x
<1>6. Wrote(x)
  <2>1. tx[c].pc = "trigger" \/ x.pc = "retaining"
    BY <1>3 DEF Scan, At
  <2>2. Wrote(tx[c])
    BY DEF IInv
  <2>3. QED
    BY <1>3, <2>1, <2>2 DEF Wrote, Has
<1>7. Counted(x)
  BY <1>3 DEF Counted
<1>8. \A d \in Members \ {c} : x.locks \cap tx[d].locks = {}
  BY <1>3 DEF IInv, LocksApart
<1>9. QED
  BY <1>2, <1>4, <1>5, <1>6, <1>7, <1>8, TxStep

LEMMA LockRowStep ==
  ASSUME IInv, NEW c \in Members, LockRow(c)
  PROVE  IInv'
<1>1. PICK m \in NextRow(c) :
        /\ Free(c, m)
        /\ tx' = [tx EXCEPT
             ![c].todo  = @ \ {m},
             ![c].kept  = IF ActiveOwner(Seen(c, m)) THEN @ \cup {m} ELSE @,
             ![c].locks = @ \cup {m}]
  BY DEF LockRow
<1> DEFINE kept == IF ActiveOwner(Seen(c, m)) THEN tx[c].kept \cup {m}
                                              ELSE tx[c].kept
           x == [tx[c] EXCEPT !.todo = @ \ {m}, !.kept = kept,
                              !.locks = @ \cup {m}]
<1>2. tx[c] \in OpenTx /\ tx \in [Members -> {NoTx} \cup OpenTx]
        /\ tx[c].pc \in {"retaining", "triggering"}
  BY TxShape DEF IInv, TypeOK, LockRow, At
<1>3. m \in Members
  BY <1>2 DEF NextRow, OpenTx
<1>4. x \in OpenTx
  BY <1>2, <1>3 DEF OpenTx
<1>5. /\ x.pc = tx[c].pc /\ x.ask = tx[c].ask /\ x.acts = tx[c].acts
      /\ x.mine = tx[c].mine /\ x.locks = tx[c].locks \cup {m}
      /\ x.kept = kept
  BY <1>2 DEF OpenTx
<1>6. tx' = [tx EXCEPT ![c] = x]
  BY <1>1, <1>2 DEF OpenTx
<1>7. UNCHANGED row /\ made' \in 0..MaxRequests
  BY DEF LockRow, IInv, TypeOK
<1>8. Wrote(tx[c]) /\ Counted(tx[c])
  BY DEF IInv
<1> HIDE DEF x
<1>9. Wrote(x)
  BY <1>5, <1>8 DEF Wrote, Has
<1>10. Counted(x)
  <2>1. \A n \in Members : tx[c].pc = "triggering" => Seen(c, n) = After(x, n)
    BY <1>5 DEF Seen, After, Target
  <2>2. \A n \in Members : After(x, n) = After(tx[c], n)
    BY <1>5 DEF After
  <2>3. tx[c].kept \subseteq Members
    BY <1>2 DEF OpenTx
  <2>4. QED
    BY <1>2, <1>3, <1>5, <1>8, <2>1, <2>2, <2>3 DEF Counted, Counts
<1>11. ASSUME NEW d \in Members \ {c} PROVE x.locks \cap tx[d].locks = {}
  BY <1>1, <1>5 DEF Free, IInv, LocksApart
<1>12. QED
  BY <1>4, <1>6, <1>7, <1>9, <1>10, <1>11, TxStep

LEMMA RetainStep ==
  ASSUME IInv, NEW c \in Members, Retain(c)
  PROVE  IInv'
<1>1. tx[c].pc # "idle" /\ UNCHANGED <<row, made>>
  BY DEF Retain, At
<1>2. End(c) \/ Goto(c, "write")
  BY DEF Retain
<1>3. QED
  BY <1>1, <1>2, EndStep, GotoStep DEF PCs

LEMMA WriteBeginsStep ==
  ASSUME IInv, NEW c \in Members, WriteBegins(c)
  PROVE  IInv'
<1>1. CASE End(c)
  BY <1>1, EndStep DEF WriteBegins
<1>2. CASE tx' = [tx EXCEPT ![c].pc = "writing", ![c].acts = ActorRole(c)]
  <2> DEFINE x == [tx[c] EXCEPT !.pc = "writing", !.acts = ActorRole(c)]
  <2>1. tx[c] \in OpenTx /\ tx \in [Members -> {NoTx} \cup OpenTx]
    BY TxShape DEF IInv, TypeOK, WriteBegins, At
  <2>2. ActorRole(c) \in Roles \cup {"none"}
    BY DEF ActorRole, IInv, TypeOK, Row, Gone
  <2>3. x \in OpenTx /\ x.pc = "writing" /\ x.locks = tx[c].locks
    BY <2>1, <2>2 DEF OpenTx, PCs
  <2>4. tx' = [tx EXCEPT ![c] = x]
    BY <1>2, <2>1 DEF OpenTx
  <2>5. ~Has(x) /\ UNCHANGED row /\ made' \in 0..MaxRequests
    BY <2>3 DEF Has, IInv, TypeOK, WriteBegins
  <2> HIDE DEF x
  <2>6. QED
    BY <2>3, <2>4, <2>5, EarlyStep
<1>3. QED
  BY <1>1, <1>2 DEF WriteBegins

LEMMA RowUpdate ==
  ASSUME NEW r \in Row, NEW role \in Roles
  PROVE  [r EXCEPT !.role = role, !.version = @ + 1] \in Row
<1>1. r.version + 1 \in Nat
  BY DEF Row
<1>2. QED
  BY <1>1 DEF Row

LEMMA WriteRowStep ==
  ASSUME IInv, NEW c \in Members, WriteRow(c)
  PROVE  IInv'
<1> DEFINE r == row[Target(c)]
<1>1. CASE End(c)
  BY <1>1, EndStep DEF WriteRow
<1>2. CASE ~End(c)
  <2> DEFINE x == [tx[c] EXCEPT !.pc = "trigger", !.mine = Written(c),
                                !.locks = @ \cup {Target(c)}]
  <2>1. /\ r # Gone /\ MayTouch(tx[c].acts, r) /\ Matches(c, r)
        /\ MayTouch(tx[c].acts, Written(c)) /\ Free(c, Target(c))
        /\ tx' = [tx EXCEPT ![c].pc = "trigger", ![c].mine = Written(c),
                            ![c].locks = @ \cup {Target(c)}]
    BY <1>2 DEF WriteRow
  <2>2. tx[c] \in OpenTx /\ tx \in [Members -> {NoTx} \cup OpenTx]
    BY TxShape DEF IInv, TypeOK, WriteRow, At
  <2>3. Target(c) \in Members /\ tx[c].ask \in Request
    BY <2>2 DEF OpenTx, Request, Target
  <2>4. Written(c) \in {Gone} \cup Row
    <3>1. r \in Row
      BY <2>1, <2>3 DEF IInv, TypeOK
    <3>2. tx[c].ask.op \in {"update", "remove"}
      BY <2>3 DEF Request
    <3>3. tx[c].ask.op = "update" => tx[c].ask.role \in Roles
      BY <2>3 DEF Request
    <3>4. ASSUME NEW role \in Roles
          PROVE  [r EXCEPT !.role = role, !.version = @ + 1] \in Row
      BY <3>1, RowUpdate
    <3>5. QED
      BY <3>2, <3>3, <3>4 DEF Written
  <2>5. x \in OpenTx
    BY <2>2, <2>3, <2>4 DEF OpenTx, PCs
  <2>6. /\ x.pc = "trigger" /\ x.ask = tx[c].ask /\ x.acts = tx[c].acts
        /\ x.mine = Written(c) /\ x.locks = tx[c].locks \cup {Target(c)}
    BY <2>2 DEF OpenTx
  <2>7. tx' = [tx EXCEPT ![c] = x]
    BY <2>1, <2>2 DEF OpenTx
  <2>8. UNCHANGED row /\ made' \in 0..MaxRequests
    BY DEF WriteRow, IInv, TypeOK
  <2> HIDE DEF x
  <2>9. Wrote(x)
    BY <2>1, <2>6 DEF Wrote, Matches, Target
  <2>10. Counted(x)
    BY <2>6 DEF Counted, Counts
  <2>11. ASSUME NEW d \in Members \ {c} PROVE x.locks \cap tx[d].locks = {}
    BY <2>1, <2>6 DEF Free, IInv, LocksApart
  <2>12. QED
    BY <2>5, <2>7, <2>8, <2>9, <2>10, <2>11, TxStep
<1>3. QED
  BY <1>1, <1>2
LEMMA TriggerStep ==
  ASSUME IInv, NEW c \in Members, Trigger(c)
  PROVE  IInv'
<1>1. CASE tx[c].kept = {}
  BY <1>1, EndStep DEF Trigger
<1>2. CASE tx[c].kept # {}
  <2> DEFINE x == [tx[c] EXCEPT !.pc = "commit"]
  <2>1. tx[c] \in OpenTx /\ tx \in [Members -> {NoTx} \cup OpenTx]
          /\ tx[c].pc = "triggering"
    BY TxShape DEF IInv, TypeOK, Trigger, At
  <2>2. x \in OpenTx
    BY <2>1 DEF OpenTx, PCs
  <2>3. /\ x.pc = "commit" /\ x.ask = tx[c].ask /\ x.acts = tx[c].acts
        /\ x.mine = tx[c].mine /\ x.locks = tx[c].locks
        /\ x.kept = tx[c].kept
    BY <2>1 DEF OpenTx
  <2>4. tx' = [tx EXCEPT ![c] = x]
    BY <1>2, <2>1 DEF Trigger, Goto, OpenTx
  <2>5. UNCHANGED row /\ made' \in 0..MaxRequests
    BY DEF Trigger, IInv, TypeOK
  <2>6. Wrote(tx[c]) /\ Counted(tx[c])
    BY DEF IInv
  <2> HIDE DEF x
  <2>7. Wrote(x)
    BY <2>1, <2>3, <2>6 DEF Wrote, Has
  <2>8. Counted(x)
    BY <1>2, <2>1, <2>3, <2>6 DEF Counted, Counts, After
  <2>9. \A d \in Members \ {c} : x.locks \cap tx[d].locks = {}
    BY <2>3 DEF IInv, LocksApart
  <2>10. QED
    BY <2>2, <2>4, <2>5, <2>7, <2>8, <2>9, TxStep
<1>3. QED
  BY <1>1, <1>2

(* The row of the target is what the transaction wrote, and no other       *)
(* request has counted or checked it.                                      *)
LEMMA CommitStep ==
  ASSUME IInv, NEW c \in Members, Commit(c)
  PROVE  IInv'
<1> DEFINE t == Target(c)
<1>1. tx[c] \in OpenTx /\ tx \in [Members -> {NoTx} \cup OpenTx]
        /\ tx[c].pc = "commit"
  BY TxShape DEF IInv, TypeOK, Commit, At
<1>2. /\ t \in tx[c].locks /\ t \in Members /\ tx[c].mine \in {Gone} \cup Row
      /\ tx[c].locks \subseteq Members
  BY <1>1 DEF IInv, Wrote, Has, OpenTx, Request, Target
<1>3. /\ row' = [row EXCEPT ![t] = tx[c].mine]
      /\ tx' = [tx EXCEPT ![c] = NoTx]
      /\ made' = made
  BY DEF Commit, End
<1>4. /\ row'[t] = tx[c].mine
      /\ \A m \in Members \ {t} : row'[m] = row[m]
      /\ tx'[c] = NoTx
      /\ \A d \in Members \ {c} : tx'[d] = tx[d] /\ t \notin tx[d].locks
  BY <1>1, <1>2, <1>3 DEF IInv, TypeOK, LocksApart
<1>5. TypeOK'
  BY <1>2, <1>3 DEF IInv, TypeOK
<1>6. ASSUME NEW d \in Members PROVE Wrote(tx[d])' /\ Counted(tx[d])'
  <2>1. CASE d = c
    BY <1>4, <2>1 DEF NoTx, Wrote, Counted, Has, Counts
  <2>2. CASE d # c
    <3>1. PICK y : y = tx[d]
      OBVIOUS
    <3>2. Wrote(y) /\ Counted(y) /\ y = tx'[d] /\ t \notin y.locks
            /\ y.locks \subseteq Members
      BY <1>4, <2>2, <3>1, TxShape DEF IInv
    <3>3. \A m \in y.locks : row'[m] = row[m]
      BY <1>4, <3>2
    <3>4. Wrote(y)'
      BY <3>2, <3>3 DEF Wrote, Has
    <3>5. Counted(y)'
      BY <3>2, <3>3 DEF Counted, Counts, After
    <3>6. QED
      BY <3>2, <3>4, <3>5 DEF Wrote, Counted, Has, Counts, After
  <2>3. QED
    BY <2>1, <2>2
<1>7. LocksApart'
  BY <1>4 DEF NoTx, IInv, LocksApart
<1>8. AnOwnerRemains'
  <2>1. Counted(tx[c])
    BY DEF IInv
  <2>2. PICK m \in tx[c].kept : TRUE
    BY <1>1, <2>1 DEF Counted
  <2>3. m \in Members /\ ActiveOwner(After(tx[c], m))
    BY <1>1, <2>1, <2>2 DEF Counted, Counts, OpenTx
  <2>4. row'[m] = After(tx[c], m)
    BY <1>4, <2>3 DEF After, Target
  <2>5. QED
    BY <2>3, <2>4 DEF AnOwnerRemains, ActiveOwner
<1>9. QED
  BY <1>5, <1>6, <1>7, <1>8 DEF IInv

-----------------------------------------------------------------------------
LEMMA InitIInv == Init => IInv
<1> SUFFICES ASSUME Init PROVE IInv
  OBVIOUS
<1>1. TypeOK
  BY MembersAssumption DEF Init, TypeOK
<1>2. \A c \in Members : Wrote(tx[c]) /\ Counted(tx[c])
  BY DEF Init, NoTx, Wrote, Counted, Has, Counts
<1>3. LocksApart /\ AnOwnerRemains
  BY MembersAssumption DEF Init, NoTx, LocksApart, AnOwnerRemains, ActiveOwner
<1>4. QED
  BY <1>1, <1>2, <1>3 DEF IInv

LEMMA StutterStep == IInv /\ UNCHANGED vars => IInv'
<1> SUFFICES ASSUME IInv, UNCHANGED vars PROVE IInv'
  OBVIOUS
<1>1. TypeOK' /\ LocksApart' /\ AnOwnerRemains'
  BY DEF vars, IInv, TypeOK, LocksApart, AnOwnerRemains
<1>2. ASSUME NEW d \in Members PROVE Wrote(tx[d])' /\ Counted(tx[d])'
  BY DEF vars, IInv, Wrote, Counted, Has, Counts, After
<1>3. QED
  BY <1>1, <1>2 DEF IInv

LEMMA StepIInv == IInv /\ [Next]_vars => IInv'
<1> SUFFICES ASSUME IInv, [Next]_vars PROVE IInv'
  OBVIOUS
<1>1. CASE UNCHANGED vars
  BY <1>1, StutterStep
<1>2. ASSUME NEW c \in Members, Ask(c) \/ Step(c) \/ Abort(c) PROVE IInv'
  <2>1. CASE Ask(c) \/ Abort(c) \/ Deadlock(c)
    BY <2>1, AskStep, EndStep DEF Abort, Deadlock
  <2>2. CASE CheckCaller(c) \/ CheckTarget(c) \/ Scan(c) \/ LockRow(c)
    BY <2>2, CheckCallerStep, CheckTargetStep, ScanStep, LockRowStep
  <2>3. CASE Retain(c) \/ WriteBegins(c) \/ WriteRow(c)
    BY <2>3, RetainStep, WriteBeginsStep, WriteRowStep
  <2>4. CASE Trigger(c) \/ Commit(c)
    BY <2>4, TriggerStep, CommitStep
  <2>5. QED
    BY <1>2, <2>1, <2>2, <2>3, <2>4 DEF Step
<1>3. QED
  BY <1>1, <1>2 DEF Next

(* The inductive invariant of the memberships holds throughout. *)
THEOREM MembersInvariance == Spec => []IInv
  BY InitIInv, StepIInv, PTL DEF Spec

(* Every variable keeps its type, for any members, roles and requests. *)
THEOREM MembersTypeCorrect == Spec => []TypeOK
<1>1. IInv => TypeOK
  BY DEF IInv
<1>2. QED
  BY <1>1, MembersInvariance, PTL

(* No interleaving of requests leaves the workspace without an active      *)
(* owner.                                                                  *)
THEOREM OwnerRemains == Spec => []AnOwnerRemains
<1>1. IInv => AnOwnerRemains
  BY DEF IInv
<1>2. QED
  BY <1>1, MembersInvariance, PTL

(* Only its own request ends a transaction. *)
LEMMA WhoCommits ==
  ASSUME IInv, Next, NEW c \in Members, At(c, "commit"), row' # row,
         At(c, "idle")'
  PROVE  Commit(c)
<1>1. PICK d \in Members : Ask(d) \/ Step(d) \/ Abort(d)
  BY DEF Next
<1>2. Commit(d)
  BY <1>1 DEF Ask, Step, Abort, CheckCaller, CheckTarget, Scan, LockRow, Retain,
              WriteBegins, WriteRow, Trigger, Deadlock
<1>3. d = c
  <2> SUFFICES ASSUME d # c PROVE FALSE
    OBVIOUS
  <2>1. tx'[c] = tx[c]
    BY <1>2 DEF Commit, End, IInv, TypeOK
  <2>2. QED
    BY <2>1 DEF At
<1>4. QED
  BY <1>2, <1>3

(* An administrator neither demotes, removes nor makes an owner, whatever  *)
(* happened to the target while the request waited for its row.            *)
THEOREM OwnersProtected == Spec => OwnersAreOutOfReach
<1>1. IInv /\ [Next]_vars =>
        [\A c \in Members :
           At(c, "commit") /\ row' # row /\ At(c, "idle")'
             => MayTouch(tx[c].acts, row[Target(c)])
                /\ MayTouch(tx[c].acts, row'[Target(c)])]_vars
  <2> SUFFICES ASSUME IInv, Next, NEW c \in Members, At(c, "commit"),
                      row' # row, At(c, "idle")'
               PROVE  MayTouch(tx[c].acts, row[Target(c)])
                      /\ MayTouch(tx[c].acts, row'[Target(c)])
    OBVIOUS
  <2>1. Commit(c) /\ Wrote(tx[c]) /\ tx[c] \in OpenTx
    BY WhoCommits, TxShape DEF IInv, At
  <2>2. row'[Target(c)] = tx[c].mine
    BY <2>1 DEF Commit, IInv, TypeOK, OpenTx, Request, Target
  <2>3. QED
    BY <2>1, <2>2 DEF Wrote, Has, At, Target
<1>2. QED
  BY <1>1, MembersInvariance, PTL DEF Spec, OwnersAreOutOfReach

-----------------------------------------------------------------------------
(* The refinement: a request acts at once when it commits *)

(* What the transaction x has written is what becomes of the row as it is. *)
Standing(x) ==
  Has(x) => /\ row[x.ask.target] # Gone
            /\ x.mine = Roster!Outcome(x.ask, row[x.ask.target])

RInv == IInv /\ \A c \in Members : Standing(tx[c])

Mapped == [c \in Members |-> RequestOf(tx[c])]

(* The request of a transaction is all that changes with it.               *)
LEMMA OneRequest ==
  ASSUME TypeOK, NEW c \in Members, NEW x, tx' = [tx EXCEPT ![c] = x]
  PROVE  Mapped' = [Mapped EXCEPT ![c] = RequestOf(x)]
<1>1. tx'[c] = x /\ \A d \in Members \ {c} : tx'[d] = tx[d]
  BY DEF TypeOK
<1>2. \A d \in Members : Mapped'[d] = RequestOf(tx'[d])
  BY DEF Mapped, RequestOf
<1>3. \A d \in Members : Mapped[d] = RequestOf(tx[d])
  BY DEF Mapped
<1>4. Mapped' = [d \in Members |-> Mapped'[d]]
  BY DEF Mapped
<1>5. [Mapped EXCEPT ![c] = RequestOf(x)] =
        [d \in Members |-> IF d = c THEN RequestOf(x) ELSE Mapped[d]]
  BY DEF Mapped
<1>. QED
  BY <1>1, <1>2, <1>3, <1>4, <1>5

(* What may become of a transaction in a step that neither begins nor      *)
(* allows nor applies a request: it goes on, or ends.                      *)
Onward(x, y) ==
  \/ y = NoTx /\ x.pc # "idle"
  \/ /\ RequestOf(y) = RequestOf(x)
     /\ Has(y) => Has(x) /\ y.ask = x.ask /\ y.mine = x.mine

(* The steps before the statement that writes, and those of its trigger.   *)
LEMMA QuietStep ==
  ASSUME TypeOK, NEW c \in Members,
         \/ CheckCaller(c) \/ CheckTarget(c) \/ Scan(c) \/ LockRow(c)
         \/ Retain(c) \/ Trigger(c) \/ Deadlock(c) \/ Abort(c)
  PROVE  /\ row' = row
         /\ \E y : tx' = [tx EXCEPT ![c] = y] /\ Onward(tx[c], y)
<1>1. row' = row
  BY DEF CheckCaller, CheckTarget, Scan, LockRow, Retain, Trigger, Deadlock, Abort
<1>2. tx[c].pc # "idle"
  BY DEF CheckCaller, CheckTarget, Scan, LockRow, Retain, Trigger, Deadlock, Abort,
         At, WaitsFor, Wants
<1>3. tx[c] \in OpenTx /\ tx \in [Members -> {NoTx} \cup OpenTx]
  BY <1>2, TxShape DEF TypeOK
<1>4. CASE End(c)
  BY <1>1, <1>2, <1>4 DEF End, Onward
<1>5. CASE ~End(c)
  <2>. DEFINE y == tx'[c]
  <2>1. tx' = [tx EXCEPT ![c] = y]
    BY <1>3, <1>5 DEF CheckCaller, CheckTarget, Scan, LockRow, Retain, Trigger,
                      Deadlock, Abort, Goto
  <2>2. ASSUME NEW pc, Goto(c, pc)
        PROVE  y.pc = pc /\ y.ask = tx[c].ask /\ y.acts = tx[c].acts /\ y.mine = tx[c].mine
    BY <1>3, <2>2 DEF Goto, OpenTx
  <2>3. /\ y.ask = tx[c].ask /\ y.acts = tx[c].acts /\ y.mine = tx[c].mine
        /\ \/ /\ tx[c].pc \in {"caller", "target", "retain", "retaining"}
              /\ y.pc \in {"target", "retain", "retaining", "write"}
           \/ /\ tx[c].pc \in {"trigger", "triggering"}
              /\ y.pc \in {"triggering", "commit"}
    <3>1. CASE CheckCaller(c)
      BY <1>3, <1>5, <3>1 DEF CheckCaller, At, OpenTx
    <3>2. CASE CheckTarget(c)
      <4>1. At(c, "target") /\ (Goto(c, "retain") \/ Goto(c, "write"))
        BY <1>5, <3>2 DEF CheckTarget
      <4>. QED
        BY <2>2, <4>1 DEF At
    <3>3. CASE Scan(c)
      BY <1>3, <3>3 DEF Scan, At, OpenTx
    <3>4. CASE LockRow(c)
      <4>1. PICK m \in NextRow(c) :
              tx' = [tx EXCEPT
                ![c].todo  = @ \ {m},
                ![c].kept  = IF ActiveOwner(Seen(c, m)) THEN @ \cup {m} ELSE @,
                ![c].locks = @ \cup {m}]
        BY <3>4 DEF LockRow
      <4>. QED
        BY <1>3, <3>4, <4>1 DEF LockRow, At, OpenTx
    <3>5. CASE Retain(c)
      <4>1. At(c, "retaining") /\ Goto(c, "write")
        BY <1>5, <3>5 DEF Retain
      <4>. QED
        BY <2>2, <4>1 DEF At
    <3>6. CASE Trigger(c)
      <4>1. At(c, "triggering") /\ Goto(c, "commit")
        BY <1>5, <3>6 DEF Trigger
      <4>. QED
        BY <2>2, <4>1 DEF At
    <3>. QED
      BY <1>5, <3>1, <3>2, <3>3, <3>4, <3>5, <3>6 DEF Deadlock, Abort
  <2>4. Onward(tx[c], y)
    BY <2>2, <2>3 DEF Onward, RequestOf, Has
  <2>. QED
    BY <1>1, <2>1, <2>4
<1>. QED
  BY <1>4, <1>5

(* A transaction that goes on or ends is a step of nobody's request, or    *)
(* drops its own.                                                          *)
LEMMA OnwardRefines ==
  ASSUME RInv, NEW c \in Members, row' = row,
         NEW y, tx' = [tx EXCEPT ![c] = y], Onward(tx[c], y)
  PROVE  /\ Roster!Next \/ UNCHANGED Roster!vars
         /\ Standing(y)
<1>1. Mapped' = [Mapped EXCEPT ![c] = RequestOf(y)]
  BY OneRequest DEF RInv, IInv
<1>2. Mapped[c] = RequestOf(tx[c]) /\ Mapped = [d \in Members |-> Mapped[d]]
  BY DEF Mapped
<1>3. CASE y = NoTx /\ tx[c].pc # "idle"
  <2>1. RequestOf(y) = Roster!Idle
    BY <1>3 DEF NoTx, RequestOf, Roster!Idle
  <2>2. Mapped[c].stage # "idle"
    BY <1>2, <1>3 DEF RequestOf
  <2>3. Roster!Drop(c)
    BY <1>1, <2>1, <2>2 DEF Roster!Drop, Mapped
  <2>4. Standing(y)
    BY <1>3 DEF NoTx, Standing, Has
  <2>. QED
    BY <2>3, <2>4 DEF Roster!Next
<1>4. CASE /\ RequestOf(y) = RequestOf(tx[c])
           /\ Has(y) => Has(tx[c]) /\ y.ask = tx[c].ask /\ y.mine = tx[c].mine
  <2>1. Mapped' = Mapped
    BY <1>1, <1>2, <1>4
  <2>2. UNCHANGED Roster!vars
    BY <2>1 DEF Roster!vars, Mapped
  <2>3. Standing(y)
    BY <1>4 DEF RInv, Standing
  <2>. QED
    BY <2>2, <2>3
<1>. QED
  BY <1>3, <1>4 DEF Onward

(* A request begins.                                                       *)
LEMMA AskRefines ==
  ASSUME RInv, NEW c \in Members, Ask(c)
  PROVE  Roster!Next /\ row' = row /\ Standing(tx'[c])
         /\ \A d \in Members \ {c} : tx'[d] = tx[d]
<1>1. PICK m \in Members : row[m] # Gone /\ \E ask \in Asks(m) :
        tx' = [tx EXCEPT ![c] =
          [pc |-> "caller", ask |-> ask, seen |-> "none", acts |-> "none",
           todo |-> {}, kept |-> {}, locks |-> {}, mine |-> Gone]]
  BY DEF Ask
<1>2. PICK ask \in Asks(m) : tx' = [tx EXCEPT ![c] =
          [pc |-> "caller", ask |-> ask, seen |-> "none", acts |-> "none",
           todo |-> {}, kept |-> {}, locks |-> {}, mine |-> Gone]]
  BY <1>1
<1>. DEFINE x == [pc |-> "caller", ask |-> ask, seen |-> "none", acts |-> "none",
                  todo |-> {}, kept |-> {}, locks |-> {}, mine |-> Gone]
<1>3. Mapped' = [Mapped EXCEPT ![c] = RequestOf(x)]
  BY <1>2, OneRequest DEF RInv, IInv
<1>4. RequestOf(x) = [stage |-> "asked", ask |-> ask]
  BY DEF RequestOf
<1>5. Mapped[c].stage = "idle"
  BY DEF Ask, At, Mapped, RequestOf
<1>6. ask \in {Roster!Removal(m)} \cup Roster!Changes(m) /\ row[m] # Roster!Gone
  BY <1>1 DEF Asks, Roster!Removal, Roster!Changes, Gone, Roster!Gone
<1>7. Roster!Ask(c)
  BY <1>3, <1>4, <1>5, <1>6 DEF Roster!Ask, Mapped, Ask
<1>8. tx'[c] = x /\ \A d \in Members \ {c} : tx'[d] = tx[d]
  BY <1>2 DEF RInv, IInv, TypeOK
<1>9. Standing(tx'[c])
  BY <1>8 DEF Standing, Has
<1>. QED
  BY <1>7, <1>8, <1>9 DEF Roster!Next, Ask

(* The statement that writes begins: its caller's role allows the request. *)
LEMMA AllowRefines ==
  ASSUME RInv, NEW c \in Members, WriteBegins(c), ~End(c)
  PROVE  Roster!Next /\ row' = row /\ Standing(tx'[c])
         /\ \A d \in Members \ {c} : tx'[d] = tx[d]
<1>1. /\ At(c, "write") /\ row' = row
      /\ tx' = [tx EXCEPT ![c].pc = "writing", ![c].acts = ActorRole(c)]
      /\ MayTouch(ActorRole(c), row[Target(c)])
  BY DEF WriteBegins
<1>2. tx[c] \in OpenTx /\ tx \in [Members -> {NoTx} \cup OpenTx]
  BY <1>1, TxShape DEF RInv, IInv, TypeOK, At
<1>. DEFINE x == [tx[c] EXCEPT !.pc = "writing", !.acts = ActorRole(c)]
<1>3. tx' = [tx EXCEPT ![c] = x]
  BY <1>1, <1>2
<1>4. Mapped' = [Mapped EXCEPT ![c] = RequestOf(x)]
  BY <1>3, OneRequest DEF RInv, IInv
<1>5. /\ row[c].status = "active" /\ ActorRole(c) = row[c].role
      /\ row[c].role \in {"owner", "administrator"}
  BY <1>1 DEF MayTouch, ActorRole
<1>6. RequestOf(x) = [stage |-> "allowed", ask |-> tx[c].ask, by |-> row[c].role]
  BY <1>2, <1>5 DEF RequestOf, OpenTx
<1>7. Mapped[c] = [stage |-> "asked", ask |-> tx[c].ask]
  BY <1>1 DEF Mapped, RequestOf, At
<1>8. Roster!Allow(c)
  <2>1. Mapped[c].stage = "asked" /\ Mapped[c].ask = tx[c].ask
    BY <1>7
  <2>2. Mapped' = [Mapped EXCEPT ![c] =
          [stage |-> "allowed", ask |-> Mapped[c].ask, by |-> row[c].role]]
    BY <1>4, <1>6, <2>1
  <2>. QED
    BY <1>1, <1>5, <2>1, <2>2, Zenon DEF Roster!Allow, Mapped
<1>9. tx'[c] = x /\ x.pc = "writing" /\ \A d \in Members \ {c} : tx'[d] = tx[d]
  BY <1>2, <1>3 DEF OpenTx
<1>10. Standing(tx'[c])
  BY <1>9 DEF Standing, Has
<1>. QED
  BY <1>1, <1>8, <1>9, <1>10 DEF Roster!Next

(* The row is written: it is what it is to become.                         *)
LEMMA WriteStands ==
  ASSUME RInv, NEW c \in Members, WriteRow(c), ~End(c)
  PROVE  UNCHANGED Roster!vars /\ row' = row /\ Standing(tx'[c])
         /\ \A d \in Members \ {c} : tx'[d] = tx[d]
<1>1. /\ At(c, "writing") /\ row' = row /\ row[Target(c)] # Gone
      /\ tx' = [tx EXCEPT ![c].pc = "trigger", ![c].mine = Written(c),
                          ![c].locks = @ \cup {Target(c)}]
  BY DEF WriteRow
<1>2. tx[c] \in OpenTx /\ tx \in [Members -> {NoTx} \cup OpenTx]
  BY <1>1, TxShape DEF RInv, IInv, TypeOK, At
<1>. DEFINE x == [tx[c] EXCEPT !.pc = "trigger", !.mine = Written(c),
                               !.locks = @ \cup {Target(c)}]
<1>3. tx' = [tx EXCEPT ![c] = x]
  BY <1>1, <1>2
<1>4. Mapped' = [Mapped EXCEPT ![c] = RequestOf(x)]
  BY <1>3, OneRequest DEF RInv, IInv
<1>5. /\ x.pc = "trigger" /\ x.ask = tx[c].ask /\ x.acts = tx[c].acts
      /\ x.mine = Written(c)
  BY <1>2 DEF OpenTx
<1>6. RequestOf(x) = Mapped[c]
  BY <1>1, <1>5 DEF RequestOf, Mapped, At
<1>7. Mapped' = Mapped
  BY <1>4, <1>6 DEF Mapped
<1>8. Written(c) = Roster!Outcome(tx[c].ask, row[Target(c)])
  BY DEF Written, Roster!Outcome, Gone, Roster!Gone
<1>9. tx'[c] = x /\ \A d \in Members \ {c} : tx'[d] = tx[d]
  BY <1>2, <1>3
<1>10. Standing(tx'[c])
  BY <1>1, <1>5, <1>8, <1>9 DEF Standing, Target
<1>. QED
  BY <1>1, <1>7, <1>9, <1>10 DEF Roster!vars, Mapped

(* COMMIT: the request takes effect.                                       *)
LEMMA CommitRefines ==
  ASSUME RInv, IInv', NEW c \in Members, Commit(c)
  PROVE  Roster!Next
<1>1. /\ At(c, "commit") /\ tx' = [tx EXCEPT ![c] = NoTx]
      /\ row' = [row EXCEPT ![Target(c)] = tx[c].mine]
  BY DEF Commit, End
<1>2. Wrote(tx[c]) /\ Standing(tx[c]) /\ Has(tx[c])
  BY <1>1 DEF RInv, IInv, At, Has
<1>3. Mapped' = [Mapped EXCEPT ![c] = RequestOf(NoTx)]
  BY <1>1, OneRequest DEF RInv, IInv
<1>4. RequestOf(NoTx) = Roster!Idle
  BY DEF RequestOf, NoTx, Roster!Idle
<1>5. Mapped[c] = [stage |-> "allowed", ask |-> tx[c].ask, by |-> tx[c].acts]
  BY <1>1 DEF Mapped, RequestOf, At
<1>. DEFINE ask == tx[c].ask
            old == row[ask.target]
            new == Roster!Outcome(ask, old)
<1>6. /\ old # Roster!Gone /\ ask.version \in {0, old.version}
      /\ Roster!MayTouch(tx[c].acts, old) /\ Roster!MayTouch(tx[c].acts, new)
      /\ row' = [row EXCEPT ![ask.target] = new]
  BY <1>1, <1>2 DEF Wrote, Standing, MayTouch, Roster!MayTouch, Gone, Roster!Gone, Target
<1>7. \E m \in Members : row'[m].role = "owner" /\ row'[m].status = "active"
  BY DEF IInv, AnOwnerRemains, ActiveOwner
<1>8. Roster!Apply(c)
  <2>1. /\ Mapped[c].stage = "allowed" /\ Mapped[c].ask = ask
        /\ Mapped[c].by = tx[c].acts
    BY <1>5
  <2>2. Mapped' = [Mapped EXCEPT ![c] = Roster!Idle]
    BY <1>3, <1>4
  <2>. QED
    BY <1>6, <1>7, <2>1, <2>2, Zenon DEF Roster!Apply, Mapped
<1>. QED
  BY <1>8 DEF Roster!Next

(* Every step of the statements is a step of the requests, or none, and    *)
(* what others have written stands.                                        *)
LEMMA RosterStep ==
  ASSUME RInv, [Next]_vars
  PROVE  RInv' /\ [Roster!Next]_(Roster!vars)
<1>1. IInv'
  BY StepIInv DEF RInv
<1>2. ASSUME NEW c \in Members, row' = row, Standing(tx'[c]),
             \A d \in Members \ {c} : tx'[d] = tx[d]
      PROVE  RInv'
  <2>1. ASSUME NEW d \in Members PROVE Standing(tx[d])'
    <3>1. Standing(tx'[d])
      BY <1>2 DEF RInv
    <3>2. PICK y : y = tx'[d]
      OBVIOUS
    <3>. QED
      BY <1>2, <3>1, <3>2 DEF Standing, Has, Roster!Outcome, Roster!Gone
  <2>. QED
    BY <1>1, <2>1 DEF RInv
<1>3. ASSUME NEW c \in Members,
             \/ CheckCaller(c) \/ CheckTarget(c) \/ Scan(c) \/ LockRow(c)
             \/ Retain(c) \/ Trigger(c) \/ Deadlock(c) \/ Abort(c)
      PROVE  RInv' /\ [Roster!Next]_(Roster!vars)
  <2>1. row' = row
    BY <1>3, QuietStep DEF RInv, IInv
  <2>2. PICK y : tx' = [tx EXCEPT ![c] = y] /\ Onward(tx[c], y)
    BY <1>3, QuietStep DEF RInv, IInv
  <2>3. tx'[c] = y /\ \A d \in Members \ {c} : tx'[d] = tx[d]
    BY <2>2 DEF RInv, IInv, TypeOK
  <2>. QED
    BY <1>2, <2>1, <2>2, <2>3, OnwardRefines
<1>4. ASSUME NEW c \in Members, WriteBegins(c) \/ WriteRow(c), End(c)
      PROVE  RInv' /\ [Roster!Next]_(Roster!vars)
  <2>1. /\ row' = row /\ tx' = [tx EXCEPT ![c] = NoTx]
        /\ Onward(tx[c], NoTx)
    BY <1>4 DEF WriteBegins, WriteRow, End, Onward, At
  <2>2. tx'[c] = NoTx /\ \A d \in Members \ {c} : tx'[d] = tx[d]
    BY <2>1 DEF RInv, IInv, TypeOK
  <2>. QED
    BY <1>2, <2>1, <2>2, OnwardRefines
<1>5. ASSUME NEW c \in Members, Commit(c)
      PROVE  RInv' /\ [Roster!Next]_(Roster!vars)
  <2>1. /\ tx[c].ask.target \in tx[c].locks /\ tx[c] \in OpenTx
        /\ tx' = [tx EXCEPT ![c] = NoTx]
        /\ row' = [row EXCEPT ![tx[c].ask.target] = tx[c].mine]
    BY <1>5, TxShape DEF RInv, IInv, Wrote, Has, Commit, End, At, Target
  <2>2. ASSUME NEW d \in Members PROVE Standing(tx[d])'
    <3>1. CASE d = c
      <4>1. tx'[d] = NoTx
        BY <2>1, <3>1 DEF RInv, IInv, TypeOK
      <4>. QED
        BY <4>1 DEF Standing, Has, NoTx
    <3>2. CASE d # c
      <4>1. tx'[d] = tx[d]
        BY <2>1, <3>2 DEF RInv, IInv, TypeOK
      <4>2. CASE ~Has(tx[d])
        BY <4>1, <4>2 DEF Standing, Has
      <4>3. CASE Has(tx[d])
        <5>1. /\ tx[d].ask.target \in tx[d].locks /\ Standing(tx[d])
              /\ tx[c].locks \cap tx[d].locks = {}
          BY <3>2, <4>3 DEF RInv, IInv, Wrote, LocksApart
        <5>2. tx[d].ask.target # tx[c].ask.target
          BY <2>1, <5>1
        <5>3. row'[tx[d].ask.target] = row[tx[d].ask.target]
          <6>1. tx[d].ask.target \in Members
            BY <4>3, TxShape DEF RInv, IInv, Has, OpenTx, Request
          <6>. QED
            BY <2>1, <5>2, <6>1 DEF RInv, IInv, TypeOK
        <5>. QED
          BY <4>1, <4>3, <5>1, <5>3 DEF Standing, Has, Roster!Outcome, Roster!Gone
      <4>. QED
        BY <4>2, <4>3
    <3>. QED
      BY <3>1, <3>2
  <2>. QED
    BY <1>1, <1>5, <2>2, CommitRefines DEF RInv
<1>6. CASE UNCHANGED vars
  <2>1. ASSUME NEW d \in Members PROVE Standing(tx[d])'
    BY <1>6 DEF RInv, Standing, Has, vars, Roster!Outcome, Roster!Gone
  <2>2. UNCHANGED Roster!vars
    BY <1>6 DEF vars, Roster!vars, RequestOf
  <2>. QED
    BY <1>1, <2>1, <2>2 DEF RInv
<1>7. ASSUME NEW c \in Members, Ask(c) \/ Step(c) \/ Abort(c)
      PROVE  RInv' /\ [Roster!Next]_(Roster!vars)
  <2>1. CASE Ask(c)
    BY <1>2, <2>1, AskRefines
  <2>2. CASE WriteBegins(c) /\ ~End(c)
    BY <1>2, <2>2, AllowRefines
  <2>3. CASE WriteRow(c) /\ ~End(c)
    BY <1>2, <2>3, WriteStands
  <2>. QED
    BY <1>3, <1>4, <1>5, <1>7, <2>1, <2>2, <2>3 DEF Step
<1>. QED
  BY <1>6, <1>7 DEF Next

(* However their statements interleave, requests take effect as if each    *)
(* acted at once when it commits: over the row as it is then, with the     *)
(* version it named, leaving an owner and everybody else as they were.     *)
THEOREM RequestsActAtOnce == Spec => ImplementsRoster
<1>1. Init => RInv /\ Roster!Init
  <2>. SUFFICES ASSUME Init PROVE RInv /\ Roster!Init
    OBVIOUS
  <2>1. RInv
    BY InitIInv DEF RInv, Init, NoTx, Standing, Has
  <2>2. \A c \in Members : RequestOf(tx[c]) = Roster!Idle
    BY DEF Init, NoTx, RequestOf, Roster!Idle
  <2>3. Roster!Init
    BY <2>2 DEF Init, Roster!Init
  <2>. QED
    BY <2>1, <2>3
<1>. QED
  BY <1>1, RosterStep, PTL DEF Spec, ImplementsRoster, Roster!Spec
=============================================================================
