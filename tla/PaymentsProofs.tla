--------------------------- MODULE PaymentsProofs ---------------------------
(***************************************************************************)
(* Theorems about Payments for every set of payments, requests and          *)
(* organizations.  The argument: a handler in its transaction owns the row   *)
(* lock, an owned row is not applied and nobody else can write it, so the    *)
(* commit is the only step that pays a row and it pays an unpaid one.        *)
(***************************************************************************)
EXTENDS Payments, TLAPS

\* A handler that left "idle" has found its row.
HasTarget ==
    \A r \in Callbacks : pc[r] # "idle" => target[r] \in Payments

HasDraft ==
    \A r \in Callbacks : pc[r] \in {"write", "commit"} => draft[r] \in Draft

\* The row lock, and what holding it is good for.
OwnsRow ==
    \A r \in Callbacks : pc[r] \in InTransaction =>
        /\ rowLock[target[r]] = r
        /\ ~AlreadyApplied(target[r])

\* A row that was not inserted is unknown to everybody, and while its start
\* request waits for the gateway there is no session a payer could pay in.
Unopened ==
    \A p \in Payments :
        /\ status[p] = "absent" =>
              session[p] = "none" /\ p \notin starting /\ \A r \in Callbacks : target[r] # p
        /\ p \in starting => session[p] = "none"

\* The session a handler asks about was named for its row.
AskedIsNamed ==
    \A r \in Callbacks :
        pc[r] = "verify" /\ asked[r] # NoPayment => asked[r] \in named[target[r]]

\* A handler waits for or holds the row lock only with the gateway's word.
Confirmed ==
    \A r \in Callbacks :
        pc[r] = "lock" \/ pc[r] \in InTransaction =>
            asked[r] \in named[target[r]] /\ Covers(target[r], asked[r])

IInv ==
    /\ TypeOK
    /\ HasTarget
    /\ HasDraft
    /\ OwnsRow
    /\ Unopened
    /\ AskedIsNamed
    /\ Confirmed
    /\ PaidMeansMoneyMoved
    /\ GrantsAccounted

-----------------------------------------------------------------------------

LEMMA RenewedIsDraft ==
    ASSUME PaymentsAssumption, now \in Nat,
           NEW current \in SubRow \cup {NoSub}, NEW plan \in Plans
    PROVE  Renewed(current, plan) \in Draft
<1>1. Months[plan] \in Nat
  BY DEF PaymentsAssumption
<1>2. CASE current = NoSub
  BY <1>1, <1>2 DEF Renewed, Draft, SubRow
<1>3. CASE current # NoSub
  <2>1. PeriodStart(current, plan) \in Nat
    BY <1>3 DEF PeriodStart, SubRow
  <2>2. QED
    BY <1>1, <1>3, <2>1 DEF Renewed, Draft, SubRow
<1>4. QED
  BY <1>2, <1>3

\* An answer the handler accepts comes from a session that brought what the row costs.
LEMMA AcceptedCovers ==
    ASSUME PaymentsAssumption, TypeOK, NEW p \in Payments, NEW s \in Payments,
           NEW reply \in Replies(s), Accepts(p, reply)
    PROVE  Covers(p, s)
<1>1. reply # NoAnswer
  BY DEF Accepts, NoAnswer
<1>2. session[s] \in Moved
  <2> SUFFICES ASSUME session[s] \notin Moved
               PROVE  FALSE
    OBVIOUS
  <2>1. reply.code = FALSE /\ reply.status \in {"other", "absent"}
    BY <1>1 DEF Replies
  <2>2. QED
    BY <2>1 DEF Accepts, BitPaySucceeds, ZibalSucceeds
<1>3. CASE session[s] = "quiet"
  BY <1>3 DEF Covers
<1>4. CASE session[s] = "paid"
  <2>1. reply.told = TRUE /\ reply.amount = money[s]
    BY <1>1, <1>2, <1>4 DEF Replies
  <2>2. money[s] \in Nat /\ Price[PlanOf[p]] \in Nat
    BY DEF TypeOK, PaymentsAssumption
  <2>3. CASE GatewayOf[p] = "bitpay"
    <3>1. \/ money[s] = Price[PlanOf[p]]
          \/ (money[s] + 5) \div 10 = Price[PlanOf[p]]
          \/ money[s] = 10 * Price[PlanOf[p]]
      BY <2>1, <2>3 DEF Accepts, BitPayMatches, RialToToman
    <3>2. \A m, n \in Nat : (m + 5) \div 10 = n => 10 * n <= m + 5 /\ m < 10 * n + 5
      OBVIOUS
    <3>3. QED
      BY <1>4, <2>2, <2>3, <3>1, <3>2 DEF Covers
  <2>4. CASE GatewayOf[p] # "bitpay"
    BY <1>4, <2>1, <2>4 DEF Accepts, ZibalMatches, Covers, PaymentsAssumption
  <2>5. QED
    BY <2>3, <2>4
<1>5. QED
  BY <1>2, <1>3, <1>4 DEF Moved

\* What a request that arrives may change, whatever fields it has.
Arrived(r, p) ==
    /\ pc[r] = "idle" /\ status[p] # "absent"
    /\ \E label \in {"cancel", "done", "verify"} : pc' = [pc EXCEPT ![r] = label]
    /\ target' = [target EXCEPT ![r] = p]
    /\ \E s \in Payments \cup {NoPayment} :
          \/ asked' = [asked EXCEPT ![r] = s] /\ named' = [named EXCEPT ![p] = @ \cup ({s} \ {NoPayment})]
          \/ pc'[r] = "cancel" /\ UNCHANGED <<asked, named>>
    /\ UNCHANGED <<status, applied, reference, gatewayVars, subVars, rowLock, draft, now, historyVars>>

LEMMA ArriveIsArrived ==
    ASSUME TypeOK, NEW r \in Callbacks, NEW p \in Payments, Arrive(r, p)
    PROVE  Arrived(r, p)
<1>1. PICK ref \in Payments \cup {NoPayment}, order \in Payments \cup {NoPayment} :
          CallbackCancelled(r, p, ref, order) \/ CallbackReturned(r, p, ref, order)
  BY DEF Arrive
<1>2. CASE CallbackCancelled(r, p, ref, order)
  BY <1>2 DEF CallbackCancelled, Finds, Goto, Arrived, TypeOK
<1>3. CASE CallbackReturned(r, p, ref, order)
  <2> DEFINE s == IF ref # NoPayment THEN ref ELSE reference[p]
  <2>1. s \in Payments \cup {NoPayment}
    BY DEF TypeOK
  <2>2. /\ asked' = [asked EXCEPT ![r] = s]
        /\ named' = [named EXCEPT ![p] = @ \cup ({s} \ {NoPayment})]
        /\ target' = [target EXCEPT ![r] = p]
    BY <1>3 DEF CallbackReturned, Receive
  <2>3. QED
    BY <1>3, <2>1, <2>2 DEF CallbackReturned, Finds, Goto, Arrived, TypeOK
<1>4. QED
  BY <1>1, <1>2, <1>3

\* The initial states satisfy the inductive invariant.
LEMMA InitIInv == PaymentsAssumption /\ Init => IInv
<1> SUFFICES ASSUME PaymentsAssumption, Init
             PROVE  IInv
  OBVIOUS
<1>1. Trial \in SubRow
  BY DEF Trial, SubRow
<1>2. TypeOK
  BY <1>1 DEF Init, TypeOK, Statuses, Sessions, Moved, Labels
<1>3. HasTarget /\ HasDraft /\ OwnsRow /\ Unopened /\ AskedIsNamed /\ Confirmed
  BY DEF PaymentsAssumption, Init, HasTarget, HasDraft, OwnsRow, InTransaction, Unopened,
     AskedIsNamed, Confirmed
<1>4. GrantsAccounted /\ PaidMeansMoneyMoved
  BY DEF Init, GrantsAccounted, PaidMeansMoneyMoved, AlreadyApplied
<1>5. QED
  BY <1>2, <1>3, <1>4 DEF IInv

-----------------------------------------------------------------------------
(* Type correctness, one action at a time                                   *)

LEMMA StartTypeOK ==
    ASSUME PaymentsAssumption, TypeOK, NEW p \in Payments, Start(p) \/ PayerActs(p)
    PROVE  TypeOK'
<1>1. CASE StartCreate(p)
  BY <1>1 DEF StartCreate, TypeOK, Statuses, subVars, requestVars, historyVars
<1>2. CASE StartAccepted(p)
  BY <1>2 DEF StartAccepted, Opens, TypeOK, Sessions, Moved, subVars, requestVars, historyVars
<1>3. CASE StartRefused(p)
  <2>1. demoted' \in [Payments -> Nat]
    BY <1>3 DEF StartRefused, CountDemotion, TypeOK
  <2>2. QED
    BY <1>3, <2>1 DEF StartRefused, Refuses, TypeOK, Statuses, subVars, requestVars
<1>4. CASE StartDies(p)
  BY <1>4 DEF StartDies, TypeOK, subVars, requestVars, historyVars
<1>5. CASE PayerActs(p)
  <2>1. /\ session' \in [Payments -> Sessions]
        /\ money' \in [Payments -> Nat]
    BY <1>5 DEF PayerActs, TypeOK, Sessions, Moved, PaymentsAssumption
  <2>2. QED
    BY <1>5, <2>1 DEF PayerActs, TypeOK, subVars, requestVars, historyVars
<1>6. QED
  BY <1>1, <1>2, <1>3, <1>4, <1>5 DEF Start

LEMMA ArriveTypeOK ==
    ASSUME TypeOK, NEW r \in Callbacks, NEW p \in Payments, Arrive(r, p)
    PROVE  TypeOK'
<1>1. Arrived(r, p)
  BY ArriveIsArrived
<1>2. /\ pc' \in [Callbacks -> Labels]
      /\ target' \in [Callbacks -> Payments \cup {NoPayment}]
      /\ asked' \in [Callbacks -> Payments \cup {NoPayment}]
      /\ named' \in [Payments -> SUBSET Payments]
  BY <1>1 DEF Arrived, TypeOK, Labels
<1>3. QED
  BY <1>1, <1>2 DEF Arrived, TypeOK, gatewayVars, subVars, historyVars

LEMMA OverwriteTypeOK ==
    ASSUME TypeOK, NEW r \in Callbacks, target[r] \in Payments,
           NEW s \in {"failed", "canceled"}, Overwrite(r, s),
           reference' \in [Payments -> Payments \cup {NoPayment}]
    PROVE  TypeOK'
<1>1. demoted' \in [Payments -> Nat]
  BY DEF Overwrite, CountDemotion, TypeOK
<1>2. QED
  BY <1>1 DEF Overwrite, TypeOK, Statuses, Goto, Labels, gatewayVars, subVars, requestVars

LEMMA KeepAskedTypeOK ==
    ASSUME TypeOK, NEW r \in Callbacks, KeepAsked(r)
    PROVE  reference' \in [Payments -> Payments \cup {NoPayment}]
BY DEF KeepAsked, TypeOK

LEMMA HandleTypeOK ==
    ASSUME PaymentsAssumption, TypeOK, HasTarget, HasDraft,
           NEW r \in Callbacks, Handle(r) \/ Crash(r)
    PROVE  TypeOK'
<1>1. CASE CancelSave(r)
  <2>1. target[r] \in Payments /\ Overwrite(r, "canceled")
    BY <1>1 DEF CancelSave, HasTarget
  <2>2. reference' \in [Payments -> Payments \cup {NoPayment}]
    BY <1>1 DEF CancelSave, TypeOK
  <2>3. QED
    BY <2>1, <2>2, OverwriteTypeOK
<1>2. CASE FailSave(r)
  <2>1. target[r] \in Payments /\ Overwrite(r, "failed")
    BY <1>2 DEF FailSave, HasTarget
  <2>2. reference' \in [Payments -> Payments \cup {NoPayment}]
    BY <1>2, KeepAskedTypeOK DEF FailSave, TypeOK
  <2>3. QED
    BY <2>1, <2>2, OverwriteTypeOK
<1>3. CASE VerifyIncomplete(r)
  BY <1>3 DEF VerifyIncomplete, TypeOK, Goto, Labels, gatewayVars, subVars, requestVars, historyVars
<1>4. CASE Verify(r)
  BY <1>4 DEF Verify, TypeOK, Goto, Labels, gatewayVars, subVars, requestVars, historyVars
<1>5. CASE LockRow(r)
  BY <1>5 DEF LockRow, TypeOK, Goto, Labels, InTransaction, gatewayVars, subVars, requestVars, historyVars
<1>6. CASE ReadSub(r)
  <2>1. target[r] \in Payments
    BY <1>6 DEF ReadSub, HasTarget
  <2>2. Renewed(sub[OrgOf[target[r]]], PlanOf[target[r]]) \in Draft
    BY <2>1, RenewedIsDraft DEF TypeOK, PaymentsAssumption
  <2>3. draft' \in [Callbacks -> Draft \cup {NoSub}]
    BY <1>6, <2>2 DEF ReadSub, TypeOK
  <2>4. QED
    BY <1>6, <2>3 DEF ReadSub, TypeOK, Goto, Labels, InTransaction, gatewayVars, subVars,
       requestVars, historyVars
<1>7. CASE WriteSub(r)
  BY <1>7, SMTT(30) DEF WriteSub, TypeOK, Goto, Labels, InTransaction, gatewayVars, requestVars, historyVars
<1>8. CASE Commit(r)
  <2>1. target[r] \in Payments /\ draft[r] \in Draft
    BY <1>8 DEF Commit, HasTarget, HasDraft
  <2>2. draft[r].row \in SubRow
    BY <2>1 DEF Draft
  <2>3. sub' \in [Orgs -> SubRow \cup {NoSub}]
    BY <1>8, <2>2 DEF Commit, TypeOK
  <2>4. apiEnabled' \in [Orgs -> BOOLEAN]
    <3>1. (apiEnabled[OrgOf[target[r]]] \/ GrantsApi(r)) \in BOOLEAN
      OBVIOUS
    <3>2. QED
      BY <1>8, <3>1, Zenon DEF Commit, TypeOK
  <2>5. /\ reference' \in [Payments -> Payments \cup {NoPayment}]
        /\ overtaken' \in [Callbacks -> SUBSET Payments]
    BY <1>8, <2>1 DEF Commit, KeepAsked, TypeOK
  <2>6. /\ status' \in [Payments -> Statuses]
        /\ applied' \in [Payments -> BOOLEAN]
        /\ grants' \in [Payments -> Nat]
        /\ rowLock' \in [Payments -> Callbacks \cup {Nobody}]
        /\ subLock' \in [Orgs -> Callbacks \cup {Nobody}]
        /\ pc' \in [Callbacks -> Labels]
    BY <1>8, <2>1 DEF Commit, TypeOK, Statuses, Goto, Labels
  <2>7. UNCHANGED <<gatewayVars, requestVars, draft, now, demoted>>
    BY <1>8 DEF Commit
  <2>8. QED
    BY <2>3, <2>4, <2>5, <2>6, <2>7 DEF TypeOK, gatewayVars, requestVars
<1>9. CASE Crash(r)
  <2>1. /\ rowLock' \in [Payments -> Callbacks \cup {Nobody}]
        /\ subLock' \in [Orgs -> Callbacks \cup {Nobody}]
    BY <1>9 DEF Crash, Release, TypeOK
  <2>2. QED
    BY <1>9, <2>1 DEF Crash, TypeOK, Goto, Labels, gatewayVars, requestVars, historyVars
<1>10. QED
  BY <1>1, <1>2, <1>3, <1>4, <1>5, <1>6, <1>7, <1>8, <1>9 DEF Handle

LEMMA NextTypeOK ==
    ASSUME PaymentsAssumption, TypeOK, HasTarget, HasDraft, [Next]_vars
    PROVE  TypeOK'
<1>1. CASE \E p \in Payments : Start(p) \/ PayerActs(p)
  BY <1>1, StartTypeOK
<1>2. CASE \E r \in Callbacks, p \in Payments : Arrive(r, p)
  BY <1>2, ArriveTypeOK
<1>3. CASE \E r \in Callbacks : Handle(r) \/ Crash(r)
  BY <1>3, HandleTypeOK
<1>4. CASE Tick
  BY <1>4 DEF Tick, TypeOK, gatewayVars, subVars, requestVars, historyVars
<1>5. CASE UNCHANGED vars
  BY <1>5 DEF vars, TypeOK
<1>6. QED
  BY <1>1, <1>2, <1>3, <1>4, <1>5 DEF Next

-----------------------------------------------------------------------------
(* The inductive step                                                       *)

StepInv == HasTarget /\ HasDraft /\ OwnsRow /\ Unopened /\ AskedIsNamed /\ Confirmed

Grants == PaidMeansMoneyMoved /\ GrantsAccounted

\* What a session brought stays what it was.
LEMMA CoversStays ==
    ASSUME TypeOK, NEW q \in Payments, NEW s \in Payments, Covers(q, s),
           session[s] \in Moved => session'[s] = session[s] /\ money'[s] = money[s]
    PROVE  Covers(q, s)'
BY DEF Covers, Moved

LEMMA MoneyStays ==
    ASSUME IInv, NEW p \in Payments, Start(p) \/ PayerActs(p), NEW s \in Payments, session[s] \in Moved
    PROVE  session'[s] = session[s] /\ money'[s] = money[s]
<1> USE DEF IInv, TypeOK, Moved
<1>1. CASE StartAccepted(p)
  BY <1>1 DEF StartAccepted, Opens, Unopened
<1>2. CASE PayerActs(p)
  BY <1>2 DEF PayerActs
<1>3. CASE StartCreate(p) \/ StartRefused(p) \/ StartDies(p)
  BY <1>3 DEF StartCreate, StartRefused, Refuses, StartDies
<1>4. QED
  BY <1>1, <1>2, <1>3 DEF Start

LEMMA StartStep ==
    ASSUME IInv, NEW p \in Payments, Start(p) \/ PayerActs(p)
    PROVE  StepInv' /\ Grants'
<1>1. \A q, s \in Payments : Covers(q, s) => Covers(q, s)'
  BY MoneyStays, CoversStays DEF IInv
<1>2. /\ UNCHANGED <<applied, sub, apiEnabled, rowLock, subLock, pc, target, asked, draft, named, grants>>
  BY DEF Start, StartCreate, StartAccepted, StartRefused, StartDies, PayerActs, subVars, requestVars,
     historyVars
<1>3. HasTarget' /\ HasDraft' /\ AskedIsNamed'
  BY <1>2 DEF IInv, HasTarget, HasDraft, AskedIsNamed
<1>4. Confirmed'
  <2>1. \A r \in Callbacks : target[r] \in Payments \cup {NoPayment} /\ asked[r] \in Payments \cup {NoPayment}
    BY DEF IInv, TypeOK
  <2>2. \A r \in Callbacks : pc[r] = "lock" \/ pc[r] \in InTransaction =>
            target[r] \in Payments /\ asked[r] \in Payments
    BY <2>1 DEF IInv, TypeOK, HasTarget, Confirmed, InTransaction
  <2>3. QED
    BY <1>1, <1>2, <2>2 DEF IInv, Confirmed
<1>5. PaidMeansMoneyMoved'
  BY <1>1, <1>2 DEF IInv, TypeOK, PaidMeansMoneyMoved
<1> USE DEF IInv, TypeOK, OwnsRow, InTransaction, Unopened, GrantsAccounted, AlreadyApplied
<1>6. OwnsRow' /\ Unopened' /\ GrantsAccounted'
  <2>1. CASE StartCreate(p)
    BY <1>2, <2>1 DEF StartCreate, historyVars
  <2>2. CASE StartAccepted(p)
    BY <1>2, <2>2 DEF StartAccepted, Opens, historyVars
  <2>3. CASE StartRefused(p)
    BY <1>2, <2>3 DEF StartRefused, Refuses, CountDemotion
  <2>4. CASE StartDies(p)
    BY <1>2, <2>4 DEF StartDies, historyVars
  <2>5. CASE PayerActs(p)
    BY <1>2, <2>5 DEF PayerActs, historyVars
  <2>6. QED
    BY <2>1, <2>2, <2>3, <2>4, <2>5 DEF Start
<1>7. QED
  BY <1>3, <1>4, <1>5, <1>6 DEF StepInv, Grants

LEMMA ArriveStep ==
    ASSUME PaymentsAssumption, IInv, NEW r \in Callbacks, NEW p \in Payments, Arrive(r, p)
    PROVE  StepInv' /\ Grants'
<1>1. Arrived(r, p)
  BY ArriveIsArrived DEF IInv
<1> USE DEF Arrived, IInv, TypeOK, gatewayVars, subVars, historyVars
<1>2. /\ \A q \in Callbacks \ {r} : pc'[q] = pc[q] /\ target'[q] = target[q] /\ asked'[q] = asked[q]
      /\ pc'[r] \in {"cancel", "done", "verify"}
      /\ target'[r] = p
      /\ \A q \in Payments : named[q] \subseteq named'[q]
      /\ UNCHANGED <<status, applied, session, money, rowLock, starting, grants, demoted, draft>>
  BY <1>1, SMTT(30)
<1>3. \A q, s : Covers(q, s)' = Covers(q, s)
  BY <1>2 DEF Covers
<1>4. HasTarget' /\ HasDraft'
  BY <1>2 DEF HasTarget, HasDraft
<1>5. OwnsRow' /\ Unopened'
  BY <1>1, <1>2 DEF OwnsRow, Unopened, InTransaction, AlreadyApplied
<1>6. AskedIsNamed'
  <2>1. pc'[r] = "verify" => (asked'[r] # NoPayment => asked'[r] \in named'[p])
    BY <1>1
  <2>2. \A q \in Callbacks \ {r} : pc[q] = "verify" => target[q] \in Payments
    BY DEF HasTarget
  <2>3. QED
    BY <1>2, <2>1, <2>2 DEF AskedIsNamed
<1>7. Confirmed'
  <2>1. \A q \in Callbacks \ {r} : pc[q] = "lock" \/ pc[q] \in InTransaction => target[q] \in Payments
    BY DEF HasTarget, InTransaction
  <2>2. QED
    BY <1>2, <1>3, <2>1 DEF Confirmed, InTransaction
<1>8. Grants'
  BY <1>2, <1>3 DEF Grants, PaidMeansMoneyMoved, GrantsAccounted, AlreadyApplied
<1>9. QED
  BY <1>4, <1>5, <1>6, <1>7, <1>8 DEF StepInv

\* What every statement of a handler leaves alone.
LEMMA HandleFrame ==
    ASSUME IInv, NEW r \in Callbacks, Handle(r) \/ Crash(r)
    PROVE  /\ UNCHANGED <<session, money, starting, target, asked, named>>
           /\ \A q, s : Covers(q, s)' <=> Covers(q, s)
           /\ \A q \in Callbacks \ {r} : pc'[q] = pc[q] /\ (draft'[q] = draft[q])
           /\ pc[r] \notin {"idle", "done", "dead"}
           /\ target[r] \in Payments
<1>1. /\ UNCHANGED <<session, money, starting, target, asked, named>>
      /\ pc[r] \notin {"idle", "done", "dead"}
  BY DEF Handle, CancelSave, FailSave, Overwrite, VerifyIncomplete, Verify, LockRow, ReadSub, WriteSub,
     Commit, Crash, gatewayVars, requestVars, InTransaction
<1>2. \A q \in Callbacks \ {r} : pc'[q] = pc[q]
  BY DEF Handle, CancelSave, FailSave, Overwrite, VerifyIncomplete, Verify, LockRow, ReadSub, WriteSub,
     Commit, Crash, Goto, IInv, TypeOK
<1>3. \A q \in Callbacks \ {r} : draft'[q] = draft[q]
  BY DEF Handle, CancelSave, FailSave, Overwrite, VerifyIncomplete, Verify, LockRow, ReadSub, WriteSub,
     Commit, Crash, IInv, TypeOK
<1>4. \A q, s : Covers(q, s)' <=> Covers(q, s)
  BY <1>1 DEF Covers
<1>5. QED
  BY <1>1, <1>2, <1>3, <1>4 DEF IInv, HasTarget

\* A step of a handler keeps what is known of the handlers if it keeps what is known of
\* its own one, of the others' locks and of the rows.
LEMMA HandleKeeps ==
    ASSUME IInv, NEW r \in Callbacks, Handle(r) \/ Crash(r),
           pc'[r] \in {"write", "commit"} => draft'[r] \in Draft,
           pc'[r] # "idle", pc'[r] # "verify",
           pc'[r] = "lock" \/ pc'[r] \in InTransaction =>
              asked[r] \in named[target[r]] /\ Covers(target[r], asked[r]),
           \A q \in Callbacks : pc'[q] \in InTransaction =>
              rowLock'[target[q]] = q /\ ~AlreadyApplied(target[q])',
           \A p \in Payments : status'[p] = "absent" => status[p] = "absent",
           Grants'
    PROVE  StepInv' /\ Grants'
<1>1. /\ UNCHANGED <<session, money, starting, target, asked, named>>
      /\ \A q, s : Covers(q, s)' <=> Covers(q, s)
      /\ \A q \in Callbacks \ {r} : pc'[q] = pc[q] /\ draft'[q] = draft[q]
      /\ pc[r] # "idle"
  BY HandleFrame
<1>2. HasTarget' /\ HasDraft'
  BY <1>1 DEF IInv, HasTarget, HasDraft
<1>3. OwnsRow'
  BY <1>1 DEF OwnsRow
<1>4. Unopened'
  BY <1>1 DEF IInv, Unopened
<1>5. AskedIsNamed'
  BY <1>1 DEF IInv, AskedIsNamed
<1>6. Confirmed'
  BY <1>1 DEF IInv, Confirmed
<1>7. QED
  BY <1>2, <1>3, <1>4, <1>5, <1>6 DEF StepInv

LEMMA OverwriteStep ==
    ASSUME PaymentsAssumption, IInv, NEW r \in Callbacks, CancelSave(r) \/ FailSave(r)
    PROVE  StepInv' /\ Grants'
<1>1. PICK s \in {"failed", "canceled"} : Overwrite(r, s)
  BY DEF CancelSave, FailSave
<1>2. Handle(r)
  BY DEF Handle
<1>3. /\ UNCHANGED <<session, money, named, target>> /\ target[r] \in Payments
      /\ \A q, t : Covers(q, t)' <=> Covers(q, t)
  BY <1>2, HandleFrame
<1>4. pc'[r] = "done" /\ \A q \in Callbacks \ {r} : pc'[q] = pc[q]
  BY <1>1 DEF Overwrite, Goto, IInv, TypeOK
<1>5. /\ rowLock' = rowLock /\ rowLock[target[r]] = Nobody
      /\ status' = [status EXCEPT ![target[r]] = s] /\ applied' = applied /\ grants' = grants
  BY <1>1 DEF Overwrite, subVars
<1>6. \A q \in Callbacks : pc'[q] \in InTransaction =>
          rowLock'[target[q]] = q /\ ~AlreadyApplied(target[q])'
  <2> SUFFICES ASSUME NEW q \in Callbacks, pc'[q] \in InTransaction
               PROVE  rowLock'[target[q]] = q /\ ~AlreadyApplied(target[q])'
    OBVIOUS
  <2>1. q # r /\ pc[q] \in InTransaction
    BY <1>4 DEF InTransaction
  <2>2. rowLock[target[q]] = q /\ ~AlreadyApplied(target[q]) /\ target[q] # target[r]
    BY <1>5, <2>1 DEF IInv, OwnsRow, PaymentsAssumption
  <2>3. QED
    BY <1>3, <1>5, <2>2 DEF AlreadyApplied, IInv, TypeOK
<1>7. GrantsAccounted'
  BY <1>1, <1>3, <1>5 DEF GrantsAccounted, AlreadyApplied, Overwrite, CountDemotion, IInv, TypeOK
<1>8. PaidMeansMoneyMoved'
  BY <1>3, <1>5 DEF PaidMeansMoneyMoved, IInv
<1>9. \A p \in Payments : status'[p] = "absent" => status[p] = "absent"
  BY <1>5 DEF IInv, TypeOK
<1>10. QED
  BY <1>2, <1>4, <1>6, <1>7, <1>8, <1>9, HandleKeeps DEF Grants, InTransaction

LEMMA CommitStep ==
    ASSUME PaymentsAssumption, IInv, NEW r \in Callbacks, Commit(r)
    PROVE  StepInv' /\ Grants'
<1>1. Handle(r)
  BY DEF Handle
<1>2. /\ UNCHANGED <<session, money, named, target>> /\ target[r] \in Payments
      /\ \A q, t : Covers(q, t)' <=> Covers(q, t)
  BY <1>1, HandleFrame
<1>3. /\ rowLock[target[r]] = r /\ ~AlreadyApplied(target[r])
      /\ asked[r] \in named[target[r]] /\ Covers(target[r], asked[r])
  BY DEF Commit, OwnsRow, Confirmed, InTransaction, IInv
<1>4. pc'[r] = "done" /\ \A q \in Callbacks \ {r} : pc'[q] = pc[q]
  BY DEF Commit, Goto, IInv, TypeOK
<1>5. /\ rowLock' = [rowLock EXCEPT ![target[r]] = Nobody]
      /\ status' = [status EXCEPT ![target[r]] = "paid"]
      /\ applied' = [applied EXCEPT ![target[r]] = TRUE]
      /\ grants' = [grants EXCEPT ![target[r]] = @ + 1]
      /\ demoted' = demoted
  BY DEF Commit
<1>6. \A q \in Callbacks : pc'[q] \in InTransaction =>
          rowLock'[target[q]] = q /\ ~AlreadyApplied(target[q])'
  <2> SUFFICES ASSUME NEW q \in Callbacks, pc'[q] \in InTransaction
               PROVE  rowLock'[target[q]] = q /\ ~AlreadyApplied(target[q])'
    OBVIOUS
  <2>1. q # r /\ pc[q] \in InTransaction
    BY <1>4 DEF InTransaction
  <2>2. /\ rowLock[target[q]] = q /\ ~AlreadyApplied(target[q]) /\ target[q] # target[r]
        /\ target[q] \in Payments
    BY <1>3, <2>1 DEF IInv, OwnsRow, HasTarget, InTransaction
  <2>3. /\ rowLock'[target[q]] = rowLock[target[q]] /\ status'[target[q]] = status[target[q]]
        /\ applied'[target[q]] = applied[target[q]]
    BY <1>5, <2>2 DEF IInv, TypeOK
  <2>4. QED
    BY <1>2, <2>2, <2>3 DEF AlreadyApplied
<1>7. GrantsAccounted'
  <2> SUFFICES ASSUME NEW p \in Payments
               PROVE  /\ grants'[p] = demoted'[p] + (IF AlreadyApplied(p)' THEN 1 ELSE 0)
                      /\ status'[p] = "paid" => applied'[p]
                      /\ applied'[p] <=> grants'[p] > 0
    BY DEF GrantsAccounted
  <2>1. grants[p] \in Nat /\ demoted[p] \in Nat
    BY DEF IInv, TypeOK
  <2>2. CASE p = target[r]
    <3>1. status'[p] = "paid" /\ applied'[p] = TRUE /\ grants'[p] = grants[p] + 1 /\ demoted'[p] = demoted[p]
      BY <1>5, <2>2 DEF IInv, TypeOK
    <3>2. grants[p] = demoted[p]
      BY <1>3, <2>1, <2>2 DEF IInv, GrantsAccounted
    <3>3. QED
      BY <2>1, <3>1, <3>2 DEF AlreadyApplied
  <2>3. CASE p # target[r]
    BY <1>5, <2>3 DEF AlreadyApplied, IInv, TypeOK, GrantsAccounted
  <2>4. QED
    BY <2>2, <2>3
<1>8. PaidMeansMoneyMoved'
  <2> SUFFICES ASSUME NEW p \in Payments, grants'[p] > 0
               PROVE  \E s \in named[p] : Covers(p, s)
    BY <1>2 DEF PaidMeansMoneyMoved
  <2>1. CASE p = target[r]
    BY <1>3, <2>1
  <2>2. CASE p # target[r]
    <3>1. grants'[p] = grants[p]
      BY <1>5, <2>2 DEF IInv, TypeOK
    <3>2. QED
      BY <3>1 DEF PaidMeansMoneyMoved, IInv
  <2>3. QED
    BY <2>1, <2>2
<1>9. \A p \in Payments : status'[p] = "absent" => status[p] = "absent"
  BY <1>5 DEF IInv, TypeOK
<1>10. QED
  BY <1>1, <1>4, <1>6, <1>7, <1>8, <1>9, HandleKeeps DEF Grants, InTransaction

LEMMA HandleStep ==
    ASSUME PaymentsAssumption, IInv, NEW r \in Callbacks, Handle(r) \/ Crash(r)
    PROVE  StepInv' /\ Grants'
<1>1. CASE CancelSave(r) \/ FailSave(r)
  BY <1>1, OverwriteStep
<1>2. CASE Commit(r)
  BY <1>2, CommitStep
<1>3. CASE /\ UNCHANGED <<status, applied, grants, demoted>>
           /\ \A q \in Callbacks \ {r} : pc[q] \in InTransaction => rowLock'[target[q]] = rowLock[target[q]]
           /\ pc'[r] \notin {"idle", "verify"}
           /\ pc'[r] \in InTransaction => rowLock'[target[r]] = r /\ ~AlreadyApplied(target[r])
           /\ pc'[r] \in {"write", "commit"} => draft'[r] \in Draft
           /\ pc'[r] = "lock" \/ pc'[r] \in InTransaction =>
                 asked[r] \in named[target[r]] /\ Covers(target[r], asked[r])
  <2>1. /\ UNCHANGED <<session, money, named, target>>
        /\ \A q, s : Covers(q, s)' <=> Covers(q, s)
        /\ \A q \in Callbacks \ {r} : pc'[q] = pc[q]
    BY HandleFrame
  <2>2. Grants'
    BY <1>3, <2>1 DEF Grants, PaidMeansMoneyMoved, GrantsAccounted, AlreadyApplied, IInv
  <2>3. \A q \in Callbacks : pc'[q] \in InTransaction =>
            rowLock'[target[q]] = q /\ ~AlreadyApplied(target[q])'
    BY <1>3, <2>1 DEF AlreadyApplied, IInv, OwnsRow
  <2>4. QED
    BY <1>3, <2>2, <2>3, HandleKeeps
<1> USE DEF IInv, Goto
<1>4. pc \in [Callbacks -> Labels] /\ rowLock \in [Payments -> Callbacks \cup {Nobody}]
  BY DEF TypeOK
<1>5. CASE VerifyIncomplete(r)
  <2>1. pc'[r] = "done" /\ rowLock' = rowLock /\ UNCHANGED <<status, applied, grants, demoted>>
    BY <1>4, <1>5 DEF VerifyIncomplete, subVars, historyVars
  <2>2. QED
    BY <1>3, <2>1 DEF InTransaction
<1>6. CASE Verify(r)
  <2>1. PICK reply \in Replies(asked[r]) :
            Goto(r, IF Accepts(target[r], reply) THEN "lock"
                    ELSE IF reply.error THEN "fail" ELSE "reject")
    BY <1>6 DEF Verify
  <2>2. /\ asked[r] \in named[target[r]] /\ asked[r] \in Payments /\ target[r] \in Payments
    BY <1>6 DEF Verify, AskedIsNamed, HasTarget, TypeOK
  <2>3. Accepts(target[r], reply) => Covers(target[r], asked[r])
    BY <2>2, AcceptedCovers
  <2>4. /\ pc'[r] \in {"lock", "fail", "reject"}
        /\ pc'[r] = "lock" => Covers(target[r], asked[r])
    BY <1>4, <2>1, <2>3
  <2>5. rowLock' = rowLock /\ UNCHANGED <<status, applied, grants, demoted>>
    BY <1>6 DEF Verify, historyVars
  <2>6. QED
    BY <1>3, <2>2, <2>4, <2>5 DEF InTransaction
<1>7. \/ asked[r] \in named[target[r]] /\ Covers(target[r], asked[r])
      \/ ~(pc[r] = "lock" \/ pc[r] \in InTransaction)
  BY DEF Confirmed
<1>8. CASE LockRow(r)
  <2>1. /\ pc[r] = "lock" /\ rowLock[target[r]] = Nobody /\ target[r] \in Payments
        /\ UNCHANGED <<status, applied, grants, demoted>>
        /\ \/ AlreadyApplied(target[r]) /\ pc'[r] = "done" /\ rowLock' = rowLock
           \/ /\ ~AlreadyApplied(target[r]) /\ pc'[r] = "read"
              /\ rowLock' = [rowLock EXCEPT ![target[r]] = r]
    BY <1>4, <1>8 DEF LockRow, historyVars, HasTarget
  <2>2. \A q \in Callbacks \ {r} : pc[q] \in InTransaction => target[q] # target[r]
    BY <2>1 DEF OwnsRow, PaymentsAssumption
  <2>3. rowLock'[target[r]] = r \/ pc'[r] = "done"
    BY <1>4, <2>1
  <2>4. \A q \in Callbacks \ {r} : pc[q] \in InTransaction => rowLock'[target[q]] = rowLock[target[q]]
    BY <1>4, <2>1, <2>2 DEF HasTarget, InTransaction
  <2>5. QED
    BY <1>3, <1>7, <2>1, <2>3, <2>4 DEF InTransaction
<1>9. CASE ReadSub(r)
  <2>1. /\ pc[r] = "read" /\ pc'[r] = "write" /\ rowLock' = rowLock
        /\ UNCHANGED <<status, applied, grants, demoted>>
    BY <1>4, <1>9 DEF ReadSub
  <2>2. draft'[r] \in Draft
    <3>1. target[r] \in Payments
      BY <2>1 DEF HasTarget
    <3>2. draft'[r] = Renewed(sub[OrgOf[target[r]]], PlanOf[target[r]])
      BY <1>9 DEF ReadSub, TypeOK
    <3>3. /\ sub[OrgOf[target[r]]] \in SubRow \cup {NoSub} /\ PlanOf[target[r]] \in Plans /\ now \in Nat
      BY <3>1 DEF TypeOK, PaymentsAssumption
    <3>4. QED
      BY <3>2, <3>3, RenewedIsDraft
  <2>3. QED
    BY <1>3, <1>7, <2>1, <2>2 DEF InTransaction, OwnsRow
<1>10. CASE WriteSub(r)
  <2>1. /\ pc[r] = "write" /\ UNCHANGED <<status, applied, grants, demoted, draft>>
        /\ \/ pc'[r] = "dead" /\ rowLock' = [rowLock EXCEPT ![target[r]] = Nobody]
           \/ pc'[r] = "commit" /\ rowLock' = rowLock
    BY <1>4, <1>10 DEF WriteSub, historyVars
  <2>2. \A q \in Callbacks \ {r} : pc[q] \in InTransaction => target[q] # target[r]
    BY <2>1 DEF OwnsRow, InTransaction
  <2>3. \A q \in Callbacks \ {r} : pc[q] \in InTransaction => rowLock'[target[q]] = rowLock[target[q]]
    BY <1>4, <2>1, <2>2 DEF HasTarget, InTransaction
  <2>4. draft[r] \in Draft
    BY <2>1 DEF HasDraft
  <2>5. QED
    BY <1>3, <1>7, <2>1, <2>3, <2>4 DEF InTransaction, OwnsRow
<1>11. CASE Crash(r)
  <2>1. pc'[r] = "dead" /\ UNCHANGED <<status, applied, grants, demoted>>
    BY <1>4, <1>11 DEF Crash, historyVars
  <2>2. \A q \in Callbacks \ {r} : pc[q] \in InTransaction => rowLock'[target[q]] = rowLock[target[q]]
    BY <1>4, <1>11 DEF Crash, Release, OwnsRow, HasTarget, InTransaction
  <2>3. QED
    BY <1>3, <2>1, <2>2 DEF InTransaction
<1>12. QED
  BY <1>1, <1>2, <1>5, <1>6, <1>8, <1>9, <1>10, <1>11 DEF Handle

\* Every step of the specification keeps the inductive invariant.
LEMMA NextIInv == PaymentsAssumption /\ IInv /\ [Next]_vars => IInv'
<1> SUFFICES ASSUME PaymentsAssumption, IInv, [Next]_vars
             PROVE  IInv'
  OBVIOUS
<1>1. TypeOK'
  BY NextTypeOK DEF IInv
<1>2. StepInv' /\ Grants'
  <2>1. CASE \E p \in Payments : Start(p) \/ PayerActs(p)
    BY <2>1, StartStep
  <2>2. CASE \E r \in Callbacks, p \in Payments : Arrive(r, p)
    BY <2>2, ArriveStep
  <2>3. CASE \E r \in Callbacks : Handle(r) \/ Crash(r)
    BY <2>3, HandleStep
  <2>4. CASE Tick \/ UNCHANGED vars
    BY <2>4 DEF Tick, vars, IInv, StepInv, HasTarget, HasDraft, OwnsRow, Unopened, AskedIsNamed,
       Confirmed, Grants,
       PaidMeansMoneyMoved, Covers, GrantsAccounted, AlreadyApplied, gatewayVars, subVars, requestVars, historyVars
  <2>5. QED
    BY <2>1, <2>2, <2>3, <2>4 DEF Next
<1>3. QED
  BY <1>1, <1>2 DEF IInv, StepInv, Grants

-----------------------------------------------------------------------------
(* The theorems                                                             *)

LEMMA Invariance == Spec => []IInv
<1>1. Init => IInv
  BY InitIInv, PaymentsAssumption
<1>2. IInv /\ [Next]_vars => IInv'
  BY NextIInv, PaymentsAssumption
<1>3. QED
  BY <1>1, <1>2, PTL DEF Spec

\* Every variable keeps its type.
THEOREM TypeCorrect == Spec => []TypeOK
<1>1. IInv => TypeOK
  BY DEF IInv
<1>2. QED
  BY <1>1, Invariance, PTL

\* The row lock with the second look makes a paid row safe from a second grant,
\* for any number of concurrent callbacks: each grant beyond the first is paid
\* for by a late failure or cancel that took the row out of "paid".
THEOREM GrantsAreAccounted == Spec => []GrantsAccounted
<1>1. IInv => GrantsAccounted
  BY DEF IInv
<1>2. QED
  BY <1>1, Invariance, PTL

\* No interleaving of callbacks, whatever sessions they name for whatever rows, grants a
\* plan without a session that a callback named for the row and that brought its price.
THEOREM NoGrantWithoutMoney == Spec => []PaidMeansMoneyMoved
<1>1. IInv => PaidMeansMoneyMoved
  BY DEF IInv
<1>2. QED
  BY <1>1, Invariance, PTL
-----------------------------------------------------------------------------
(* Payments implements PaymentLedger                                        *)

LEMMA OverwriteIsDrop ==
    ASSUME IInv, NEW r \in Callbacks, pc[r] \in {"cancel", "fail", "reject"},
           NEW s \in {"failed", "canceled"}, Overwrite(r, s)
    PROVE  Ledger!Next
<1>1. target[r] \in Payments /\ status[target[r]] # "absent"
  BY DEF IInv, HasTarget, Unopened
<1>2. Ledger!Drop(target[r], s)
  BY <1>1 DEF Overwrite, Ledger!Drop
<1>3. QED
  BY <1>1, <1>2 DEF Ledger!Next

LEMMA StepIsLedgerStep == IInv /\ [Next]_vars => [Ledger!Next]_(Ledger!ledgerVars)
<1> SUFFICES ASSUME IInv, [Next]_vars
             PROVE  Ledger!Next \/ UNCHANGED <<status, grants>>
  BY DEF Ledger!ledgerVars
<1>1. CASE \E p \in Payments : Start(p) \/ PayerActs(p)
  <2>1. PICK p \in Payments : Start(p) \/ PayerActs(p)
    BY <1>1
  <2>2. CASE StartCreate(p)
    <3>1. Ledger!Start(p)
      BY <2>2 DEF StartCreate, Ledger!Start, requestVars, historyVars
    <3>2. QED
      BY <3>1 DEF Ledger!Next
  <2>3. CASE StartRefused(p)
    <3>1. Ledger!Drop(p, "failed")
      BY <2>3 DEF StartRefused, Refuses, Ledger!Drop, requestVars, historyVars, IInv, Unopened
    <3>2. QED
      BY <3>1 DEF Ledger!Next
  <2>4. CASE StartAccepted(p) \/ StartDies(p) \/ PayerActs(p)
    BY <2>4 DEF StartAccepted, Opens, StartDies, PayerActs, requestVars, historyVars
  <2>5. QED
    BY <2>1, <2>2, <2>3, <2>4 DEF Start
<1>2. CASE \E r \in Callbacks : Handle(r) \/ Crash(r)
  <2>1. PICK r \in Callbacks : Handle(r) \/ Crash(r)
    BY <1>2
  <2>2. CASE CancelSave(r) \/ FailSave(r)
    BY <2>2, OverwriteIsDrop DEF CancelSave, FailSave
  <2>3. CASE Commit(r)
    <3>1. /\ target[r] \in Payments
          /\ status[target[r]] \in {"pending", "failed", "canceled"}
      BY <2>3 DEF Commit, IInv, TypeOK, Statuses, HasTarget, OwnsRow, Unopened, AskedIsNamed, Confirmed,
         GrantsAccounted, AlreadyApplied, InTransaction
    <3>2. Ledger!Settle(target[r])
      BY <2>3, <3>1 DEF Commit, Ledger!Settle
    <3>3. QED
      BY <3>1, <3>2 DEF Ledger!Next
  <2>4. CASE VerifyIncomplete(r) \/ Verify(r) \/ LockRow(r) \/ ReadSub(r) \/ WriteSub(r) \/ Crash(r)
    BY <2>4 DEF VerifyIncomplete, Verify, LockRow, ReadSub, WriteSub, Crash, requestVars, historyVars
  <2>5. QED
    BY <2>1, <2>2, <2>3, <2>4 DEF Handle
<1>3. CASE \/ \E r \in Callbacks, p \in Payments : Arrive(r, p)
           \/ Tick
           \/ UNCHANGED vars
  BY <1>3 DEF Arrive, CallbackCancelled, CallbackReturned, Tick, vars, requestVars, historyVars
<1>4. QED
  BY <1>1, <1>2, <1>3 DEF Next

\* The interleaved, crashing handlers implement the atomic ledger.
THEOREM Implementation == Spec => ImplementsLedger
<1>1. Init => Ledger!Init
  BY DEF Init, Ledger!Init
<1>2. QED
  BY <1>1, Invariance, StepIsLedgerStep, PTL DEF Spec, ImplementsLedger, Ledger!Spec

-----------------------------------------------------------------------------
(* What a grant is worth                                                    *)

\* The draft of a transaction is a full period of the plan that was paid; the
\* clock does not turn a month while a transaction runs.
FullDraft ==
    \A r \in Callbacks : pc[r] \in {"write", "commit"} =>
        LET row == draft[r].row
        IN  /\ row.plan = PlanOf[target[r]]
            /\ row.state = "active"
            /\ row.end >= now + Months[PlanOf[target[r]]]

LEMMA RenewedIsFull ==
    ASSUME PaymentsAssumption, now \in Nat,
           NEW current \in SubRow \cup {NoSub}, NEW plan \in Plans
    PROVE  /\ Renewed(current, plan).row.plan = plan
           /\ Renewed(current, plan).row.state = "active"
           /\ Renewed(current, plan).row.end >= now + Months[plan]
<1>1. Months[plan] \in Nat
  BY DEF PaymentsAssumption
<1>2. CASE current = NoSub
  BY <1>1, <1>2 DEF Renewed
<1>3. CASE current # NoSub
  <2>1. PeriodStart(current, plan) \in Nat /\ PeriodStart(current, plan) >= now
    BY <1>3 DEF PeriodStart, SubRow
  <2>2. QED
    BY <1>1, <1>3, <2>1 DEF Renewed
<1>4. QED
  BY <1>2, <1>3

\* What a transaction has drafted changes with its own read alone.
LEMMA DraftsStay ==
    ASSUME IInv, [Next]_vars, ~Tick, ~(\E r \in Callbacks : ReadSub(r))
    PROVE  /\ UNCHANGED <<draft, now>>
           /\ \A r \in Callbacks : pc'[r] \in {"write", "commit"} =>
                 pc[r] \in {"write", "commit"} /\ target'[r] = target[r]
           /\ (\E r \in Callbacks : Commit(r)) \/ UNCHANGED <<sub, grants, overtaken>>
<1>1. CASE \E p \in Payments : Start(p) \/ PayerActs(p)
  BY <1>1 DEF Start, StartCreate, StartAccepted, StartRefused, StartDies, PayerActs,
     subVars, requestVars, historyVars
<1>2. CASE \E r \in Callbacks, p \in Payments : Arrive(r, p)
  <2>1. PICK r \in Callbacks, p \in Payments : Arrived(r, p)
    BY <1>2, ArriveIsArrived DEF IInv
  <2>2. QED
    BY <2>1 DEF Arrived, subVars, historyVars, IInv, TypeOK
<1>3. CASE \E r \in Callbacks : Handle(r) \/ Crash(r)
  <2>1. PICK r \in Callbacks : Handle(r) \/ Crash(r)
    BY <1>3
  <2>2. CASE CancelSave(r) \/ FailSave(r) \/ VerifyIncomplete(r) \/ Verify(r) \/ LockRow(r)
    BY <2>2 DEF CancelSave, FailSave, Overwrite, VerifyIncomplete, Verify, LockRow, Goto,
       subVars, requestVars, historyVars, IInv, TypeOK
  <2>3. CASE WriteSub(r) \/ Commit(r) \/ Crash(r)
    BY <2>3 DEF WriteSub, Commit, Crash, Goto, requestVars, historyVars, IInv, TypeOK
  <2>4. QED
    BY <2>1, <2>2, <2>3 DEF Handle
<1>4. CASE UNCHANGED vars
  BY <1>4 DEF vars
<1>5. QED
  BY <1>1, <1>2, <1>3, <1>4 DEF Next

LEMMA FullDraftStep ==
    ASSUME PaymentsAssumption, IInv, FullDraft, [Next]_vars
    PROVE  FullDraft'
<1>1. CASE \E r \in Callbacks : ReadSub(r)
  <2>1. PICK r \in Callbacks : ReadSub(r)
    BY <1>1
  <2>2. target[r] \in Payments
    BY <2>1 DEF ReadSub, IInv, HasTarget
  <2>3. draft'[r] = Renewed(sub[OrgOf[target[r]]], PlanOf[target[r]])
    BY <2>1 DEF ReadSub, IInv, TypeOK
  <2>4. /\ sub[OrgOf[target[r]]] \in SubRow \cup {NoSub}
        /\ PlanOf[target[r]] \in Plans
        /\ now \in Nat
    BY <2>2 DEF PaymentsAssumption, IInv, TypeOK
  <2>5. /\ draft'[r].row.plan = PlanOf[target[r]]
        /\ draft'[r].row.state = "active"
        /\ draft'[r].row.end >= now + Months[PlanOf[target[r]]]
    <3> DEFINE current == sub[OrgOf[target[r]]]
               plan == PlanOf[target[r]]
    <3>1. /\ Renewed(current, plan).row.plan = plan
          /\ Renewed(current, plan).row.state = "active"
          /\ Renewed(current, plan).row.end >= now + Months[plan]
      <4> HIDE DEF current, plan
      <4>1. current \in SubRow \cup {NoSub} /\ plan \in Plans /\ now \in Nat
        BY <2>4 DEF current, plan
      <4>2. QED
        BY <4>1, RenewedIsFull
    <3>2. QED
      BY <2>3, <3>1
  <2>6. \A q \in Callbacks \ {r} : draft'[q] = draft[q] /\ pc'[q] = pc[q]
    BY <2>1 DEF ReadSub, Goto, IInv, TypeOK
  <2>7. QED
    BY <2>1, <2>5, <2>6 DEF ReadSub, FullDraft, requestVars, historyVars
<1>2. CASE /\ ~(\E r \in Callbacks : ReadSub(r))
           /\ ~Tick
  BY <1>2, DraftsStay DEF FullDraft
<1>3. CASE Tick
  BY <1>3 DEF Tick, FullDraft, InTransaction
<1>4. QED
  BY <1>1, <1>2, <1>3

LEMMA GrantIsCommit ==
    ASSUME PaymentsAssumption, NoSubAssumption, IInv, FullDraft, [Next]_vars,
           NEW p \in Payments, grants'[p] > grants[p]
    PROVE  LET row == sub'[OrgOf[p]]
           IN  /\ row # NoSub
               /\ row.plan = PlanOf[p]
               /\ row.state = "active"
               /\ row.end >= now + Months[PlanOf[p]]
<1>1. PICK r \in Callbacks : Commit(r)
  BY DEF Next, vars, Start, StartCreate, StartAccepted, Opens, StartRefused, Refuses, StartDies, PayerActs,
     Arrive, CallbackCancelled, CallbackReturned, Handle, CancelSave, FailSave, Overwrite,
     VerifyIncomplete, Verify, LockRow, ReadSub, WriteSub, Crash, Tick, requestVars, historyVars, IInv, TypeOK
<1>2. target[r] = p
  BY <1>1 DEF Commit, IInv, TypeOK
<1>3. sub'[OrgOf[p]] = draft[r].row
  BY <1>1, <1>2 DEF Commit, IInv, TypeOK, PaymentsAssumption
<1>4. draft[r].row \in SubRow
  BY <1>1 DEF Commit, IInv, HasDraft, Draft
<1>5. QED
  BY <1>1, <1>2, <1>3, <1>4, NoSubAssumption DEF Commit, FullDraft

\* Whatever stale row the renewal was computed from, the organization gets the
\* plan it paid for and a full period of it.
THEOREM GrantsAreWorthAPeriod == Spec => GrantGivesFullPeriod
<1>1. Init => FullDraft
  BY DEF Init, FullDraft
<1>2. IInv /\ FullDraft /\ [Next]_vars => FullDraft'
  BY FullDraftStep, PaymentsAssumption
<1>3. IInv /\ FullDraft /\ [Next]_vars =>
        [\A p \in Payments : grants'[p] > grants[p] =>
            LET row == sub'[OrgOf[p]]
            IN  /\ row # NoSub
                /\ row.plan = PlanOf[p]
                /\ row.state = "active"
                /\ row.end >= now + Months[PlanOf[p]]]_vars
  BY GrantIsCommit, PaymentsAssumption, NoSubAssumption
<1>4. QED
  BY <1>1, <1>2, <1>3, Invariance, PTL DEF Spec, GrantGivesFullPeriod
-----------------------------------------------------------------------------
(* What a stale read costs                                                  *)

\* A commit writes the Subscription row of its organization.  Another transaction of the
\* organization that has read the row before is about another payment, since both own
\* the lock of theirs, and that payment is granted now.
LEMMA CommitMakesStale ==
    ASSUME PaymentsAssumption, IInv, StaleOnlyAcrossPayments, NEW c \in Callbacks, Commit(c)
    PROVE  StaleOnlyAcrossPayments'
<1> SUFFICES ASSUME NEW r \in Callbacks, pc'[r] \in {"write", "commit"}
             PROVE  \/ draft'[r] = Renewed(sub[OrgOf[target[r]]], PlanOf[target[r]])'
                    \/ \E q \in overtaken'[r] \ {target'[r]} : OrgOf[q] = OrgOf[target'[r]]
  BY DEF StaleOnlyAcrossPayments
<1>1. /\ r # c /\ pc[r] \in {"write", "commit"}
      /\ target' = target /\ draft' = draft /\ now' = now
  BY DEF Commit, Goto, requestVars, IInv, TypeOK
<1>2. /\ target[r] \in Payments /\ target[c] \in Payments
      /\ rowLock[target[r]] = r /\ rowLock[target[c]] = c
  BY <1>1 DEF Commit, InTransaction, IInv, HasTarget, OwnsRow
<1>3. target[c] # target[r]
  BY <1>1, <1>2
<1>4. overtaken'[r] = overtaken[r] \cup {target[c]}
  BY <1>1 DEF Commit
<1>5. CASE OrgOf[target[c]] = OrgOf[target[r]]
  BY <1>1, <1>3, <1>4, <1>5
<1>6. CASE OrgOf[target[c]] # OrgOf[target[r]]
  <2>1. sub'[OrgOf[target[r]]] = sub[OrgOf[target[r]]]
    BY <1>2, <1>6 DEF Commit, IInv, TypeOK, PaymentsAssumption
  <2>2. \/ draft[r] = Renewed(sub[OrgOf[target[r]]], PlanOf[target[r]])
        \/ \E q \in overtaken[r] \ {target[r]} : OrgOf[q] = OrgOf[target[r]]
    BY <1>1 DEF StaleOnlyAcrossPayments
  <2>3. QED
    BY <1>1, <1>4, <2>1, <2>2 DEF Renewed, PeriodStart
<1>7. QED
  BY <1>5, <1>6

\* The transaction that reads has a fresh draft, the others keep theirs.
LEMMA ReadMakesFresh ==
    ASSUME IInv, StaleOnlyAcrossPayments, NEW r \in Callbacks, ReadSub(r)
    PROVE  StaleOnlyAcrossPayments'
<1>1. /\ draft'[r] = Renewed(sub[OrgOf[target[r]]], PlanOf[target[r]])
      /\ \A q \in Callbacks \ {r} :
            draft'[q] = draft[q] /\ pc'[q] = pc[q] /\ overtaken'[q] = overtaken[q]
      /\ UNCHANGED <<sub, target, now>>
  BY DEF ReadSub, Goto, subVars, requestVars, IInv, TypeOK
<1> SUFFICES ASSUME NEW q \in Callbacks, pc'[q] \in {"write", "commit"}
             PROVE  \/ draft'[q] = Renewed(sub[OrgOf[target[q]]], PlanOf[target[q]])
                    \/ \E p \in overtaken'[q] \ {target[q]} : OrgOf[p] = OrgOf[target[q]]
  BY <1>1, SMTT(30) DEF StaleOnlyAcrossPayments, Renewed, PeriodStart
<1>2. CASE q = r
  BY <1>1, <1>2
<1>3. CASE q # r
  BY <1>1, <1>3 DEF StaleOnlyAcrossPayments
<1>4. QED
  BY <1>2, <1>3

LEMMA StaleStep ==
    ASSUME PaymentsAssumption, IInv, StaleOnlyAcrossPayments, [Next]_vars
    PROVE  StaleOnlyAcrossPayments'
<1>1. CASE \E r \in Callbacks : Commit(r)
  BY <1>1, CommitMakesStale
<1>2. CASE \E r \in Callbacks : ReadSub(r)
  BY <1>2, ReadMakesFresh
<1>3. CASE Tick
  BY <1>3 DEF Tick, StaleOnlyAcrossPayments, InTransaction
<1>4. CASE ~(\E r \in Callbacks : Commit(r)) /\ ~(\E r \in Callbacks : ReadSub(r)) /\ ~Tick
  BY <1>4, DraftsStay DEF StaleOnlyAcrossPayments, Renewed, PeriodStart
<1>5. QED
  BY <1>1, <1>2, <1>3, <1>4

\* A renewal that is going to be lost means that ANOTHER payment of the organization was
\* granted since the row was read: the callbacks of one payment never work from each
\* other's past.
THEOREM StaleReadsTakeTwoPayments == Spec => []StaleOnlyAcrossPayments
<1>1. Init => StaleOnlyAcrossPayments
  BY DEF Init, StaleOnlyAcrossPayments
<1>2. IInv /\ StaleOnlyAcrossPayments /\ [Next]_vars => StaleOnlyAcrossPayments'
  BY StaleStep, PaymentsAssumption
<1>3. QED
  BY <1>1, <1>2, Invariance, PTL DEF Spec
=============================================================================
