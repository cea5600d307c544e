------------------------------ MODULE Payments ------------------------------
(***************************************************************************)
(* Checkout of a subscription (billing/payments, billing/views.py,          *)
(* billing/subscription.py).  PaymentStartView creates a row and opens a    *)
(* session at the gateway; the payer's browser comes back to the callback   *)
(* view, possibly several times and in several gunicorn workers at once;    *)
(* the view asks the gateway to verify, then applies the plan inside one    *)
(* transaction that holds the row with SELECT FOR UPDATE.                   *)
(*                                                                          *)
(* PostgreSQL runs at READ COMMITTED with autocommit: a statement outside   *)
(* transaction.atomic() commits at once, an UPDATE waits for the row lock,  *)
(* a SELECT never waits and sees committed rows only.  Time is counted in   *)
(* billing months.                                                          *)
(***************************************************************************)
EXTENDS Naturals, FiniteSets

CONSTANTS
    Payments,       \* primary keys of PaymentTransaction rows, handed out in order
    Callbacks,      \* requests to the callback views; each is handled once
    Orgs,           \* organizations
    Plans,          \* plans with price_toman > 0
    FreePlan,       \* the plan of a trial
    ApiPlans,       \* plans whose capabilities allow "api"
    OrgOf,          \* the organization that starts the payment
    PlanOf,         \* the plan it buys
    GatewayOf,      \* "bitpay" or "zibal"
    Months,         \* length of a plan's period
    Price,          \* price_toman of a plan, the amount of its payments
    Amounts,        \* bound: what payers pay, in rial
    Horizon,        \* bound: the clock stops here
    Nobody,         \* no request holds the lock
    NoPayment,      \* the request has not looked its row up yet
    NoSub           \* the organization has no Subscription row

ASSUME PaymentsAssumption ==
    /\ Payments \subseteq Nat
    /\ OrgOf \in [Payments -> Orgs]
    /\ PlanOf \in [Payments -> Plans]
    /\ GatewayOf \in [Payments -> {"bitpay", "zibal"}]
    /\ Months \in [Plans -> Nat \ {0}]
    /\ Price \in [Plans -> Nat \ {0}]
    /\ Amounts \subseteq Nat
    /\ ApiPlans \subseteq Plans
    /\ FreePlan \notin Plans
    /\ Horizon \in Nat
    /\ Nobody \notin Callbacks
    /\ NoPayment \notin Payments

VARIABLES
    status,         \* PaymentTransaction.status; "absent" before the insert
    applied,        \* applied_at (and verified_at) is set
    starting,       \* rows whose start request is waiting for the gateway
    reference,      \* gateway_reference, as the payment whose session it names
    session,        \* the gateway's side: what became of the session of a payment
    money,          \* the gateway's side: what was paid in it, in rial
    sub,            \* the Subscription row of each organization
    apiEnabled,     \* Organization.api_enabled
    rowLock,        \* who holds the PaymentTransaction row lock
    subLock,        \* who holds the Subscription row lock
    pc,             \* where the handler of each callback request is
    target,         \* the row the handler found
    asked,          \* the session it asks the gateway about
    draft,          \* the Subscription row its transaction is going to write
    now,            \* timezone.now(), in months
    grants,         \* history: committed applications of the row's plan
    demoted,        \* history: how often a paid and applied row left "paid"
    named,          \* history: the sessions callbacks named for a row
    overtaken       \* history: the payments granted since a handler read its row

gatewayVars == <<starting, session, money>>
requestVars == <<target, asked, named>>
historyVars == <<grants, demoted, overtaken>>
subVars     == <<sub, apiEnabled, subLock>>
vars == <<status, applied, starting, reference, session, money, sub, apiEnabled, rowLock,
          subLock, pc, target, asked, draft, now, grants, demoted, named, overtaken>>

Statuses == {"absent", "pending", "paid", "failed", "canceled"}
\* Sessions in which money moved; the answer about a quiet one need not tell how much.
Moved == {"paid", "quiet"}
Sessions == {"none", "open", "refused"} \cup Moved

\* The Subscription rows the code can write.  "fresh" tells an INSERT from an
\* UPDATE while the row is still a draft of the handler.
SubRow == [plan : Plans \cup {FreePlan}, state : {"trial", "active"}, end : Nat]
Draft  == [row : SubRow, fresh : BOOLEAN]

ASSUME NoSubAssumption == NoSub \notin SubRow

InTransaction == {"read", "write", "commit"}
Labels == {"idle", "cancel", "verify", "fail", "reject", "lock", "done", "dead"}
              \cup InTransaction

TypeOK ==
    /\ status \in [Payments -> Statuses]
    /\ applied \in [Payments -> BOOLEAN]
    /\ starting \in SUBSET Payments
    /\ reference \in [Payments -> Payments \cup {NoPayment}]
    /\ session \in [Payments -> Sessions]
    /\ money \in [Payments -> Nat]
    /\ sub \in [Orgs -> SubRow \cup {NoSub}]
    /\ apiEnabled \in [Orgs -> BOOLEAN]
    /\ rowLock \in [Payments -> Callbacks \cup {Nobody}]
    /\ subLock \in [Orgs -> Callbacks \cup {Nobody}]
    /\ pc \in [Callbacks -> Labels]
    /\ target \in [Callbacks -> Payments \cup {NoPayment}]
    /\ asked \in [Callbacks -> Payments \cup {NoPayment}]
    /\ draft \in [Callbacks -> Draft \cup {NoSub}]
    /\ now \in Nat
    /\ grants \in [Payments -> Nat]
    /\ demoted \in [Payments -> Nat]
    /\ named \in [Payments -> SUBSET Payments]
    /\ overtaken \in [Callbacks -> SUBSET Payments]

Trial == [plan |-> FreePlan, state |-> "trial", end |-> 1]

\* provision_organization is not one transaction: an organization whose request
\* died before ensure_trial_subscription has no Subscription row.
Init ==
    /\ status = [p \in Payments |-> "absent"]
    /\ applied = [p \in Payments |-> FALSE]
    /\ starting = {}
    /\ reference = [p \in Payments |-> NoPayment]
    /\ session = [p \in Payments |-> "none"]
    /\ money = [p \in Payments |-> 0]
    /\ sub \in [Orgs -> {NoSub, Trial}]
    /\ apiEnabled = [o \in Orgs |-> FALSE]
    /\ rowLock = [p \in Payments |-> Nobody]
    /\ subLock = [o \in Orgs |-> Nobody]
    /\ pc = [r \in Callbacks |-> "idle"]
    /\ target = [r \in Callbacks |-> NoPayment]
    /\ asked = [r \in Callbacks |-> NoPayment]
    /\ draft = [r \in Callbacks |-> NoSub]
    /\ now = 0
    /\ grants = [p \in Payments |-> 0]
    /\ demoted = [p \in Payments |-> 0]
    /\ named = [p \in Payments |-> {}]
    /\ overtaken = [r \in Callbacks |-> {}]

-----------------------------------------------------------------------------
(* start_bitpay_payment and start_zibal_payment                             *)

AlreadyApplied(p) == status[p] = "paid" /\ applied[p]

\* A payment left "paid" although it stays applied: counted for the properties.
CountDemotion(p) ==
    demoted' = IF AlreadyApplied(p) THEN [demoted EXCEPT ![p] = @ + 1] ELSE demoted

\* The row is inserted with its factor_id and the gateway is called.
StartCreate(p) ==
    /\ status[p] = "absent"
    /\ \A q \in Payments : q < p => status[q] # "absent"
    /\ status' = [status EXCEPT ![p] = "pending"]
    /\ starting' = starting \cup {p}
    /\ UNCHANGED <<applied, reference, session, money, subVars, rowLock, pc, requestVars, draft,
                   now, historyVars>>

\* request_payment: BitPay names the session by a positive number and Zibal by
\* result 100 with a trackId ...
Opens(p) == session' = [session EXCEPT ![p] = "open"]

\* ... and whatever else they answer leaves no session a payer could be sent to.
Refuses == UNCHANGED session

\* The gateway opened a session: gateway_reference is saved and the payer is
\* redirected.
StartAccepted(p) ==
    /\ p \in starting
    /\ rowLock[p] = Nobody
    /\ starting' = starting \ {p}
    /\ Opens(p)
    /\ reference' = [reference EXCEPT ![p] = p]
    /\ UNCHANGED <<status, applied, money, subVars, rowLock, pc, requestVars, draft, now,
                   historyVars>>

\* BitPayError or ZibalError: the row is saved as failed.
StartRefused(p) ==
    /\ p \in starting
    /\ rowLock[p] = Nobody
    /\ starting' = starting \ {p}
    /\ status' = [status EXCEPT ![p] = "failed"]
    /\ CountDemotion(p)
    /\ Refuses
    /\ UNCHANGED <<applied, reference, money, subVars, rowLock, pc, requestVars, draft, now,
                   grants, overtaken>>

\* The worker dies in the call, or the read times out with an exception the
\* client does not catch: the row stays pending without a gateway_reference.
StartDies(p) ==
    /\ p \in starting
    /\ starting' = starting \ {p}
    /\ UNCHANGED <<status, applied, reference, session, money, subVars, rowLock, pc, requestVars,
                   draft, now, historyVars>>

-----------------------------------------------------------------------------
(* The gateway and the payer                                                *)

\* The payer pays some amount or gives up.
PayerActs(p) ==
    /\ session[p] = "open"
    /\ \/ session' = [session EXCEPT ![p] = "refused"] /\ UNCHANGED money
       \/ \E outcome \in Moved, amount \in Amounts :
             /\ session' = [session EXCEPT ![p] = outcome]
             /\ money' = [money EXCEPT ![p] = amount]
    /\ UNCHANGED <<status, applied, starting, reference, subVars, rowLock, pc, requestVars,
                   draft, now, historyVars>>

\* _post_json and _post_form raise: an HTTP error, no connection, or an answer that
\* is not understood.
NoAnswer == [error |-> TRUE, code |-> FALSE, status |-> "absent", told |-> FALSE, amount |-> 0]

\* What verify_payment may find out about a session: a gateway confirms only money it
\* has, with a result code (Zibal alone has one) and a status it may leave out.
Replies(s) ==
    {NoAnswer} \cup
    IF session[s] \in Moved
    THEN [error : {FALSE}, code : {TRUE}, status : {"paid", "absent"},
          told : {session[s] = "paid", TRUE}, amount : {money[s]}]
    ELSE [error : {FALSE}, code : {FALSE}, status : {"other", "absent"},
          told : {FALSE}, amount : {0}]

\* _status_is_success: without a status BitPay has not confirmed.
BitPaySucceeds(reply) == reply.status = "paid"

\* A Zibal result code counts as paid when no status says otherwise.
ZibalSucceeds(reply) == reply.code /\ reply.status # "other"

\* ROUND_HALF_UP to whole toman.
RialToToman(rials) == (rials + 5) \div 10

\* Mutant: rounded up.
BitPayMatchesRoundedUp(reply, price) ==
    reply.told => reply.amount = price \/ (reply.amount + 9) \div 10 = price

\* An amount that is told must be the one of the row; BitPay's may be in toman or in
\* rial, and a rial amount is rounded.
BitPayMatches(reply, price) ==
    reply.told =>
        \/ reply.amount = price
        \/ RialToToman(reply.amount) = price
        \/ reply.amount = 10 * price

\* Mutant: the client's amount_toman_to_rial is taken for optional.
ZibalMatchesEitherUnit(reply, price) == reply.told => reply.amount \in {price, 10 * price}

ZibalMatches(reply, price) == reply.told => reply.amount = 10 * price

Accepts(p, reply) ==
    /\ ~reply.error
    /\ IF GatewayOf[p] = "bitpay"
         THEN BitPayMatches(reply, Price[PlanOf[p]]) /\ BitPaySucceeds(reply)
         ELSE ZibalMatches(reply, Price[PlanOf[p]]) /\ ZibalSucceeds(reply)

-----------------------------------------------------------------------------
(* BitPayCallbackView and ZibalCallbackView                                 *)

Goto(r, label) == pc' = [pc EXCEPT ![r] = label]

\* The rows of a gateway that carry the reference of a request.
Referring(gateway, ref) ==
    {q \in Payments : GatewayOf[q] = gateway /\ reference[q] = ref /\ ref # NoPayment}

\* The newest row with the gateway_reference of the request or, when there is none,
\* the row with its factor_id.  Either may be missing, and nothing compares the two.
Finds(p, ref, order) ==
    LET known == Referring(GatewayOf[p], ref)
    IN  /\ status[p] # "absent"
        /\ IF known # {} THEN p \in known /\ \A q \in known : q <= p ELSE p = order

\* The session the handler will ask about is the one the request names; only without
\* one it is the one of the row.
Receive(r, p, ref) ==
    LET s == IF ref # NoPayment THEN ref ELSE reference[p]
    IN  /\ target' = [target EXCEPT ![r] = p]
        /\ asked' = [asked EXCEPT ![r] = s]
        /\ named' = [named EXCEPT ![p] = @ \cup ({s} \ {NoPayment})]

\* success=0: Zibal sends the browser back without a payment.
CallbackCancelled(r, p, ref, order) ==
    /\ pc[r] = "idle"
    /\ Finds(p, ref, order)
    /\ GatewayOf[p] = "zibal"
    /\ target' = [target EXCEPT ![r] = p]
    /\ Goto(r, "cancel")
    /\ UNCHANGED <<status, applied, reference, gatewayVars, subVars, rowLock, asked, named,
                   draft, now, historyVars>>

\* The row is read again (refresh_from_db); an applied row is answered at once.
CallbackReturned(r, p, ref, order) ==
    /\ pc[r] = "idle"
    /\ Finds(p, ref, order)
    /\ Receive(r, p, ref)
    /\ Goto(r, IF AlreadyApplied(p) THEN "done" ELSE "verify")
    /\ UNCHANGED <<status, applied, reference, gatewayVars, subVars, rowLock, draft, now,
                   historyVars>>

\* Zibal's handler saves the reference it asked about with the answer.
KeepAsked(r) ==
    reference' = IF GatewayOf[target[r]] = "zibal"
                   THEN [reference EXCEPT ![target[r]] = asked[r]]
                   ELSE reference

\* An unconditional UPDATE of the status: it waits for the row lock only.
Overwrite(r, newStatus) ==
    LET p == target[r]
    IN  /\ rowLock[p] = Nobody
        /\ status' = [status EXCEPT ![p] = newStatus]
        /\ CountDemotion(p)
        /\ Goto(r, "done")
        /\ UNCHANGED <<applied, gatewayVars, subVars, rowLock, requestVars, draft, now, grants,
                       overtaken>>

CancelSave(r) == pc[r] = "cancel" /\ Overwrite(r, "canceled") /\ UNCHANGED reference

\* No trans_id, no session to ask about, or the gateway was unconfigured meanwhile:
\* PaymentError before anything is written.
VerifyIncomplete(r) ==
    /\ pc[r] = "verify"
    /\ Goto(r, "done")
    /\ UNCHANGED <<status, applied, reference, gatewayVars, subVars, rowLock, requestVars, draft,
                   now, historyVars>>

\* The gateway is asked with no lock held.
Verify(r) ==
    /\ pc[r] = "verify"
    /\ asked[r] # NoPayment
    /\ \E reply \in Replies(asked[r]) :
          Goto(r, IF Accepts(target[r], reply) THEN "lock"
                  ELSE IF reply.error THEN "fail" ELSE "reject")
    /\ UNCHANGED <<status, applied, reference, gatewayVars, subVars, rowLock, requestVars, draft,
                   now, historyVars>>

\* _mark_payment_failed, with what the answer told if there was one.
FailSave(r) ==
    \/ pc[r] = "fail" /\ Overwrite(r, "failed") /\ UNCHANGED reference
    \/ pc[r] = "reject" /\ Overwrite(r, "failed") /\ KeepAsked(r)

\* Mutant: a plain SELECT, so that the second look protects nothing.
LockRowUnlocked(r) ==
    /\ pc[r] = "lock"
    /\ rowLock[target[r]] = Nobody
    /\ Goto(r, IF AlreadyApplied(target[r]) THEN "done" ELSE "read")
    /\ UNCHANGED <<status, applied, reference, gatewayVars, subVars, rowLock, requestVars, draft,
                   now, historyVars>>

\* Mutant: the row is locked but not looked at again.
LockRowUnchecked(r) ==
    /\ pc[r] = "lock"
    /\ rowLock[target[r]] = Nobody
    /\ Goto(r, "read")
    /\ rowLock' = [rowLock EXCEPT ![target[r]] = r]
    /\ UNCHANGED <<status, applied, reference, gatewayVars, subVars, requestVars, draft, now,
                   historyVars>>

\* Mutant: a row that is applied already is waited for instead of answered.
LockRowWaits(r) ==
    /\ pc[r] = "lock"
    /\ rowLock[target[r]] = Nobody /\ ~AlreadyApplied(target[r])
    /\ Goto(r, "read")
    /\ rowLock' = [rowLock EXCEPT ![target[r]] = r]
    /\ UNCHANGED <<status, applied, reference, gatewayVars, subVars, requestVars, draft, now,
                   historyVars>>

\* Mutant: the second look only goes on with a row that is still pending.
LockRowPendingOnly(r) ==
    LET go == status[target[r]] = "pending"
    IN  /\ pc[r] = "lock"
        /\ rowLock[target[r]] = Nobody
        /\ Goto(r, IF go THEN "read" ELSE "done")
        /\ rowLock' = IF go THEN [rowLock EXCEPT ![target[r]] = r] ELSE rowLock
        /\ UNCHANGED <<status, applied, reference, gatewayVars, subVars, requestVars, draft, now,
                   historyVars>>

\* SELECT ... FOR UPDATE, then the second look at the row.
LockRow(r) ==
    LET p == target[r]
    IN  /\ pc[r] = "lock"
        /\ rowLock[p] = Nobody
        /\ IF AlreadyApplied(p)
             THEN Goto(r, "done") /\ UNCHANGED rowLock
             ELSE Goto(r, "read") /\ rowLock' = [rowLock EXCEPT ![p] = r]
        /\ UNCHANGED <<status, applied, reference, gatewayVars, subVars, requestVars, draft, now,
                   historyVars>>

-----------------------------------------------------------------------------
(* apply_subscription_plan, inside the transaction                          *)

\* Mutant: a period that has run out is extended from its old end.
PeriodStartExpired(current, plan) ==
    IF current.state = "active" /\ current.plan = plan THEN current.end ELSE now

\* Where the new period starts: after the running one, if it is the same plan.
PeriodStart(current, plan) ==
    IF /\ current.state = "active"
       /\ current.end > now
       /\ current.plan = plan
    THEN current.end
    ELSE now

\* The Subscription row computed from the one that was read.
Renewed(current, plan) ==
    [row   |-> [plan  |-> plan,
                state |-> "active",
                end   |-> Months[plan] + (IF current = NoSub THEN now ELSE PeriodStart(current, plan))],
     fresh |-> current = NoSub]

ReadSub(r) ==
    /\ pc[r] = "read"
    /\ draft' = [draft EXCEPT ![r] = Renewed(sub[OrgOf[target[r]]], PlanOf[target[r]])]
    /\ overtaken' = [overtaken EXCEPT ![r] = {}]
    /\ Goto(r, "write")
    /\ UNCHANGED <<status, applied, reference, gatewayVars, subVars, rowLock, requestVars, now,
                   grants, demoted>>

\* The INSERT or UPDATE waits for a transaction that wrote the same row; an
\* INSERT then collides with a row committed meanwhile (uniq_org_subscription)
\* and the whole transaction is rolled back.
WriteSub(r) ==
    LET p == target[r]
        o == OrgOf[p]
    IN  /\ pc[r] = "write"
        /\ subLock[o] = Nobody
        /\ IF draft[r].fresh /\ sub[o] # NoSub
             THEN /\ Goto(r, "dead")
                  /\ rowLock' = [rowLock EXCEPT ![p] = Nobody]
                  /\ UNCHANGED subLock
             ELSE /\ Goto(r, "commit")
                  /\ subLock' = [subLock EXCEPT ![o] = r]
                  /\ UNCHANGED rowLock
        /\ UNCHANGED <<status, applied, reference, gatewayVars, sub, apiEnabled, requestVars,
                       draft, now, historyVars>>

\* The created row returns before the api flag is looked at.
GrantsApi(r) == PlanOf[target[r]] \in ApiPlans /\ ~draft[r].fresh

\* status, applied_at and the subscription become visible together.
Commit(r) ==
    LET p == target[r]
        o == OrgOf[p]
    IN  /\ pc[r] = "commit"
        /\ status' = [status EXCEPT ![p] = "paid"]
        /\ applied' = [applied EXCEPT ![p] = TRUE]
        /\ sub' = [sub EXCEPT ![o] = draft[r].row]
        /\ apiEnabled' = [apiEnabled EXCEPT ![o] = @ \/ GrantsApi(r)]
        /\ KeepAsked(r)
        /\ grants' = [grants EXCEPT ![p] = @ + 1]
        /\ overtaken' = [q \in Callbacks |->
              IF pc[q] \in {"write", "commit"} THEN overtaken[q] \cup {p} ELSE overtaken[q]]
        /\ rowLock' = [rowLock EXCEPT ![p] = Nobody]
        /\ subLock' = [subLock EXCEPT ![o] = Nobody]
        /\ Goto(r, "done")
        /\ UNCHANGED <<gatewayVars, requestVars, draft, now, demoted>>

-----------------------------------------------------------------------------
(* Failures and time                                                        *)

Release(lock, r) == [x \in DOMAIN lock |-> IF lock[x] = r THEN Nobody ELSE lock[x]]

\* A worker dies: the database rolls its transaction back.
Crash(r) ==
    /\ pc[r] \notin {"idle", "done", "dead"}
    /\ Goto(r, "dead")
    /\ rowLock' = Release(rowLock, r)
    /\ subLock' = Release(subLock, r)
    /\ UNCHANGED <<status, applied, reference, gatewayVars, sub, apiEnabled, requestVars, draft,
                   now, historyVars>>

\* Transactions last seconds and periods last months.
Tick ==
    /\ now < Horizon
    /\ \A r \in Callbacks : pc[r] \notin InTransaction
    /\ now' = now + 1
    /\ UNCHANGED <<status, applied, reference, gatewayVars, subVars, rowLock, pc, requestVars,
                   draft, historyVars>>

Start(p) == StartCreate(p) \/ StartAccepted(p) \/ StartRefused(p) \/ StartDies(p)

\* The fields of a request name payments of the view's gateway, or are missing.
Arrive(r, p) ==
    \E ref, order \in {q \in Payments : GatewayOf[q] = GatewayOf[p]} \cup {NoPayment} :
        CallbackCancelled(r, p, ref, order) \/ CallbackReturned(r, p, ref, order)

Handle(r) ==
    \/ CancelSave(r) \/ VerifyIncomplete(r) \/ Verify(r) \/ FailSave(r)
    \/ LockRow(r) \/ ReadSub(r) \/ WriteSub(r) \/ Commit(r)

Next ==
    \/ \E p \in Payments : Start(p) \/ PayerActs(p)
    \/ \E r \in Callbacks, p \in Payments : Arrive(r, p)
    \/ \E r \in Callbacks : Handle(r) \/ Crash(r)
    \/ Tick

Spec == Init /\ [][Next]_vars

\* A handler that was started runs on, and a lock that stays free is granted.
\* Nobody has to pay, to call back, or to survive.
Fairness == \A r \in Callbacks : WF_vars(Handle(r))

FairSpec == Spec /\ Fairness

-----------------------------------------------------------------------------
(* Properties                                                               *)

\* Applying the plan, setting applied_at and the status "paid" are one atomic
\* step for every reader, and a row is applied again only after a late failure
\* or cancel took it out of "paid": the grants of a row are the demotions it
\* suffered, plus one while it is paid.  This is what the row lock and the
\* second _already_applied (service.py:255-265 and 319-329) are for.
GrantsAccounted ==
    \A p \in Payments :
        /\ grants[p] = demoted[p] + (IF AlreadyApplied(p) THEN 1 ELSE 0)
        /\ status[p] = "paid" => applied[p]
        /\ applied[p] <=> grants[p] > 0

\* What a session must have brought for a row: the price or, at BitPay, an amount that is
\* off by less than half a toman up and no more than that down, or a tenth of the price,
\* since its answer is taken in toman or in rial; any amount, if the answer left it out.
Covers(p, s) ==
    LET price == Price[PlanOf[p]]
    IN  \/ session[s] = "quiet"
        \/ session[s] = "paid" /\ GatewayOf[p] = "zibal" /\ money[s] = 10 * price
        \/ /\ session[s] = "paid" /\ GatewayOf[p] = "bitpay"
           /\ money[s] = price \/ (10 * price <= money[s] + 5 /\ money[s] < 10 * price + 5)

\* A plan is granted only for a session that was paid and that a callback named for this
\* row: the row's own one whenever the two fields of each callback belonged together,
\* however often it is repeated or its row fails in between (service.py:166-185, 217,
\* 237-253, 277 and 302-317, bitpay.py:84-93).
PaidMeansMoneyMoved ==
    \A p \in Payments : grants[p] > 0 => \E s \in named[p] : Covers(p, s)

\* A committed grant gives the organization the plan it paid for and at least
\* one full period from now, also when an older period has run out or another
\* payment renewed the same row concurrently (subscription.py:16-55).
GrantGivesFullPeriod ==
    [][\A p \in Payments : grants'[p] > grants[p] =>
          LET row == sub'[OrgOf[p]]
          IN  /\ row # NoSub
              /\ row.plan = PlanOf[p]
              /\ row.state = "active"
              /\ row.end >= now + Months[PlanOf[p]]]_vars

\* The Subscription row is read without a lock.  What a transaction is going to write can
\* be stale, so that a renewal gets lost, only if ANOTHER payment of the organization was
\* granted since it read: repeated callbacks of one payment exclude each other by its row
\* lock (subscription.py:19-51 under service.py:256).
StaleOnlyAcrossPayments ==
    \A r \in Callbacks :
        LET p == target[r]
        IN  pc[r] \in {"write", "commit"} =>
              \/ draft[r] = Renewed(sub[OrgOf[p]], PlanOf[p])
              \/ \E q \in overtaken[r] \ {p} : OrgOf[q] = OrgOf[p]

\* Two locks are taken in the same order by every handler: each request that
\* reached a view is answered or dies, none waits for ever.
EveryCallbackAnswered ==
    \A r \in Callbacks : pc[r] \notin {"idle", "done", "dead"} ~> pc[r] \in {"done", "dead"}

\* Once the gateway confirmed a payment to a handler, the plan is applied unless
\* that handler dies: waiting for the row never ends in losing the payment.
ConfirmedIsApplied ==
    \A r \in Callbacks, p \in Payments :
        pc[r] = "lock" /\ target[r] = p ~> applied[p] \/ pc[r] = "dead"

\* docs/ARCHITECTURE.md:119 describes one flow "start -> callback -> verify ->
\* apply" per payment: one payment buys one period.
AppliedAtMostOnce == \A p \in Payments : grants[p] <= 1

Ledger == INSTANCE PaymentLedger

\* The interleaved handlers behave, for every reader of the row, like the atomic
\* steps of PaymentLedger: nothing grants a plan to a row that is already paid.
ImplementsLedger == Ledger!Spec
=============================================================================
