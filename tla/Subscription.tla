---------------------------- MODULE Subscription ----------------------------
(***************************************************************************)
(* What a tenant may use and what it pays for: the billing state on its      *)
(* Settings row (backend core/subscription_access.py, modules/               *)
(* subscription_billing, internal_cron, admin_subscriptions), the gate in    *)
(* front of the billing app, its payment window, and the operator's page of  *)
(* the admin portal.                                                        *)
(*                                                                         *)
(* Every function of the backend reads rows without a lock, decides, and      *)
(* writes at its commit the columns it changed, over whatever was committed   *)
(* in between: here a transaction in txn from its read to its commit.        *)
(* Razorpay holds the money; it answers the browser and, at least once and   *)
(* in any order, calls the webhook.                                          *)
(*                                                                         *)
(* MaxPresses and MaxOpen bound the operator's presses and how many           *)
(* transactions overlap.  Left out: the dates and reasons kept beside the    *)
(* status, which nothing decides by ("Extend subscription" sets such a date,  *)
(* and the backend does not even take it), the feature overrides reset after  *)
(* a change of plan, the reminders and the usage limits.                     *)
(***************************************************************************)
EXTENDS Naturals, FiniteSets

CONSTANTS
    Orders,        \* payment orders the tenant may create
    Plans,         \* the operator's price list ...
    DefaultPlan,   \* ... the plan of a new tenant ...
    Priced,        \* ... and the plans with a price to pay online
    MaxPresses,    \* bound: buttons the operator presses
    MaxOpen,       \* bound: transactions open at once
    NoOrder, NoPlan

ASSUME SubscriptionAssumption ==
    /\ DefaultPlan \in Plans /\ Priced \subseteq Plans
    /\ NoOrder \notin Orders /\ NoPlan \notin Plans
    /\ MaxPresses \in Nat /\ MaxOpen \in Nat

VARIABLES
    row,       \* the tenant's Settings row: [status, plan, trial: its end]
    order,     \* order |-> its SubscriptionPayment row
    bank,      \* order |-> what Razorpay has of it
    events,    \* what Razorpay has still to tell the webhook
    txn,       \* transactions of the backend between read and commit
    granted,   \* ghost: an operator activated the tenant at some time
    view,      \* the operator's page: [status: the one it shows, presses: how many so far]
    page       \* the tenant's browser

backend == <<row, order, txn, granted>>
razorpay == <<bank, events>>
subscriptionVars == <<backend, razorpay, view, page>>

SubscriptionStatuses == {"trialing", "active", "suspended", "expired", "cancelled"}
Event == {"captured", "failed"} \X Orders
Cron == <<"cron", NoOrder>>
GatedRequest == <<"request", NoOrder>>
Verify == <<"verify", NoOrder>>
Admin == <<"admin", NoOrder>>
Workers == {Cron, GatedRequest, Verify, Admin} \union Event

_BLOCKING_STATUSES == {"suspended", "expired", "cancelled"}
is_trial_overdue == row.status = "trialing" /\ row.trial = "past"
is_subscription_blocked == row.status \in _BLOCKING_STATUSES \/ is_trial_overdue

\* Mutant of BLOCKING_SUBSCRIPTION_STATUSES: a status the app has not heard of.
WithoutExpired == {"suspended", "cancelled"}

BLOCKING_SUBSCRIPTION_STATUSES == {"suspended", "expired", "cancelled"}

\* A transaction: what it will write into which columns, and the status of which payment.
Nothing == [status |-> "kept", plan |-> NoPlan, trial |-> "kept"]
Change == [status : SubscriptionStatuses \union {"kept"}, plan : Plans \union {NoPlan},
           trial : {"none", "ahead", "past", "kept"}]
Transaction == [change : Change, order : Orders \union {NoOrder}, paid : {"no", "paid", "failed"},
                open : BOOLEAN]
NoWork == [change |-> Nothing, order |-> NoOrder, paid |-> "no", open |-> FALSE]

PayStages == {"idle", "open", "confirming"}

Row == [status : SubscriptionStatuses \ {"cancelled"}, plan : Plans, trial : {"none", "ahead", "past"}]
Payment == [status : {"none", "created", "paid", "failed"}, plan : Plans \union {NoPlan}]
Page == [usage : SubscriptionStatuses \union {"none"},
         look : SubscriptionStatuses \union {"none"}, gate : BOOLEAN,
         call : {"none", "healing", "refused"}, pay : PayStages, order : Orders \union {NoOrder}]

\* Every variable has its type.  No screen leads to "cancelled"; a payment window, and
\* whatever Razorpay holds, belong to an order there is.
SubscriptionTypeOK ==
    /\ row \in Row /\ order \in [Orders -> Payment] /\ txn \in [Workers -> Transaction]
    /\ bank \in [Orders -> {"none", "offered", "captured"}]
    /\ events \subseteq Event
    /\ granted \in BOOLEAN
    /\ view \in [status : SubscriptionStatuses, presses : 0..MaxPresses]
    /\ page \in Page /\ (page.pay # "idle" <=> page.order # NoOrder)
    /\ \A o \in Orders : bank[o] # "none" => order[o].status # "none"
    /\ \A e \in events : e[1] = "captured" => bank[e[2]] = "captured"

Loading == [usage |-> "none", look |-> "none", gate |-> FALSE, call |-> "none",
            pay |-> "idle", order |-> NoOrder]

\* register_tenant(): start_trial().
SubscriptionInit ==
    /\ row = [status |-> "trialing", plan |-> DefaultPlan, trial |-> "ahead"]
    /\ order = [o \in Orders |-> [status |-> "none", plan |-> NoPlan]]
    /\ bank = [o \in Orders |-> "none"] /\ events = {}
    /\ txn = [w \in Workers |-> NoWork]
    /\ granted = FALSE /\ view = [status |-> "trialing", presses |-> 0] /\ page = Loading

-----------------------------------------------------------------------------
(* Transactions. *)

\* The columns that differ from what was read are the ones the commit writes.
Changed(want) ==
    [status |-> IF want.status = row.status THEN "kept" ELSE want.status,
     plan |-> IF want.plan = row.plan THEN NoPlan ELSE want.plan,
     trial |-> IF want.trial = row.trial THEN "kept" ELSE want.trial]

Open == Cardinality({w \in Workers : txn[w].open})

Begin(w, want, o, paid) ==
    /\ ~txn[w].open /\ Open < MaxOpen
    /\ txn' = [txn EXCEPT ![w] = [change |-> Changed(want), order |-> o, paid |-> paid, open |-> TRUE]]
    /\ UNCHANGED <<row, order, granted>>

Commit(w) ==
    /\ txn[w].open
    /\ LET c == txn[w].change
       IN row' = [status |-> IF c.status = "kept" THEN row.status ELSE c.status,
                  plan |-> IF c.plan = NoPlan THEN row.plan ELSE c.plan,
                  trial |-> IF c.trial = "kept" THEN row.trial ELSE c.trial]
    /\ order' = IF txn[w].order = NoOrder THEN order
                ELSE [order EXCEPT ![txn[w].order].status = txn[w].paid]
    /\ txn' = [txn EXCEPT ![w] = NoWork]

suspend_for_trial_expiry == [row EXCEPT !.status = "suspended"]

\* Whatever the tenant's status is, unless it is active already.
_activate_from_payment ==
    IF row.status = "active" THEN row ELSE [row EXCEPT !.status = "active", !.trial = "none"]

TrialEnds ==
    /\ row.trial = "ahead"
    /\ row' = [row EXCEPT !.trial = "past"]
    /\ UNCHANGED <<order, txn, granted, razorpay, view, page>>

\* The daily job reads the tenants on trial ...
_check_trials ==
    /\ is_trial_overdue
    /\ Begin(Cron, suspend_for_trial_expiry, NoOrder, "no")
    /\ UNCHANGED <<razorpay, view, page>>

\* ... and commits after it counted the usage of every tenant.
run_subscription_check ==
    /\ Commit(Cron)
    /\ UNCHANGED <<granted, razorpay, view, page>>

-----------------------------------------------------------------------------
(* The operator's page: its buttons follow the status it shows. *)

PortalRefetch ==
    /\ view' = [view EXCEPT !.status = row.status] /\ view' # view
    /\ UNCHANGED <<backend, razorpay, page>>

Pressed ==
    /\ view.presses < MaxPresses /\ view' = [view EXCEPT !.presses = @ + 1]
    /\ UNCHANGED <<razorpay, page>>

Operator(want) == Begin(Admin, want, NoOrder, "no") /\ Pressed

planMutation(p) == view.status # "cancelled" /\ Operator([row EXCEPT !.plan = p])
suspendSubMutation == view.status = "active" /\ Operator([row EXCEPT !.status = "suspended"])
activateSubMutation(p) ==
    /\ view.status \in {"suspended", "expired"}
    /\ Operator([status |-> "active", plan |-> p, trial |-> "none"])
expireSubMutation == view.status \notin {"expired", "cancelled"} /\ Operator([row EXCEPT !.status = "expired"])

\* So many days from now or from the end of the trial, whichever is later: a new date.
extendTrialMutation ==
    /\ ~txn[Admin].open /\ Open < MaxOpen
    /\ txn' = [txn EXCEPT ![Admin] =
                  [change |-> [status |-> IF row.status = "trialing" THEN "kept" ELSE "trialing",
                               plan |-> NoPlan, trial |-> "ahead"],
                   order |-> NoOrder, paid |-> "no", open |-> TRUE]]
    /\ UNCHANGED <<row, order, granted>>
    /\ Pressed

\* The answer refreshes the page, if it arrives.
AdminCommit ==
    /\ Commit(Admin)
    /\ granted' = (granted \/ txn[Admin].change.status = "active")
    /\ view' \in {view, [view EXCEPT !.status = row'.status]}
    /\ UNCHANGED <<razorpay, page>>

-----------------------------------------------------------------------------
(* The gate of the billing app. *)

\* A reload forgets everything in memory.
ReloadPage == page # Loading /\ page' = Loading /\ UNCHANGED <<backend, razorpay, view>>

\* The usage query: at mount, on focus, or when a payment was confirmed.  It is answered
\* whatever the status, and the answer is in flight until it is applied.
getUsage ==
    /\ page.look = "none"
    /\ page' = [page EXCEPT !.look = row.status]
    /\ UNCHANGED <<backend, razorpay, view>>

\* The effect runs when the answer differs from the one before it, be it in a count; an
\* equal answer keeps its identity in the query cache, and nothing runs.
UsageApplied ==
    /\ page.look \in SubscriptionStatuses
    /\ \E changed \in {page.look # page.usage, TRUE} :
          page' = [page EXCEPT !.look = "none", !.usage = page.look,
                               !.gate = IF changed THEN page.look \in BLOCKING_SUBSCRIPTION_STATUSES ELSE @]
    /\ UNCHANGED <<backend, razorpay, view>>

\* Pages are there to make requests only while the gate is open.  An overdue trial is
\* suspended on the spot, before the request is refused; one that is served changes
\* nothing here.
enforce_subscription_access ==
    /\ ~page.gate /\ page.call = "none"
    /\ is_subscription_blocked
    /\ IF is_trial_overdue
       THEN /\ Begin(GatedRequest, suspend_for_trial_expiry, NoOrder, "no")
            /\ page' = [page EXCEPT !.call = "healing"]
       ELSE page' = [page EXCEPT !.call = "refused"] /\ UNCHANGED backend
    /\ UNCHANGED <<razorpay, view>>

SelfHealed ==
    /\ Commit(GatedRequest)
    /\ page' = [page EXCEPT !.call = IF @ = "healing" THEN "refused" ELSE @]
    /\ UNCHANGED <<granted, razorpay, view>>

\* A 402 closes the gate whenever it arrives.
Answered ==
    /\ page.call = "refused"
    /\ page' = [page EXCEPT !.call = "none", !.gate = TRUE]
    /\ UNCHANGED <<backend, razorpay, view>>

-----------------------------------------------------------------------------
(* Paying. *)

\* Mutant of create_checkout_order: a plan without a price is sold for nothing.
CheckoutOfAnyPlan(o) ==
    /\ order[o].status = "none"
    /\ order' = [order EXCEPT ![o] = [status |-> "created", plan |-> row.plan]]

\* The plan the operator assigned, at its price; the Custom plan has none.
create_checkout_order(o) ==
    /\ row.plan \in Priced
    /\ order[o].status = "none"
    /\ order' = [order EXCEPT ![o] = [status |-> "created", plan |-> row.plan]]

PAYABLE_STATUSES == {"trialing", "suspended", "expired"}

\* The button of the gate, or of the settings page; the answer opens Razorpay's window, if
\* it arrives.
usePaySubscription(o) ==
    /\ page.pay = "idle"
    /\ IF page.gate THEN page.usage # "none" ELSE page.usage \in PAYABLE_STATUSES
    /\ create_checkout_order(o)
    /\ \/ /\ page' = [page EXCEPT !.pay = "open", !.order = o]
          /\ bank' = [bank EXCEPT ![o] = "offered"]
       \/ UNCHANGED <<page, bank>>
    /\ UNCHANGED <<row, txn, granted, events, view>>

\* An attempt fails; another may follow.
AttemptFails(o) ==
    /\ bank[o] = "offered"
    /\ events' = events \union {<<"failed", o>>}
    /\ UNCHANGED <<backend, bank, view, page>>

\* The money is taken, in the window or by a bank that answers late.
Capture(o) ==
    /\ bank[o] = "offered"
    /\ bank' = [bank EXCEPT ![o] = "captured"]
    /\ events' = events \union {<<"captured", o>>}
    /\ UNCHANGED <<backend, view, page>>

\* The window closes without a payment, or the call that verifies it is lost.
Dismissed ==
    /\ page.pay = "open"
    /\ page' = [page EXCEPT !.pay = "idle", !.order = NoOrder]
    /\ UNCHANGED <<backend, razorpay, view>>

\* The window closes with the signature of a payment, which is verified; onSuccess has
\* the usage asked for anew, an answer to an earlier question dropped.
verifyPayment ==
    /\ page.pay = "open" /\ bank[page.order] = "captured"
    /\ IF order[page.order].status = "paid"
       THEN page' = [page EXCEPT !.pay = "idle", !.order = NoOrder, !.look = "none"] /\ UNCHANGED backend
       ELSE /\ Begin(Verify, _activate_from_payment, page.order, "paid")
            /\ page' = [page EXCEPT !.pay = "confirming"]
    /\ UNCHANGED <<razorpay, view>>

\* The answer may be lost.
verify_and_activate ==
    /\ Commit(Verify)
    /\ IF page.pay = "confirming" /\ page.order = txn[Verify].order
       THEN page' \in {[page EXCEPT !.pay = "idle", !.order = NoOrder, !.look = look] : look \in {"none", page.look}}
       ELSE UNCHANGED page
    /\ UNCHANGED <<granted, razorpay, view>>

\* Mutant of Wanted: once an attempt was reported as failed, the order is over.
OnlyIfCreated(e) == order[e[2]].status = "created"

\* What the webhook still has a use for.
Wanted(e) == IF e[1] = "captured" THEN order[e[2]].status # "paid" ELSE order[e[2]].status = "created"

\* An event of no use is acknowledged; what is not acknowledged comes again.
WebhookIgnored(e) ==
    /\ e \in events /\ ~Wanted(e)
    /\ events' = events \ {e}
    /\ UNCHANGED <<backend, bank, view, page>>

handle_webhook(e) ==
    /\ e \in events /\ Wanted(e)
    /\ IF e[1] = "captured" THEN Begin(e, _activate_from_payment, e[2], "paid")
                            ELSE Begin(e, row, e[2], "failed")
    /\ UNCHANGED <<razorpay, view, page>>

WebhookCommit(e) ==
    /\ Commit(e)
    /\ events' \in {events, events \ {e}}
    /\ UNCHANGED <<granted, bank, view, page>>

-----------------------------------------------------------------------------

Administration ==
    \/ \E p \in Plans : planMutation(p) \/ activateSubMutation(p)
    \/ suspendSubMutation \/ expireSubMutation \/ extendTrialMutation
    \/ AdminCommit \/ PortalRefetch

Browser == getUsage \/ UsageApplied \/ enforce_subscription_access \/ SelfHealed \/ Answered

Paying ==
    \/ \E o \in Orders : usePaySubscription(o) \/ AttemptFails(o) \/ Capture(o)
    \/ Dismissed \/ verifyPayment \/ verify_and_activate

Webhook(e) == WebhookIgnored(e) \/ handle_webhook(e) \/ WebhookCommit(e)

SubscriptionNext ==
    \/ TrialEnds \/ _check_trials \/ run_subscription_check
    \/ Administration \/ Browser \/ ReloadPage \/ Paying
    \/ \E e \in Event : Webhook(e)

\* A transaction that was begun ends.  Razorpay repeats an event until it is acknowledged,
\* and a browser that is used keeps asking; both are strongly fair because of MaxOpen,
\* which the backend does not have.
Fairness ==
    /\ WF_subscriptionVars(run_subscription_check)
    /\ WF_subscriptionVars(AdminCommit) /\ WF_subscriptionVars(SelfHealed)
    /\ WF_subscriptionVars(verify_and_activate)
    /\ \A e \in Event : SF_subscriptionVars(handle_webhook(e)) /\ WF_subscriptionVars(WebhookCommit(e))
    /\ SF_subscriptionVars(enforce_subscription_access) /\ WF_subscriptionVars(Answered)
    /\ WF_subscriptionVars(getUsage) /\ WF_subscriptionVars(UsageApplied)

SubscriptionSpec == SubscriptionInit /\ [][SubscriptionNext]_subscriptionVars /\ Fairness

-----------------------------------------------------------------------------
(* Properties. *)

\* Nobody is active for nothing: whatever is created, verified, reported and replayed, an
\* active tenant was activated by an operator or had money taken for a plan with a price.
NoFreeRide ==
    row.status = "active" =>
        granted \/ \E o \in Orders : bank[o] = "captured" /\ order[o].plan \in Priced

\* Money that was taken is in the end recorded as paid, in the transaction that activates
\* the tenant, though the window was closed, the browser reloaded, or an attempt on the
\* same order failed before.
CapturedIsHonoured ==
    \A o \in Orders : <>(bank[o] = "captured") => <>(order[o].status = "paid")

\* A tenant that stays blocked ends at the gate and stays there, whatever late answers
\* the browser still gets, unless it is reloaded for ever.
BlockedStaysAtTheGate ==
    <>[]is_subscription_blocked /\ <>[][~ReloadPage]_subscriptionVars => <>[]page.gate

-----------------------------------------------------------------------------
\* "Idempotent: only actually transitions a still-`trialing` row. Safe to call from both the
\* per-request self-heal path and the daily cron" (subscription_access.py:62-63): the job
\* never takes an active tenant's access away.
PaidIsNotSuspended ==
    [][run_subscription_check => (row.status = "active" => row'.status = "active")]_subscriptionVars

\* "a tenant can pay to (re)activate the plan their Super Admin already set, never choose
\* a different one" (subscription_billing/service.py): the plan paid for becomes active.
ThePlanPaidFor ==
    [][\A e \in Event : WebhookCommit(e) /\ row.status # "active" /\ row'.status = "active"
                            => row'.plan = order[e[2]].plan]_subscriptionVars

\* "both converging on the same store" (subscriptionGateStore.ts): a tenant that stays
\* active gets out of the gate.
ActiveGetsIn == <>[](row.status = "active") /\ <>[][~ReloadPage]_subscriptionVars => <>[]~page.gate
=============================================================================
