------------------------------ MODULE Commerce ------------------------------
(***************************************************************************)
(* Orders of a delivery platform (backend/app/modules/commerce): the       *)
(* webhook that ingests and bills them, the owner's "Retry billing", the   *)
(* product mappings that make an order billable, and the order page.       *)
(*                                                                         *)
(* A session commits several times in one request, so a step here is what  *)
(* lies between two commits; the sessions of other requests, and the death *)
(* of the process, come in between.  The platform, which is external,      *)
(* delivers a webhook any number of times, in any order, with either       *)
(* status.  create_invoice, which Sales and Checkout model, either commits *)
(* one invoice or refuses.  One tenant, one platform; prices, the sync log *)
(* and the other tenants are left out.                                     *)
(***************************************************************************)
EXTENDS Integers, Sequences, FiniteSets

CONSTANTS
  Orders,      \* platform_order_ids
  MockOrders,  \* those of the mock provider, which sends each of them once
  Skus,
  Contents,    \* [Orders -> the SKUs on the order]
  Requests,    \* what the server can handle at one time
  Screens,     \* open order pages
  NoRow, NoOrder, NoScreen,
  MaxInvoices, MaxOrders

ASSUME CommerceAssumption ==
  /\ MockOrders \subseteq Orders
  /\ Contents \in [Orders -> SUBSET Skus]
  /\ NoOrder \notin Orders /\ NoScreen \notin Screens
  /\ MaxInvoices \in Nat /\ MaxOrders \in Nat

VARIABLES
  config,      \* CommerceIntegrationConfig; known: the platform has its token
  mappings,    \* the SKUs with a CommerceProductMapping
  backfilling, \* those whose create_mapping is between its two commits
  orders,      \* the committed CommerceOrder rows
  invoices,    \* the committed invoices: the order and the lines each bills
  stage,       \* [Requests -> what the request does next]
  job,         \* [Requests -> what it does it for]
  screens,     \* [Screens -> the order shown, its invoice_id as last read, retrying]
  marks        \* history: what happened to an order's billing

vars == <<config, mappings, backfilling, orders, invoices, stage, job, screens, marks>>
server == <<orders, invoices, stage, job, screens, marks>>
-----------------------------------------------------------------------------
Config == [is_enabled : BOOLEAN, auto_create_invoice : BOOLEAN, known : BOOLEAN]

\* invoice_id is 0 while null; mapped: the lines with a product_id.
Row == [cancelled : BOOLEAN, mapped : SUBSET Skus, invoice_id : Nat, sync_error : BOOLEAN]

ASSUME NoRowAssumption == NoRow \notin Row

Job == [order : Orders \cup {NoOrder}, screen : Screens \cup {NoScreen}, retry : BOOLEAN,
        cancelled : BOOLEAN, mapped : SUBSET Skus, invoice : Nat]

NoJob == [order |-> NoOrder, screen |-> NoScreen, retry |-> FALSE,
          cancelled |-> FALSE, mapped |-> {}, invoice |-> 0]

Closed == [order |-> NoOrder, seen |-> 0, retrying |-> FALSE]

InvoicesOf(o) == {i \in 1..Len(invoices) : invoices[i].order = o}
Billing(o) == {r \in Requests : job[r].order = o /\ stage[r] \in {"bill", "note"}}

\* The orders ingested or being ingested; at most MaxOrders of them.
Arrived == {o \in Orders : orders[o] # NoRow \/ \E r \in Requests : job[r].order = o}

Init ==
  /\ config = [is_enabled |-> FALSE, auto_create_invoice |-> TRUE, known |-> FALSE]
  /\ mappings = {} /\ backfilling = {}
  /\ orders = [o \in Orders |-> NoRow]
  /\ invoices = << >>
  /\ stage = [r \in Requests |-> "idle"]
  /\ job = [r \in Requests |-> NoJob]
  /\ screens = [s \in Screens |-> Closed]
  /\ marks = [o \in Orders |-> {}]

Begin(r, at, what) ==
  stage' = [stage EXCEPT ![r] = at] /\ job' = [job EXCEPT ![r] = what]

\* The response, and the order page that waits for it.
End(r) ==
  /\ Begin(r, "idle", NoJob)
  /\ screens' = [s \in Screens |->
       IF s = job[r].screen THEN [screens[s] EXCEPT !.retrying = FALSE] ELSE screens[s]]
-----------------------------------------------------------------------------
\* The owner's settings.  The platform has to be told of a new token.
update_config(enabled, auto) ==
  /\ config' = [is_enabled |-> enabled, auto_create_invoice |-> auto, known |-> config.known]
  /\ UNCHANGED <<mappings, backfilling, server>>

regenerate_webhook_token ==
  config' = [config EXCEPT !.known = FALSE] /\ UNCHANGED <<mappings, backfilling, server>>

PlatformLearnsToken ==
  config' = [config EXCEPT !.known = TRUE] /\ UNCHANGED <<mappings, backfilling, server>>
-----------------------------------------------------------------------------
\* Mutant: a redelivered order goes on to be billed.
BillExisting(r, o) ==
  Begin(r, "bill", [order |-> o, screen |-> NoScreen, retry |-> FALSE,
                    cancelled |-> FALSE, mapped |-> {}, invoice |-> 0])
ReturnExisting(r, o) == UNCHANGED <<stage, job>>

\* The lookups of ingest_order: an order that exists is returned as it is.
Lookup(r, o, cancelled) ==
  /\ stage[r] = "idle"
  /\ IF orders[o] # NoRow THEN ReturnExisting(r, o)
     ELSE Begin(r, "insert", [order |-> o, screen |-> NoScreen, retry |-> FALSE,
                              cancelled |-> cancelled, mapped |-> mappings, invoice |-> 0])
  /\ UNCHANGED <<config, mappings, backfilling, orders, invoices, screens, marks>>

receive_webhook(r, o, cancelled) ==
  /\ o \notin MockOrders
  /\ config.known /\ config.is_enabled
  /\ Lookup(r, o, cancelled)

\* Sent from a settings card that shows the integration enabled, maybe stale.
trigger_mock_order(r, o) ==
  /\ o \in MockOrders /\ orders[o] = NoRow
  /\ \A q \in Requests : job[q].order # o
  /\ Lookup(r, o, FALSE)

\* The commit of the order and its lines; the unique constraint fails the
\* second of two requests that insert the same order.
InsertOrder(r) ==
  LET j == job[r]
  IN /\ stage[r] = "insert"
     /\ IF orders[j.order] # NoRow THEN End(r) /\ UNCHANGED orders
        ELSE /\ orders' = [orders EXCEPT ![j.order] =
                  [cancelled |-> j.cancelled, mapped |-> j.mapped \cap Contents[j.order],
                   invoice_id |-> 0, sync_error |-> FALSE]]
             /\ Begin(r, "bill", j) /\ UNCHANGED screens
     /\ UNCHANGED <<config, mappings, backfilling, invoices, marks>>

\* The webhook stops here when there is nothing to bill by itself.
LeaveUnbilled(r) ==
  LET o == job[r].order
  IN /\ stage[r] = "bill" /\ ~job[r].retry
     /\ \/ orders[o].cancelled
        \/ ~config.auto_create_invoice
     /\ marks' = [marks EXCEPT ![o] = marks[o] \cup {"by hand"}]
     /\ End(r)
     /\ UNCHANGED <<config, mappings, backfilling, orders, invoices>>

ToBill(r) ==
  /\ stage[r] = "bill"
  /\ job[r].retry \/ (~orders[job[r].order].cancelled /\ config.auto_create_invoice)

\* try_create_invoice_for_order up to the commit inside create_invoice.
CreateInvoice(r) ==
  LET o == job[r].order
  IN /\ ToBill(r)
     /\ Contents[o] \subseteq orders[o].mapped
     /\ Len(invoices) < MaxInvoices
     /\ invoices' = Append(invoices, [order |-> o, lines |-> orders[o].mapped])
     /\ Begin(r, "note", [job[r] EXCEPT !.invoice = Len(invoices) + 1])
     /\ UNCHANGED <<config, mappings, backfilling, orders, screens, marks>>

\* Unmapped lines, or create_invoice refuses: stock, plan limit, no owner.  A
\* retry answers 400, the webhook goes on to note the error.
RefuseInvoice(r) ==
  /\ ToBill(r)
  /\ IF job[r].retry THEN End(r) ELSE Begin(r, "error", job[r]) /\ UNCHANGED screens
  /\ UNCHANGED <<config, mappings, backfilling, orders, invoices, marks>>

\* Mutant: only the answer carries the error.
ForgetError(o) == orders[o]
WithError(o) == [orders[o] EXCEPT !.sync_error = TRUE]

NoteError(r) ==
  LET o == job[r].order
  IN /\ stage[r] = "error"
     /\ orders' = [orders EXCEPT ![o] = WithError(o)]
     /\ End(r)
     /\ UNCHANGED <<config, mappings, backfilling, invoices, marks>>

NoteInvoice(r) ==
  LET o == job[r].order
  IN /\ stage[r] = "note"
     /\ orders' = [orders EXCEPT ![o] =
          [cancelled |-> orders[o].cancelled, mapped |-> orders[o].mapped,
           invoice_id |-> job[r].invoice, sync_error |-> FALSE]]
     /\ End(r)
     /\ UNCHANGED <<config, mappings, backfilling, invoices, marks>>
-----------------------------------------------------------------------------
\* The order page: opened, refetched, left.
OpenOrder(s, o) ==
  /\ ~screens[s].retrying /\ orders[o] # NoRow
  /\ screens' = [screens EXCEPT ![s] =
       [order |-> o, seen |-> orders[o].invoice_id, retrying |-> FALSE]]
  /\ UNCHANGED <<config, mappings, backfilling, orders, invoices, stage, job, marks>>

\* "Retry billing", which a page shows while it knows of no invoice.
PressRetry(s, r) ==
  LET o == screens[s].order
  IN /\ o # NoOrder /\ screens[s].seen = 0 /\ ~screens[s].retrying
     /\ stage[r] = "idle"
     /\ Begin(r, "check", [order |-> o, screen |-> s, retry |-> TRUE,
                           cancelled |-> FALSE, mapped |-> {}, invoice |-> 0])
     /\ screens' = [screens EXCEPT ![s] = [order |-> o, seen |-> 0, retrying |-> TRUE]]
     /\ UNCHANGED <<config, mappings, backfilling, orders, invoices, marks>>

\* Mutant: the row is not looked at again.
NeverBilled(o) == FALSE
AlreadyBilled(o) == orders[o].invoice_id # 0

retry_billing(r) ==
  LET o == job[r].order
  IN /\ stage[r] = "check"
     /\ IF AlreadyBilled(o) THEN End(r) /\ UNCHANGED marks
        ELSE /\ Begin(r, "bill", job[r])
             /\ marks' = [marks EXCEPT ![o] =
                  IF Billing(o) = {} THEN marks[o] ELSE marks[o] \cup {"raced"}]
             /\ UNCHANGED screens
     /\ UNCHANGED <<config, mappings, backfilling, orders, invoices>>

\* The page gives up, the request goes on.
LoseAnswer(r) ==
  LET s == job[r].screen
  IN /\ s # NoScreen
     /\ job' = [job EXCEPT ![r] = [job[r] EXCEPT !.screen = NoScreen]]
     /\ screens' = [screens EXCEPT ![s] = [screens[s] EXCEPT !.retrying = FALSE]]
     /\ UNCHANGED <<config, mappings, backfilling, orders, invoices, stage, marks>>

\* The process dies between two commits, or a statement fails.
Die(r) ==
  LET o == job[r].order
  IN /\ stage[r] # "idle"
     /\ marks' = [marks EXCEPT ![o] = marks[o] \cup {"died"}]
     /\ End(r)
     /\ UNCHANGED <<config, mappings, backfilling, orders, invoices>>
-----------------------------------------------------------------------------
create_mapping(sku) ==
  /\ sku \notin backfilling
  /\ mappings' = mappings \cup {sku}
  /\ backfilling' = backfilling \cup {sku}
  /\ UNCHANGED <<config, server>>

\* The second commit: the lines already ingested.
Backfill(sku) ==
  /\ sku \in backfilling
  /\ orders' = [o \in Orders |->
       IF orders[o] = NoRow THEN NoRow
       ELSE [orders[o] EXCEPT !.mapped = orders[o].mapped \cup ({sku} \cap Contents[o])]]
  /\ backfilling' = backfilling \ {sku}
  /\ UNCHANGED <<config, mappings, invoices, stage, job, screens, marks>>

DieBeforeBackfill(sku) ==
  /\ sku \in backfilling
  /\ backfilling' = backfilling \ {sku}
  /\ UNCHANGED <<config, mappings, server>>
-----------------------------------------------------------------------------
Settings ==
  \/ \E enabled, auto \in BOOLEAN : update_config(enabled, auto)
  \/ regenerate_webhook_token
  \/ PlatformLearnsToken

Arrival ==
  \E r \in Requests, o \in Orders :
    /\ Cardinality(Arrived \cup {o}) <= MaxOrders
    /\ \/ \E cancelled \in BOOLEAN : receive_webhook(r, o, cancelled)
       \/ trigger_mock_order(r, o)

Handler(r) ==
  \/ InsertOrder(r) \/ LeaveUnbilled(r) \/ CreateInvoice(r) \/ RefuseInvoice(r)
  \/ NoteError(r) \/ NoteInvoice(r) \/ retry_billing(r)

Page ==
  \E s \in Screens : (\E o \in Orders : OpenOrder(s, o)) \/ (\E r \in Requests : PressRetry(s, r))

Mapping == \E sku \in Skus : create_mapping(sku) \/ Backfill(sku) \/ DieBeforeBackfill(sku)

Next ==
  \/ Settings \/ Arrival \/ Page \/ Mapping
  \/ \E r \in Requests : Handler(r) \/ LoseAnswer(r) \/ Die(r)

Spec == Init /\ [][Next]_vars

(***************************************************************************)
(* The owner keeps opening every order, requests and mappings finish.  No  *)
(* press of "Retry billing" is assumed.                                    *)
(***************************************************************************)
Fairness ==
  /\ \A r \in Requests : WF_vars(Handler(r))
  /\ \A sku \in Skus : WF_vars(Backfill(sku))
  /\ \A s \in Screens, o \in Orders : WF_vars(OpenOrder(s, o))

FairSpec == Spec /\ Fairness
-----------------------------------------------------------------------------
(***************************************************************************)
(* Every variable has its type; a request under way has an order, and past *)
(* the insert that order has a row, as has the order a page shows.         *)
(***************************************************************************)
TypeOK ==
  /\ config \in Config
  /\ mappings \subseteq Skus /\ backfilling \subseteq mappings
  /\ orders \in [Orders -> Row \cup {NoRow}]
  /\ invoices \in Seq([order : Orders, lines : SUBSET Skus])
  /\ stage \in [Requests -> {"idle", "insert", "check", "bill", "error", "note"}]
  /\ job \in [Requests -> Job]
  /\ screens \in [Screens -> [order : Orders \cup {NoOrder}, seen : Nat, retrying : BOOLEAN]]
  /\ marks \in [Orders -> SUBSET {"by hand", "raced", "died"}]
  /\ \A r \in Requests :
       /\ stage[r] # "idle" => job[r].order \in Orders
       /\ stage[r] \notin {"idle", "insert"} => orders[job[r].order] # NoRow
  /\ \A s \in Screens : screens[s].order # NoOrder => orders[screens[s].order] # NoRow

(***************************************************************************)
(* However often the platform delivers an order and however often the      *)
(* owner presses "Retry billing", the order is billed once, and its row    *)
(* names the invoice as soon as nobody is at work on it: unless two        *)
(* billings of it overlapped or one died (orders_service.py, 214-217, and  *)
(* invoice_bridge.py, 32-52, which passes no idempotency key).             *)
(***************************************************************************)
BilledOnce(o) ==
  /\ \A i, j \in InvoicesOf(o) : i = j
  /\ Billing(o) = {} => \A i \in InvoicesOf(o) : orders[o].invoice_id = i

BilledOnceUnlessRaced ==
  \A o \in Orders : marks[o] \cap {"raced", "died"} = {} => BilledOnce(o)

(***************************************************************************)
(* An order whose row names an invoice, with no billing under way, keeps   *)
(* that invoice and no billing of it ever starts again, whatever was lost, *)
(* repeated or raced before.                                               *)
(***************************************************************************)
Settled(o) == orders[o] # NoRow /\ orders[o].invoice_id # 0 /\ Billing(o) = {}

BilledStaysBilled ==
  [][\A o \in Orders : Settled(o) =>
       /\ Settled(o)' /\ orders'[o].invoice_id = orders[o].invoice_id
       /\ InvoicesOf(o)' = InvoicesOf(o)]_vars

(***************************************************************************)
(* An order that should have been billed on arrival and was not says so in *)
(* sync_error, which the order page shows; only a handler that died leaves *)
(* it silent, since a redelivery returns the row unbilled.                 *)
(***************************************************************************)
UnbilledSaysWhy ==
  \A o \in Orders :
    /\ orders[o] # NoRow
    /\ marks[o] \cap {"by hand", "died"} = {}
    /\ \A r \in Requests : job[r].order = o => job[r].retry \/ stage[r] = "insert"
    => orders[o].invoice_id # 0 \/ orders[o].sync_error

(***************************************************************************)
(* What the code does not keep: no order has two invoices; no line stays   *)
(* without the product its SKU is mapped to; and the notice of             *)
(* ProductMapPicker.tsx, line 29, that unbilled orders "will retry         *)
(* automatically next visit".                                              *)
(***************************************************************************)
NeverTwoInvoices == \A o \in Orders : Cardinality(InvoicesOf(o)) <= 1

NoLineIsStranded ==
  \A o \in Orders :
    orders[o] # NoRow => (mappings \ backfilling) \cap Contents[o] \subseteq orders[o].mapped

Billable(o) ==
  /\ orders[o] # NoRow
  /\ ~orders[o].cancelled /\ orders[o].sync_error /\ Contents[o] \subseteq orders[o].mapped

RetriedOnVisit ==
  \A o \in Orders : Billable(o) ~> InvoicesOf(o) # {}
=============================================================================
