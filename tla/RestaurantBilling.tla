-------------------------- MODULE RestaurantBilling --------------------------
(***************************************************************************)
(* The tab of one restaurant table while several requests work on it at    *)
(* once (backend/app/modules/restaurant/service.py): rounds are sent with  *)
(* open_table_order, the tab is billed with bill_order and given up with   *)
(* release_table.  Each reads the tab, decides, and writes later; nothing  *)
(* locks the order and no write looks at its status again.                 *)
(*                                                                         *)
(* bill_order commits twice: create_invoice stores the sale (it is taken   *)
(* as what module IdempotentCheckout promises) and a second transaction    *)
(* closes the order.                                                       *)
(***************************************************************************)
EXTENDS Integers, FiniteSets

CONSTANTS
  Rounds,     \* open_table_order requests; each orders one line
  Bills,      \* bill_order requests
  Releases,   \* release_table requests with cancel_order set
  BillKey,    \* [Bills -> client_reference_id, or NoBillKey]
  NoBillKey,
  NoInvoice,
  MaxOrders,  \* bound on the orders opened on the table
  MayCrashBilling \* the bill requests whose server process may die

ASSUME RestaurantBillingAssumption ==
  /\ MaxOrders \in Nat
  /\ NoInvoice \notin Bills
  /\ MayCrashBilling \subseteq Bills

VARIABLES
  order,   \* restaurant_orders of the table, by order number
  round,   \* the rounds requests: where they are, which order they hold
  bill,    \* the bill requests, with the lines they read
  release, \* the release requests
  sales,   \* invoices stored, named by the bill request that created them
  answer   \* what create_invoice gave to each bill request

Orders == 1..MaxOrders
C == INSTANCE IdempotentCheckout WITH
       Requests <- Bills, Key <- BillKey, NoKey <- NoBillKey

billingVars == <<order, round, bill, release, sales, answer>>
-----------------------------------------------------------------------------
\* _active_order_for_table
OpenOrders == {o \in Orders : order[o].status = "open"}
Numbers == {o \in Orders : order[o].status # "none"}

BillingInit ==
  /\ order = [o \in Orders |-> [status |-> "none", lines |-> {}, invoice |-> NoInvoice]]
  /\ round = [w \in Rounds |-> [at |-> "look", order |-> 0]]
  /\ bill = [b \in Bills |-> [at |-> "look", order |-> 0, lines |-> {}]]
  /\ release = [c \in Releases |-> [at |-> "look", order |-> 0]]
  /\ C!Init
-----------------------------------------------------------------------------
\* open_table_order and create_order both look for the table's open order.
RoundLook(w) ==
  /\ round[w].at = "look"
  /\ IF OpenOrders # {}
     THEN \E o \in OpenOrders : round' = [round EXCEPT ![w] = [at |-> "append", order |-> o]]
     ELSE round' = [round EXCEPT ![w].at = "number"]
  /\ UNCHANGED <<order, bill, release, sales, answer>>

\* Mutant: the round writes the whole row back as it read it, the status included.
RoundRewrites(w) ==
  /\ round[w].at = "append"
  /\ order' = [order EXCEPT ![round[w].order].lines = @ \cup {w}, ![round[w].order].status = "open"]
  /\ round' = [round EXCEPT ![w].at = "done"]
  /\ UNCHANGED <<bill, release, sales, answer>>
RoundAppend(w) ==
  /\ round[w].at = "append"
  /\ order' = [order EXCEPT ![round[w].order].lines = @ \cup {w}]
  /\ round' = [round EXCEPT ![w].at = "done"]
  /\ UNCHANGED <<bill, release, sales, answer>>

\* _next_sequence: one more than the highest number that is committed.
RoundNumber(w) ==
  /\ round[w].at = "number"
  /\ \E o \in Orders : /\ Numbers = 1..(o - 1)
                       /\ round' = [round EXCEPT ![w] = [at |-> "create", order |-> o]]
  /\ UNCHANGED <<order, bill, release, sales, answer>>

\* uq_restaurant_orders_tenant_number
NumberFree(o) == o \notin Numbers

\* A number taken meanwhile fails the insert, and the request with it.
RoundCreate(w) ==
  /\ round[w].at = "create"
  /\ order' = IF NumberFree(round[w].order)
              THEN [order EXCEPT ![round[w].order] =
                      [status |-> "open", lines |-> {w}, invoice |-> NoInvoice]]
              ELSE order
  /\ round' = [round EXCEPT ![w].at = "done"]
  /\ UNCHANGED <<bill, release, sales, answer>>
-----------------------------------------------------------------------------
\* The till draws a new key only when a new sale starts (POSPage.tsx, resetForNewSale): after a
\* lost answer the next order it bills carries the key of the last.
BillLook(b, o) ==
  /\ bill[b].at = "look"
  /\ o \in OpenOrders /\ order[o].lines # {}
  /\ bill' = [bill EXCEPT ![b] = [at |-> "invoice", order |-> o, lines |-> order[o].lines]]
  /\ UNCHANGED <<order, round, release, sales, answer>>

\* create_invoice stores a sale of the lines that were read ...
BillSell(b) ==
  /\ bill[b].at = "invoice"
  /\ C!Sell(b)
  /\ UNCHANGED <<order, round, bill, release>>

\* ... and returns it, or the sale an earlier attempt stored, ...
BillAnswered(b) ==
  /\ bill[b].at = "invoice"
  /\ C!Answer(b)
  /\ bill' = [bill EXCEPT ![b].at = "close"]
  /\ UNCHANGED <<order, round, release>>

\* ... or fails, and the order stays open.
BillFailed(b) ==
  /\ bill[b].at = "invoice"
  /\ C!Fail(b)
  /\ bill' = [bill EXCEPT ![b].at = "done"]
  /\ UNCHANGED <<order, round, release>>

\* Mutant: the invoice is noted and the status forgotten.
InvoiceNoted(o, invoice) == [order EXCEPT ![o].invoice = invoice]
Billed(o, invoice) == [order EXCEPT ![o].status = "billed", ![o].invoice = invoice]

\* Mutant: the order notes the invoice it asked for, not the one it was given.
ClosedInOwnName(b) ==
  /\ bill[b].at = "close"
  /\ order' = Billed(bill[b].order, b)
  /\ bill' = [bill EXCEPT ![b].at = "done"]
  /\ UNCHANGED <<round, release, sales, answer>>
\* The second commit; the order's status is not read again.
BillClose(b) ==
  /\ bill[b].at = "close"
  /\ order' = Billed(bill[b].order, answer[b])
  /\ bill' = [bill EXCEPT ![b].at = "done"]
  /\ UNCHANGED <<round, release, sales, answer>>

BillCrash(b) ==
  /\ b \in MayCrashBilling /\ bill[b].at \in {"invoice", "close"}
  /\ bill' = [bill EXCEPT ![b].at = "done"]
  /\ IF bill[b].at = "invoice" THEN C!Lose(b) ELSE UNCHANGED <<sales, answer>>
  /\ UNCHANGED <<order, round, release>>
-----------------------------------------------------------------------------
ReleaseLook(c) ==
  /\ release[c].at = "look"
  /\ \E o \in OpenOrders : release' = [release EXCEPT ![c] = [at |-> "cancel", order |-> o]]
  /\ UNCHANGED <<order, round, bill, sales, answer>>

ReleaseCancel(c) ==
  /\ release[c].at = "cancel"
  /\ order' = [order EXCEPT ![release[c].order].status = "cancelled"]
  /\ release' = [release EXCEPT ![c].at = "done"]
  /\ UNCHANGED <<round, bill, sales, answer>>
-----------------------------------------------------------------------------
BillingNext ==
  \/ \E w \in Rounds : RoundLook(w) \/ RoundAppend(w) \/ RoundNumber(w) \/ RoundCreate(w)
  \/ \E b \in Bills, o \in Orders : BillLook(b, o)
  \/ \E b \in Bills : BillSell(b) \/ BillAnswered(b) \/ BillFailed(b)
                        \/ BillClose(b) \/ BillCrash(b)
  \/ \E c \in Releases : ReleaseLook(c) \/ ReleaseCancel(c)

\* Requests that were read are carried out; nobody has to send one.
BillingFairness ==
  /\ \A w \in Rounds : WF_billingVars(RoundAppend(w)) /\ WF_billingVars(RoundNumber(w))
                         /\ WF_billingVars(RoundCreate(w))
  /\ \A b \in Bills : WF_billingVars(BillSell(b) \/ BillAnswered(b) \/ BillFailed(b))
                        /\ WF_billingVars(BillClose(b))
  /\ \A c \in Releases : WF_billingVars(ReleaseCancel(c))

BillingSpec == BillingInit /\ [][BillingNext]_billingVars /\ BillingFairness
-----------------------------------------------------------------------------
(***************************************************************************)
(* Every variable has its type, and a request that holds an order holds    *)
(* one that was opened.                                                    *)
(***************************************************************************)
BillingTypeOK ==
  /\ order \in [Orders -> [status : {"none", "open", "billed", "cancelled"},
                           lines : SUBSET Rounds, invoice : Bills \cup {NoInvoice}]]
  /\ \A w \in Rounds : round[w].at = "append" => round[w].order \in Numbers
  /\ \A b \in Bills : bill[b].at # "look" => bill[b].order \in Numbers
  /\ \A c \in Releases : release[c].at # "look" => release[c].order \in Numbers
  /\ sales \subseteq Bills

SalesOf(o) == {s \in sales : bill[s].order = o}

(***************************************************************************)
(* A billed order names an invoice that is stored, whichever attempt       *)
(* closed it and whatever happened in between: one made from this order,   *)
(* or, when an attempt to bill it repeated the key of another order's      *)
(* checkout, the invoice of that one.                                      *)
(***************************************************************************)
BilledOrderHasItsInvoice ==
  \A o \in Orders : order[o].status = "billed" =>
    /\ order[o].invoice \in sales
    /\ \E b \in Bills : bill[b].order = o /\ C!SameCheckout(b, order[o].invoice)

(***************************************************************************)
(* Between the two commits of bill_order an order is charged and open.     *)
(* Nothing but the death of the server leaves it there: any other request  *)
(* that stored an invoice of an open order is still on its way to close    *)
(* it, and no round or later bill opens the order again.                   *)
(***************************************************************************)
SoldOrderIsClosed ==
  \A s \in sales \ MayCrashBilling :
    order[bill[s].order].status = "open" => bill[s].at \in {"invoice", "close"}

(***************************************************************************)
(* A bill request that is not lost with its server ends with its order     *)
(* closed or was told that it failed: it never leaves an invoiced order    *)
(* open behind a success.                                                  *)
(***************************************************************************)
BillsAreFinished ==
  \A b \in Bills \ MayCrashBilling :
    bill[b].at = "invoice" ~>
      /\ bill[b].at = "done"
      /\ answer[b] = "failed" \/ order[bill[b].order].status # "open"

(***************************************************************************)
(* restaurant/service.py:393-394: two live orders on one table never       *)
(* happen.                                                                 *)
(***************************************************************************)
OneOpenOrder == \A o, p \in OpenOrders : o = p

(***************************************************************************)
(* restaurant/service.py:921: bill_order turns the order into exactly one  *)
(* invoice.                                                                *)
(***************************************************************************)
EveryBilledOrderIsCharged ==
  \A o \in Orders : order[o].status = "billed" => SalesOf(o) # {}

(***************************************************************************)
(* restaurant/service.py:869-871: the rounds a table sends across one      *)
(* sitting all land on one bill.                                           *)
(***************************************************************************)
AllRoundsOnTheBill ==
  \A o \in Orders : order[o].status = "billed" =>
    order[o].lines = bill[order[o].invoice].lines
=============================================================================
