-------------------------------- MODULE Till --------------------------------
(***************************************************************************)
(* The till (src/billing-app/src/features/pos/pages/POSPage.tsx): one cart  *)
(* over two stores, the local one of a counter sale and the open order of a *)
(* table on the server; held bills; the key that makes a checkout safe to   *)
(* repeat.  Every button sends a request and goes on: answers come late, in *)
(* any order, or not at all, and the page may be left in between.           *)
(*                                                                         *)
(* A cart is the set of the products in it.  Prices, discounts, payment and *)
(* customer fields, which no step below depends on, are left out.           *)
(***************************************************************************)
EXTENDS Naturals, Sequences, FiniteSets

CONSTANTS
    Products,
    Tables,
    MaxKeys,      \* bound: idempotency keys drawn
    MaxOrders,    \* bound: orders opened on tables
    MaxHeld,      \* bound: bills held
    MaxSales,     \* bound: carts cleared or replaced by a held bill, beyond one per key
    MaxInFlight,  \* bound: requests not yet answered or given up
    MaxCalls,     \* bound: requests sent
    NoTable

ASSUME TillAssumption ==
    /\ NoTable \notin Tables
    /\ MaxKeys \in Nat \ {0}
    /\ MaxOrders \in Nat /\ MaxHeld \in Nat /\ MaxInFlight \in Nat /\ MaxCalls \in Nat

VARIABLES
    orders,     \* the server's orders: [table, items, sent, status], with the
                \* lines ever put on them and at which table
    invoices,   \* the server's invoices: [key, sale, visit, items]
    held,       \* the server's held bills: [items, gone]
    tableId,    \* NoTable in counter mode
    pendingTableChange,
    seen,       \* table |-> what the query of its order last returned
    local,      \* lines of the local cart, which outlives the page
    key,        \* idempotencyKeyRef
    resumed,    \* resumedHeldBillId, 0 when there is none
    completed,  \* whether the receipt of a sale is shown
    late,       \* ghost: lines put in the local cart after it was sent to a table
    sale,       \* ghost: number of the sale, new when the cashier starts over
    visit,      \* ghost: number of the page's visit
    reqs,       \* requests in flight
    calls       \* requests sent so far, for their bound

backend == <<orders, invoices, held>>
page == <<tableId, pendingTableChange, seen, resumed, completed, key, visit>>
net == <<reqs, calls>>
tillVars == <<backend, page, local, late, sale, net>>

NoOrder == [order |-> 0, items |-> {}]
ByHand == 0
Kept == MaxKeys + 1

Order == [table : Tables, items : SUBSET Products, was : SUBSET (Products \X Tables),
          sent : SUBSET Products, status : {"open", "billed"}]
Invoice == [key : 0..MaxKeys, sale : Nat, visit : Nat, items : SUBSET Products]
HeldBill == [items : SUBSET Products, gone : 0..MaxKeys + 1]
Kinds == {"checkout", "bill", "hold", "delete", "open", "move", "remove", "kot", "transfer"}
Request == [kind : Kinds, n : 1..MaxInFlight, items : SUBSET Products,
            order : 0..MaxOrders, held : 0..MaxHeld,
            table : Tables \union {NoTable}, key : 0..MaxKeys, live : BOOLEAN,
            sale : Nat, visit : Nat, status : {"sent", "ok", "refused"}, heard : BOOLEAN]

\* Every variable has its type, and the page names orders and bills that exist.
TillTypeOK ==
    /\ orders \in Seq(Order) /\ Len(orders) <= MaxOrders
    /\ invoices \in Seq(Invoice)
    /\ held \in Seq(HeldBill) /\ Len(held) <= MaxHeld
    /\ tableId \in Tables \union {NoTable}
    /\ pendingTableChange \in Tables \union {NoTable}
    /\ seen \in [Tables -> [order : 0..Len(orders), items : SUBSET Products]]
    /\ local \subseteq Products /\ late \subseteq Products
    /\ key \in 1..MaxKeys /\ visit \in 1..MaxKeys
    /\ sale \in Nat
    /\ resumed \in 0..Len(held)
    /\ completed \in BOOLEAN
    /\ calls \in 0..MaxCalls
    /\ reqs \subseteq Request /\ Cardinality(reqs) <= MaxInFlight

TillInit ==
    /\ orders = <<>> /\ invoices = <<>> /\ held = <<>>
    /\ tableId = NoTable /\ pendingTableChange = NoTable
    /\ seen = [t \in Tables |-> NoOrder]
    /\ local = {} /\ late = {}
    /\ key = 1 /\ visit = 1 /\ sale = 1
    /\ resumed = 0 /\ completed = FALSE
    /\ reqs = {} /\ calls = 0

-----------------------------------------------------------------------------
(* Requests.  'heard' is whether the page will act on the answer: the answers *)
(* that only have the queries read again are not, Refetch being always open.  *)
(* 'live' tells a mutation whose callbacks are those of the last render from  *)
(* one that keeps the callbacks of the counter it was sent from.              *)

Blank == [kind |-> "open", n |-> 1, items |-> {}, order |-> 0, held |-> 0, table |-> NoTable,
          key |-> 0, live |-> TRUE, sale |-> sale, visit |-> visit, status |-> "sent",
          heard |-> FALSE]

\* The requests in flight with one more.
With(rs, r) ==
    LET n == CHOOSE i \in 1..MaxInFlight : \A q \in rs : q.kind = r.kind => q.n # i
    IN rs \union {[r EXCEPT !.n = n]}

Send(rs, r) ==
    /\ calls < MaxCalls /\ Cardinality(rs) < MaxInFlight
    /\ reqs' = With(rs, r)
    /\ calls' = calls + 1

Requests(rs) == reqs' = rs /\ UNCHANGED calls

Pending(kind) == \E r \in reqs : r.kind = kind /\ r.heard /\ r.visit = visit

\* useOrderCart(): the local lines, or those of the table's order as last seen.
View == seen[tableId]
Lines == IF tableId = NoTable THEN local ELSE View.items

\* No dialog covers the page.
Free == ~completed /\ pendingTableChange = NoTable

-----------------------------------------------------------------------------
(* The cart. *)

addProduct(p) ==
    /\ Free /\ p \notin Lines
    /\ IF tableId = NoTable
       THEN /\ local' = local \union {p}
            /\ late' = IF Pending("move") THEN late \union {p} ELSE late \ {p}
            /\ UNCHANGED net
       ELSE /\ Send(reqs, [Blank EXCEPT !.table = tableId, !.items = {p}])
            /\ UNCHANGED <<local, late>>
    /\ UNCHANGED <<backend, page, sale>>

removeLine(p) ==
    /\ Free /\ p \in Lines
    /\ IF tableId = NoTable
       THEN local' = local \ {p} /\ UNCHANGED net
       ELSE /\ Send(reqs, [Blank EXCEPT !.kind = "remove", !.order = View.order, !.items = {p}])
            /\ UNCHANGED local
    /\ UNCHANGED <<backend, page, late, sale>>

\* clear() of the cart on the page: its local lines, or each line of the order.
clear(rs) ==
    IF tableId = NoTable
    THEN local' = {} /\ Requests(rs)
    ELSE /\ UNCHANGED local
         /\ IF View.items = {}
            THEN Requests(rs)
            ELSE Send(rs, [Blank EXCEPT !.kind = "remove", !.order = View.order,
                                        !.items = View.items])

onClear ==
    /\ Free /\ Lines # {} /\ sale < key + MaxSales
    /\ clear(reqs)
    /\ sale' = sale + 1
    /\ UNCHANGED <<backend, page, late>>

resetForNewSale(rs) ==
    /\ key < MaxKeys
    /\ clear(rs)
    /\ tableId' = NoTable
    /\ resumed' = 0
    /\ completed' = FALSE
    /\ key' = key + 1
    /\ sale' = sale + 1
    /\ UNCHANGED <<pendingTableChange, seen, visit>>

-----------------------------------------------------------------------------
(* Held bills. *)

HoldOffered ==
    tableId = NoTable /\ local # {} /\ ~Pending("hold") /\ ~Pending("checkout")

holdBill ==
    /\ Free /\ HoldOffered
    /\ Send(reqs, [Blank EXCEPT !.kind = "hold", !.heard = TRUE, !.items = local])
    /\ UNCHANGED <<backend, page, local, late, sale>>

\* Mutant of resumeHeldBill: the held bill is deleted when it is resumed.
ResumeDeletes(h) ==
    /\ Free /\ held[h].gone = Kept /\ sale < key + MaxSales
    /\ tableId' = NoTable
    /\ local' = IF tableId = NoTable THEN held[h].items ELSE local
    /\ late' = IF Pending("move") THEN late \union held[h].items ELSE late
    /\ resumed' = h
    /\ sale' = sale + 1
    /\ Send(reqs, [Blank EXCEPT !.kind = "delete", !.held = h, !.key = key])
    /\ UNCHANGED <<backend, pendingTableChange, seen, completed, key, visit>>

\* In table mode setLines() does nothing: the bill is remembered, its lines are not.
resumeHeldBill(h) ==
    /\ Free /\ held[h].gone = Kept /\ sale < key + MaxSales
    /\ tableId' = NoTable
    /\ local' = IF tableId = NoTable THEN held[h].items ELSE local
    /\ late' = IF Pending("move") THEN late \union held[h].items ELSE late
    /\ resumed' = h
    /\ sale' = sale + 1
    /\ UNCHANGED <<backend, pendingTableChange, seen, completed, key, visit, net>>

deleteHeldBill(h) ==
    /\ Free /\ held[h].gone = Kept
    /\ Send(reqs, [Blank EXCEPT !.kind = "delete", !.held = h])
    /\ UNCHANGED <<backend, page, local, late, sale>>

-----------------------------------------------------------------------------
(* Tables. *)

\* The mutation hook follows its latest call: an earlier one keeps its callbacks.
Superseded == {IF r.kind = "move" THEN [r EXCEPT !.live = FALSE] ELSE r : r \in reqs}

\* Mutant of handleTableChange: a counter cart is left behind.
TableChangeDropsCart(next) ==
    /\ Free /\ next # tableId
    /\ \/ /\ tableId # NoTable /\ Lines # {}
          /\ pendingTableChange' = next
          /\ UNCHANGED tableId
       \/ /\ tableId = NoTable \/ Lines = {}
          /\ tableId' = next
          /\ UNCHANGED pendingTableChange
    /\ UNCHANGED <<backend, seen, resumed, completed, key, visit, local, late, sale, net>>

handleTableChange(next) ==
    /\ Free /\ next # tableId
    /\ \/ /\ tableId # NoTable /\ Lines # {}
          /\ pendingTableChange' = next
          /\ UNCHANGED <<tableId, net>>
       \/ /\ tableId = NoTable /\ next # NoTable /\ Lines # {}
          /\ Send(Superseded, [Blank EXCEPT !.kind = "move", !.heard = TRUE,
                                             !.table = next, !.items = local])
          /\ UNCHANGED <<tableId, pendingTableChange>>
       \/ /\ Lines = {}
          /\ tableId' = next
          /\ UNCHANGED <<pendingTableChange, net>>
    /\ UNCHANGED <<backend, seen, resumed, completed, key, visit, local, late, sale>>

onKeepCurrent ==
    /\ pendingTableChange # NoTable /\ ~Pending("transfer")
    /\ pendingTableChange' = NoTable
    /\ UNCHANGED <<backend, tableId, seen, resumed, completed, key, visit, local, late, sale, net>>

moveOrderToTable ==
    /\ pendingTableChange # NoTable /\ ~Pending("transfer")
    /\ tableId # NoTable /\ View.order # 0
    /\ Send(reqs, [Blank EXCEPT !.kind = "transfer", !.heard = TRUE, !.order = View.order,
                                !.table = pendingTableChange])
    /\ UNCHANGED <<backend, page, local, late, sale>>

KotOffered == tableId # NoTable /\ Lines # {} /\ ~Pending("kot")

sendKot ==
    /\ Free /\ KotOffered
    /\ Send(reqs, [Blank EXCEPT !.kind = "kot", !.heard = TRUE, !.order = View.order])
    /\ UNCHANGED <<backend, page, local, late, sale>>

\* The query of the table's open order answers.
Open(t) == {o \in 1..Len(orders) : orders[o].table = t /\ orders[o].status = "open"}

Refetch ==
    /\ tableId # NoTable
    /\ seen' = [seen EXCEPT ![tableId] =
                   IF Open(tableId) = {} THEN NoOrder
                   ELSE LET o == CHOOSE x \in Open(tableId) : TRUE
                        IN [order |-> o, items |-> orders[o].items]]
    /\ UNCHANGED <<backend, tableId, pendingTableChange, resumed, completed, key, visit,
                   local, late, sale, net>>

-----------------------------------------------------------------------------
(* Checkout.  The button waits for an answer at the counter, and for none at *)
(* a table; F9 works under the question about tables too.                    *)

canCheckout == ~completed /\ Lines # {} /\ ~Pending("checkout")

\* Mutant of handleCheckout: a table is billed without the key.
CheckoutWithoutKey ==
    /\ canCheckout
    /\ Send(reqs, IF tableId # NoTable
                  THEN [Blank EXCEPT !.kind = "bill", !.heard = TRUE,
                                     !.order = View.order]
                  ELSE [Blank EXCEPT !.kind = "checkout", !.heard = TRUE,
                                     !.items = local, !.key = key, !.held = resumed])
    /\ UNCHANGED <<backend, page, local, late, sale>>

handleCheckout ==
    /\ canCheckout
    /\ Send(reqs, IF tableId # NoTable
                  THEN [Blank EXCEPT !.kind = "bill", !.heard = TRUE,
                                     !.order = View.order, !.key = key]
                  ELSE [Blank EXCEPT !.kind = "checkout", !.heard = TRUE,
                                     !.items = local, !.key = key, !.held = resumed])
    /\ UNCHANGED <<backend, page, local, late, sale>>

closeReceipt ==
    /\ completed
    /\ resetForNewSale(reqs)
    /\ UNCHANGED <<backend, late>>

\* A new POSPage: its state starts over.
Mount ==
    /\ key < MaxKeys
    /\ tableId' = NoTable /\ pendingTableChange' = NoTable
    /\ resumed' = 0 /\ completed' = FALSE
    /\ key' = key + 1 /\ visit' = visit + 1

\* Another page and back: the local cart and the cached queries stay, and so do
\* the mutations.  (Leaving a table while a hold or a move is under way is left out.)
Leave ==
    /\ Mount
    /\ tableId = NoTable \/ ~\E r \in reqs : r.kind \in {"hold", "move"} /\ r.live
    /\ Requests({[r EXCEPT !.live = FALSE] : r \in reqs})
    /\ UNCHANGED <<backend, seen, local, late, sale>>

\* The tab is reloaded: what was sent may still be served.
Reload ==
    /\ Mount
    /\ seen' = [t \in Tables |-> NoOrder]
    /\ local' = {} /\ late' = {}
    /\ sale' = sale + 1
    /\ Requests({[r EXCEPT !.heard = FALSE] : r \in {q \in reqs : q.status = "sent"}})
    /\ UNCHANGED backend

-----------------------------------------------------------------------------
(* The backend. *)

Reply(r, answer) ==
    Requests((reqs \ {r}) \union (IF r.heard THEN {[r EXCEPT !.status = answer]} ELSE {}))

\* create_invoice(): a known key gets the invoice made under it.
create_invoice(r, items) ==
    invoices' = IF r.key # 0 /\ \E i \in 1..Len(invoices) : invoices[i].key = r.key
                THEN invoices
                ELSE Append(invoices, [key |-> r.key, sale |-> r.sale, visit |-> r.visit,
                                       items |-> items])

IsOpen(o) == o # 0 /\ orders[o].status = "open"

ServeCheckout(r) ==
    /\ r.kind = "checkout"
    /\ \/ create_invoice(r, r.items) /\ Reply(r, "ok")
       \/ UNCHANGED invoices /\ Reply(r, "refused")
    /\ UNCHANGED <<orders, held>>

bill_order(r) ==
    /\ r.kind = "bill"
    /\ \/ /\ IsOpen(r.order) /\ orders[r.order].items # {}
          /\ create_invoice(r, orders[r.order].items)
          /\ orders' = [orders EXCEPT ![r.order].status = "billed"]
          /\ Reply(r, "ok")
       \/ /\ UNCHANGED <<orders, invoices>>
          /\ Reply(r, "refused")
    /\ UNCHANGED held

create_held_bill(r) ==
    /\ r.kind = "hold" /\ Len(held) < MaxHeld
    /\ held' = Append(held, [items |-> r.items, gone |-> Kept])
    /\ Reply(r, "ok")
    /\ UNCHANGED <<orders, invoices>>

delete_held_bill(r) ==
    /\ r.kind = "delete"
    /\ held' = IF held[r.held].gone = Kept THEN [held EXCEPT ![r.held].gone = r.key] ELSE held
    /\ Reply(r, "ok")
    /\ UNCHANGED <<orders, invoices>>

\* Appends to the table's open order, and opens one when there is none.
open_table_order(r) ==
    /\ r.kind \in {"open", "move"}
    /\ IF Open(r.table) # {}
       THEN LET o == CHOOSE x \in Open(r.table) : TRUE
            IN orders' = [orders EXCEPT ![o].items = @ \union r.items,
                                        ![o].was = @ \union (r.items \X {r.table})]
       ELSE /\ Len(orders) < MaxOrders
            /\ orders' = Append(orders, [table |-> r.table, items |-> r.items,
                                         was |-> r.items \X {r.table},
                                         sent |-> {}, status |-> "open"])
    /\ Reply(r, "ok")
    /\ UNCHANGED <<invoices, held>>

\* One line after another; the first refusal ends the request.
remove_item(r) ==
    /\ r.kind = "remove"
    /\ \E p \in r.items :
           IF IsOpen(r.order) /\ p \in orders[r.order].items \ orders[r.order].sent
           THEN /\ orders' = [orders EXCEPT ![r.order].items = @ \ {p}]
                /\ IF r.items = {p} THEN Reply(r, "ok")
                   ELSE Requests((reqs \ {r}) \union {[r EXCEPT !.items = @ \ {p}]})
           ELSE UNCHANGED orders /\ Reply(r, "refused")
    /\ UNCHANGED <<invoices, held>>

create_kot(r) ==
    /\ r.kind = "kot"
    /\ IF IsOpen(r.order) /\ orders[r.order].items # orders[r.order].sent
       THEN /\ orders' = [orders EXCEPT ![r.order].sent = @ \union orders[r.order].items]
            /\ Reply(r, "ok")
       ELSE UNCHANGED orders /\ Reply(r, "refused")
    /\ UNCHANGED <<invoices, held>>

transfer_order(r) ==
    /\ r.kind = "transfer"
    /\ IF IsOpen(r.order) /\ r.table # NoTable /\ Open(r.table) = {}
       THEN /\ orders' = [orders EXCEPT ![r.order].table = r.table]
            /\ Reply(r, "ok")
       ELSE UNCHANGED orders /\ Reply(r, "refused")
    /\ UNCHANGED <<invoices, held>>

Serve(r) ==
    /\ r.status = "sent"
    /\ \/ ServeCheckout(r) \/ bill_order(r) \/ create_held_bill(r) \/ delete_held_bill(r)
       \/ open_table_order(r) \/ remove_item(r) \/ create_kot(r) \/ transfer_order(r)
    /\ UNCHANGED <<page, local, late, sale>>

\* The Tables screen bills the order.
BilledElsewhere(o) ==
    /\ IsOpen(o) /\ orders[o].items # {}
    /\ orders' = [orders EXCEPT ![o].status = "billed"]
    /\ invoices' = Append(invoices, [key |-> 0, sale |-> 0, visit |-> 0, items |-> orders[o].items])
    /\ UNCHANGED <<held, page, local, late, sale, net>>

-----------------------------------------------------------------------------
(* Answers. *)

\* The network gives up; the request may have been served, or be served later.
Lost(r) ==
    /\ r.heard
    /\ Requests((reqs \ {r}) \union
                    (IF r.status = "sent" THEN {[r EXCEPT !.heard = FALSE]} ELSE {}))
    /\ UNCHANGED <<backend, page, local, late, sale>>

Here(r) == r.visit = visit

CheckedOut(r) ==
    /\ r.kind = "checkout" /\ r.status = "ok"
    /\ completed' = IF Here(r) THEN TRUE ELSE completed
    /\ IF r.held = 0 THEN Requests(reqs \ {r})
       ELSE Send(reqs \ {r}, [Blank EXCEPT !.kind = "delete", !.held = r.held, !.key = r.key])
    /\ UNCHANGED <<backend, tableId, pendingTableChange, seen, resumed, key, visit,
                   local, late, sale>>

\* The receipt reads the invoice once more; that read failing is Lost too.
Billed(r) ==
    /\ r.kind = "bill" /\ r.status = "ok"
    /\ completed' = IF Here(r) THEN TRUE ELSE completed
    /\ Requests(reqs \ {r})
    /\ UNCHANGED <<backend, tableId, pendingTableChange, seen, resumed, key, visit,
                   local, late, sale>>

HeldNow(r) ==
    /\ r.kind = "hold" /\ r.status = "ok"
    /\ IF Here(r) THEN resetForNewSale(reqs \ {r})
       ELSE local' = {} /\ Requests(reqs \ {r}) /\ UNCHANGED <<page, sale>>
    /\ UNCHANGED <<backend, late>>

CartMoved(r) ==
    /\ r.kind = "move" /\ r.status = "ok"
    /\ IF r.live THEN clear(reqs \ {r}) ELSE local' = {} /\ Requests(reqs \ {r})
    /\ tableId' = IF Here(r) THEN r.table ELSE tableId
    /\ UNCHANGED <<backend, pendingTableChange, seen, resumed, completed, key, visit, late, sale>>

OrderMoved(r) ==
    /\ r.kind = "transfer" /\ r.status = "ok"
    /\ IF Here(r) THEN tableId' = r.table /\ pendingTableChange' = NoTable
       ELSE UNCHANGED <<tableId, pendingTableChange>>
    /\ Requests(reqs \ {r})
    /\ UNCHANGED <<backend, seen, resumed, completed, key, visit, local, late, sale>>

\* A refusal, which is shown, or a ticket sent.
Noticed(r) ==
    /\ r.status = "refused" \/ (r.status = "ok" /\ r.kind = "kot")
    /\ Requests(reqs \ {r})
    /\ UNCHANGED <<backend, page, local, late, sale>>

Answer(r) ==
    CheckedOut(r) \/ Billed(r) \/ HeldNow(r) \/ CartMoved(r) \/ OrderMoved(r) \/ Noticed(r)

TillNext ==
    \/ \E p \in Products : addProduct(p) \/ removeLine(p)
    \/ onClear \/ holdBill
    \/ \E h \in 1..Len(held) : resumeHeldBill(h) \/ deleteHeldBill(h)
    \/ \E t \in Tables \union {NoTable} : handleTableChange(t)
    \/ onKeepCurrent \/ moveOrderToTable \/ sendKot \/ Refetch
    \/ handleCheckout \/ closeReceipt \/ Leave \/ Reload
    \/ \E r \in reqs : Serve(r) \/ Lost(r) \/ Answer(r)
    \/ \E o \in 1..Len(orders) : BilledElsewhere(o)

TillSpec == TillInit /\ [][TillNext]_tillVars

-----------------------------------------------------------------------------
(* Properties. *)

\* However often the button is pressed, at the counter or after the cart has
\* moved to a table, and whatever answers are lost: one sale rung up during one
\* visit of the page gets at most one invoice (POSPage.tsx:77-80).
OneInvoicePerSale ==
    \A i, j \in 1..Len(invoices) :
        invoices[i].sale # 0 /\ invoices[i].sale = invoices[j].sale
            /\ invoices[i].visit = invoices[j].visit => i = j

\* A held bill outlives every checkout that is refused, unanswered or cut off by
\* a reload or a crash: one that was not deleted by hand went after an answer to a
\* checkout, and that checkout's key has its invoice (POSPage.tsx:376-381).  What
\* the invoice is for is the subject of HeldBillsAreSold.
HeldBillsOutliveFailures ==
    \A h \in 1..Len(held) :
        held[h].gone \notin {ByHand, Kept} =>
            \E i \in 1..Len(invoices) : invoices[i].key = held[h].gone

\* "the held bill itself is only deleted" once "that resumed bill's checkout
\* actually succeeds" (POSPage.tsx:73-75): the sale for which a held bill was
\* deleted has at least one of its lines.
HeldBillsAreSold ==
    \A h \in 1..Len(held) :
        held[h].gone \notin {ByHand, Kept} =>
            \E i \in 1..Len(invoices) :
                invoices[i].key = held[h].gone /\ invoices[i].items \intersect held[h].items # {}

\* When the till turns to a table with a cart in hand, each line rung before the
\* cart was sent has been put on that table's order (POSPage.tsx:187-190).
CarriedLinesReachTheTable ==
    [][\A p \in local \ late :
           tableId = NoTable /\ tableId' # NoTable =>
               \E o \in 1..Len(orders) : <<p, tableId'>> \in orders[o].was]_tillVars

\* A sale gets at most one invoice, also when the page is left and opened again
\* with the cart still in it.
ChargedOnce ==
    \A i, j \in 1..Len(invoices) :
        invoices[i].sale # 0 /\ invoices[i].sale = invoices[j].sale => i = j
=============================================================================
