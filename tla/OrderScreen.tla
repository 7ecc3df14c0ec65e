---------------------------- MODULE OrderScreen ----------------------------
(***************************************************************************)
(* The restaurant screens of the billing app (features/restaurant/pages):   *)
(* table setup, the floor, the order of a table, the kitchen board, and the *)
(* till's KOT button, over the functions of module Restaurant.              *)
(*                                                                         *)
(* Several people look at one order on screens that are read now and then.   *)
(* A press takes its content from what the database held when the screen     *)
(* was read, and is served any time later or never: the age of the screen    *)
(* and the way of the request are one delay.  A request that is refused, and *)
(* an answer that is lost, just vanish.                                     *)
(***************************************************************************)
EXTENDS Restaurant, Sequences

CONSTANTS
    MaxCalls,     \* bound: presses
    MaxInFlight   \* bound: at once

ASSUME OrderScreenAssumption ==
    /\ MaxCalls \in Nat /\ MaxInFlight \in Nat
    /\ IsFiniteSet(Items)

VARIABLES
    reqs,    \* presses not yet served; n tells equal ones apart
    calls,   \* presses so far, for their bound
    prints   \* ticket |-> [print_status, print_count, ghosts: paper that came out and
             \* how the order screen's last print of it went]

shop == <<tables, order, item, kot>>
svars == <<shop, reqs, calls, prints>>

Kinds == {"table", "delete", "open", "release", "add", "quantity", "remove", "kot", "print",
          "mark", "status", "cancel", "bill", "transfer", "merge", "split"}
PrintRow ==
    [status : {"pending", "printed", "failed"}, count : Nat, paper : Nat,
     last : {"none", "ok", "failed"}]

Press(kind) ==
    [kind |-> kind, n |-> 1, order |-> NoOrder, table |-> NoTable, kots |-> {}, items |-> {},
     quantity |-> [i \in Items |-> 0], orders |-> {}, to |-> "none",
     cancel |-> FALSE, till |-> FALSE, says |-> {}]

\* Every line on an order has a quantity, and the screens ask about what exists.
ScreenTypeOK ==
    /\ TypeOK
    /\ \A i \in Items : item[i].order # NoOrder => item[i].quantity > 0
    /\ prints \in [Kots -> PrintRow]
    /\ calls \in 0..MaxCalls
    /\ \A r \in reqs : /\ r.kind \in Kinds /\ r.n \in 1..MaxInFlight
                       /\ DOMAIN r = DOMAIN Press("open")
                       /\ \A k \in r.kots : kot[k].status # "none"
                       /\ \A i \in Items : r.quantity[i] \in Nat

SInit ==
    /\ tables = [t \in Tables |-> "available"]
    /\ order = [o \in Orders |-> [status |-> "none", table |-> NoTable, merged_into |-> NoOrder]]
    /\ item = [i \in Items |-> NoItem]
    /\ kot = [k \in Kots |-> [status |-> "none", order |-> NoOrder,
                              quantity |-> [i \in Items |-> 0]]]
    /\ reqs = {} /\ calls = 0
    /\ prints = [k \in Kots |-> [status |-> "pending", count |-> 0, paper |-> 0, last |-> "none"]]

-----------------------------------------------------------------------------
(* Presses. *)

Joined(rs, r) ==
    rs \union {[r EXCEPT !.n = CHOOSE n \in 1..MaxInFlight : [r EXCEPT !.n = n] \notin rs]}

Send(r) ==
    /\ calls < MaxCalls /\ Cardinality(reqs) < MaxInFlight
    /\ calls' = calls + 1
    /\ reqs' = Joined(reqs, r)
    /\ UNCHANGED <<shop, prints>>

\* Table setup.
addTable(t) ==
    /\ tables[t] = "none"
    /\ Send([Press("table") EXCEPT !.table = t])

removeTable(t) ==
    /\ tables[t] # "none"
    /\ Send([Press("delete") EXCEPT !.table = t])

\* The floor: a free table starts an order, an occupied one shows its own.
handleSelect(t) ==
    /\ tables[t] # "none" /\ OrdersAt(t) = {}
    /\ Send([Press("open") EXCEPT !.table = t])

\* What the dialog says is at stake: items on the tab, tickets in the kitchen.
AtStake(t) ==
    {what \in {"items", "kitchen"} : \E o \in OrdersAt(t) :
        ItemsOf(o) # {} /\ (what = "kitchen" => kots_with_kitchen(o) # {})}

\* Mutant of releaseTable: the dialog confirms cancelling whatever it showed.
ConfirmAnyway(t) ==
    /\ tables[t] \notin {"none", "available"}
    /\ Send([Press("release") EXCEPT !.table = t, !.cancel = TRUE, !.says = AtStake(t)])

releaseTable(t) ==
    /\ tables[t] \notin {"none", "available"}
    /\ Send([Press("release") EXCEPT !.table = t, !.cancel = "items" \in AtStake(t),
                                     !.says = AtStake(t)])

addItem(o) ==
    /\ Open(o)
    /\ Send([Press("add") EXCEPT !.order = o])

\* The cart addresses a line by its product, the order by its row: a press on line i
\* goes to the first row of its product.  Products are left out: it is some row.
orderItemForProduct(i) == ItemsOf(item[i].order)

removeItem(i) ==
    /\ item[i].order # NoOrder /\ Open(item[i].order)
    /\ \E j \in orderItemForProduct(i) : 
           Send([Press("remove") EXCEPT !.order = item[i].order, !.items = {j}])

\* One more, one less or typed in; none at all asks for a removal instead.
changeQuantity(i) ==
    /\ item[i].order # NoOrder /\ Open(item[i].order)
    /\ \E j \in orderItemForProduct(i), n \in 1..MaxQty \ {item[i].quantity} :
           Send([Press("quantity") EXCEPT !.order = item[i].order, !.items = {j},
                                          !.quantity = [@ EXCEPT ![j] = n]])

clearOrder(o) ==
    /\ Open(o) /\ ItemsOf(o) # {}
    /\ Send([Press("remove") EXCEPT !.order = o, !.items = ItemsOf(o)])

\* Everything not yet sent; the till's button leads to the same call.
Unsent(o) == [i \in Items |-> IF i \in ItemsOf(o) THEN item[i].quantity - item[i].sent ELSE 0]

sendKot(o) ==
    /\ Open(o)
    /\ \E i \in Items : Unsent(o)[i] > 0
    /\ \E till \in BOOLEAN : Send([Press("kot") EXCEPT !.order = o, !.till = till])

reprintKot(k) ==
    /\ kot[k].status \notin {"none", "cancelled"}
    /\ Send([Press("print") EXCEPT !.kots = {k}])

\* From the order screen or from the kitchen board.
cancelKot(k) ==
    /\ kot[k].status \in KOT_WITH_KITCHEN
    /\ Send([Press("cancel") EXCEPT !.kots = {k}])

NextStatus(status) ==
    CASE status = "pending" -> "preparing"
      [] status = "preparing" -> "ready"
      [] status = "ready" -> "served"

advance(k) ==
    /\ kot[k].status \in KOT_WITH_KITCHEN
    /\ Send([Press("status") EXCEPT !.kots = {k}, !.to = NextStatus(kot[k].status)])

billOrder(o) ==
    /\ Open(o) /\ ItemsOf(o) # {}
    /\ Send([Press("bill") EXCEPT !.order = o])

\* The tables a dialog offers.
freeTables == {t \in Tables : tables[t] # "none" /\ OrdersAt(t) = {}}

transferOrder(o) ==
    /\ Open(o)
    /\ \E t \in freeTables : Send([Press("transfer") EXCEPT !.order = o, !.table = t])

mergeOrders(o) ==
    /\ Open(o)
    /\ \E S \in SUBSET {p \in Orders : Open(p)} \ {{}} :
           /\ o \notin S
           /\ Send([Press("merge") EXCEPT !.order = o, !.orders = S])

\* Part of the order, and never all of it.
splitOrder(o) ==
    /\ Open(o)
    /\ \E q \in [Items -> 0..MaxQty] :
           /\ \A i \in Items : q[i] > 0 => i \in ItemsOf(o) /\ q[i] <= item[i].quantity
           /\ \E i \in Items : q[i] > 0
           /\ \E i \in ItemsOf(o) : q[i] < item[i].quantity
           /\ \E t \in freeTables \union {NoTable} :
                  Send([Press("split") EXCEPT !.order = o, !.table = t, !.quantity = q])

-----------------------------------------------------------------------------
(* Serving.  An answer may be lost on its way back. *)

Gone(r) == reqs' = reqs \ {r}
Goes(r, next) == reqs' = Joined(reqs \ {r}, next)
Done(r) == Gone(r) /\ UNCHANGED <<calls, prints>>
Then(r, next) == (Gone(r) \/ Goes(r, next)) /\ UNCHANGED <<calls, prints>>

Serve(r) ==
    \/ r.kind = "table" /\ Done(r) /\ CreateTable(r.table)
    \/ r.kind = "delete" /\ Done(r) /\ DeleteTable(r.table)
    \/ r.kind = "open" /\ Done(r) /\ \E o \in Orders : CreateOrder(o, r.table, << >>)
    \/ r.kind = "release" /\ Done(r) /\ ReleaseTable(r.table, r.cancel)
    \/ r.kind = "add" /\ Done(r) /\ \E i \in Fresh : AddItems(r.order, [x \in {i} |-> 1])
    \/ r.kind = "quantity" /\ Done(r) /\ \E i \in r.items \cap ItemsOf(r.order) :
          UpdateItem(i, r.quantity[i])
    \/ r.kind = "remove" /\ \E i \in r.items \cap ItemsOf(r.order) :
          /\ RemoveItem(i)
          /\ IF r.items = {i} THEN Done(r)
             ELSE /\ Goes(r, [r EXCEPT !.items = @ \ {i}])
                  /\ UNCHANGED <<calls, prints>>
    \/ r.kind = "kot" /\ \E k \in Kots :
          /\ CreateKot(k, r.order, Unsent(r.order))
          /\ Then(r, [Press("print") EXCEPT !.kots = {k}, !.till = r.till])
    \/ r.kind = "status" /\ Done(r) /\ \E k \in r.kots : SetKotStatus(k, r.to)
    \/ r.kind = "cancel" /\ Done(r) /\ \E k \in r.kots : CancelKot(k)
    \/ r.kind = "bill" /\ Done(r) /\ BillOrder(r.order)
    \/ r.kind = "transfer" /\ Done(r) /\ TransferOrder(r.order, r.table)
    \/ r.kind = "merge" /\ Done(r) /\ MergeOrders(r.order, r.orders)
    \/ r.kind = "split" /\ Done(r) /\ \E n \in Orders :
          LET chosen == [i \in {x \in Items : r.quantity[x] > 0} |-> r.quantity[i]]
          IN \E copy \in Injection(DOMAIN chosen, Fresh) :
                 SplitOrder(r.order, n, r.table, chosen, copy)

\* Refused, or never served.
Vanish(r) == Done(r) /\ UNCHANGED shop

-----------------------------------------------------------------------------
(* Printing a ticket and recording how it went.  A failure may come after   *)
(* the paper: the answer of the printer can be lost too.                    *)

\* Mutant of Result: records a result the order screen does not know.
OkIsNoStatus(k, r, ok, paper) ==
    /\ prints' = [prints EXCEPT ![k].paper = @ + paper,
                                ![k].last = IF r.till THEN @ ELSE IF ok THEN "ok" ELSE "failed"]
    /\ IF r.till THEN Gone(r)
       ELSE Goes(r, [Press("mark") EXCEPT !.kots = {k}, !.to = IF ok THEN "ok" ELSE "failed"])
    /\ UNCHANGED <<shop, calls>>

Result(k, r, ok, paper) ==
    /\ prints' = [prints EXCEPT ![k].paper = @ + paper,
                                ![k].last = IF r.till THEN @ ELSE IF ok THEN "ok" ELSE "failed"]
    /\ IF r.till THEN Gone(r)
       ELSE Goes(r, [Press("mark") EXCEPT !.kots = {k}, !.to = IF ok THEN "printed" ELSE "failed"])
    /\ UNCHANGED <<shop, calls>>

\* Mutant of printAndRecord: the ticket counts as printed as soon as it was sent off.
RecordAnyway(r) ==
    /\ r.kind = "print"
    /\ \E k \in r.kots :
           /\ prints' = [prints EXCEPT ![k].last = "failed"]
           /\ Goes(r, [Press("mark") EXCEPT !.kots = {k}, !.to = "printed"])
           /\ UNCHANGED <<shop, calls>>

\* The till shows a failure to the cashier and records nothing.
printAndRecord(r) ==
    /\ r.kind = "print"
    /\ \E k \in r.kots :
           Result(k, r, TRUE, 1) \/ \E paper \in {0, 1} : Result(k, r, FALSE, paper)

MarkKot(r) ==
    /\ r.kind = "mark"
    /\ \E k \in r.kots :
           prints' = [prints EXCEPT ![k].status = r.to,
                                    ![k].count = IF r.to = "printed" THEN @ + 1 ELSE @]
    /\ Gone(r)
    /\ UNCHANGED <<shop, calls>>

-----------------------------------------------------------------------------
SNext ==
    \/ \E t \in Tables : addTable(t) \/ removeTable(t) \/ handleSelect(t) \/ releaseTable(t)
    \/ \E o \in Orders : addItem(o) \/ clearOrder(o) \/ sendKot(o) \/ billOrder(o)
                         \/ transferOrder(o) \/ mergeOrders(o) \/ splitOrder(o)
    \/ \E i \in Items : removeItem(i) \/ changeQuantity(i)
    \/ \E k \in Kots : reprintKot(k) \/ cancelKot(k) \/ advance(k)
    \/ \E r \in reqs : Serve(r) \/ Vanish(r) \/ printAndRecord(r) \/ MarkKot(r)

SSpec == SInit /\ [][SNext]_svars

-----------------------------------------------------------------------------
(* Properties. *)

\* print_count is how often the ticket came out of a printer, never more: a
\* ticket shown as printed is on paper, whatever marks, answers and tickets are
\* lost (RestaurantOrderPage.tsx:125-134).
CountedPrintsAreOnPaper ==
    \A k \in Kots :
        /\ prints[k].count <= prints[k].paper
        /\ prints[k].status = "printed" => prints[k].paper > 0

\* However often a round is sent, from whatever screens: the tickets the kitchen
\* has not been told to drop never hold more food than was ordered.
FoodFiredOnce ==
    LET live == {k \in Kots : kot[k].status \notin {"none", "cancelled"}}
    IN SumFunction([k \in live |-> SumFunction(kot[k].quantity)])
           <= SumFunction([i \in Items |-> item[i].quantity])

\* A tab with items is discarded only by somebody whose screen said that there
\* were items on it (ReleaseTableDialog.tsx:15-22).
TabsAreDiscardedKnowingly ==
    [][\A o \in Orders :
           order[o].status = "open" /\ order'[o].status = "cancelled" /\ ItemsOf(o) # {} =>
               \E r \in reqs \ reqs' : r.kind = "release" /\ "items" \in r.says]_svars

\* A ticket whose printing failed shows as failed on the order, once nothing more
\* is under way (RestaurantOrderPage.tsx:130-132, restaurant/service.py:789-792).
FailedPrintIsShown ==
    \A k \in Kots :
        prints[k].last = "failed" /\ ~(\E r \in reqs : k \in r.kots) => prints[k].status = "failed"

\* Tickets are pulled from the kitchen by a release only when the dialog said so
\* (ReleaseTableDialog.tsx:18-22).
ReleaseSaysWhatItPulls ==
    [][\A k \in Kots, r \in reqs \ reqs' :
           r.kind = "release" /\ kot[k].status \in KOT_WITH_KITCHEN
               /\ kot'[k].status = "cancelled" => "kitchen" \in r.says]_svars
=============================================================================
