----------------------------- MODULE Restaurant -----------------------------
(***************************************************************************)
(* Dine-in service of one tenant: tables, orders with their item lines,    *)
(* and kitchen order tickets (KOTs): backend/app/modules/restaurant.       *)
(*                                                                         *)
(* One action per service function; each runs in one session and commits   *)
(* once.  bill_order commits twice; here it is one step, and module        *)
(* RestaurantBilling takes it apart.  quick_bill_table is CreateOrder or   *)
(* AddItems followed by BillOrder, each with its own commit.  Prices,      *)
(* notes, names, floors and print bookkeeping are left out.                *)
(***************************************************************************)
EXTENDS Integers, FiniteSets, Functions

CONSTANTS
  Tables, Orders, Items, Kots,  \* row ids
  NoTable,      \* RestaurantOrder.table_id is NULL: a takeaway order
  NoOrder,      \* no order
  MaxQty,       \* bound on the quantity of one line
  MaxRepeats,   \* bound: how often one KOT request names the same line
  Features,     \* the modules the tenant's plan enables
  ForeignKeys   \* the database enforces foreign keys (PostgreSQL), or not (SQLite)

ASSUME RestaurantAssumption ==
  /\ NoTable \notin Tables
  /\ NoOrder \notin Orders
  /\ MaxQty \in Nat \ {0} /\ MaxRepeats \in Nat \ {0}
  /\ IsFiniteSet(Kots)
  /\ ForeignKeys \in BOOLEAN

VARIABLES
  tables,  \* restaurant_tables.status
  order,   \* restaurant_orders
  item,    \* restaurant_order_items
  kot      \* kots with kot_items

vars == <<tables, order, item, kot>>
-----------------------------------------------------------------------------
TableStatus == {"none", "available", "occupied", "reserved", "billing", "cleaning"}
OrderRow ==
  [status : {"none", "open", "billed", "cancelled", "merged"},
   table : Tables \cup {NoTable}, merged_into : Orders \cup {NoOrder}]
ItemRow == [order : Orders \cup {NoOrder}, quantity : Nat, sent : Nat]
KotRow ==
  [status : {"none", "pending", "preparing", "ready", "served", "cancelled"},
   order : Orders \cup {NoOrder}, quantity : [Items -> Nat]]

NoItem == [order |-> NoOrder, quantity |-> 0, sent |-> 0]

KOT_WITH_KITCHEN == {"pending", "preparing", "ready"}
KOT_TRANSITIONS(status) ==
  CASE status = "pending" -> {"preparing", "ready", "served"}
    [] status = "preparing" -> {"ready", "served"}
    [] status = "ready" -> {"served"}
    [] OTHER -> {}

\* Mutant: a billed order may still be changed.
OpenOrBilled(o) == order[o].status \in {"open", "billed"}
\* _require_open
Open(o) == order[o].status = "open"
ItemsOf(o) == {i \in Items : item[i].order = o}
KotsOf(o) == {k \in Kots : kot[k].order = o}
\* Mutant: only what the kitchen has not started counts.
PendingKots(o) == {k \in KotsOf(o) : kot[k].status = "pending"}
kots_with_kitchen(o) == {k \in KotsOf(o) : kot[k].status \in KOT_WITH_KITCHEN}
OrdersAt(t) == {o \in Orders : Open(o) /\ order[o].table = t}

\* Mutant: the open order of the table is not looked for.
Exists(t) == t # NoTable => tables[t] # "none"
\* The refusal of an occupied table; takeaway orders have none.
Free(t) == t # NoTable => tables[t] # "none" /\ OrdersAt(t) = {}

\* An id that no row has had yet (a deleted line's id lives on in its tickets).
Fresh == {i \in Items : item[i].order = NoOrder /\ \A k \in Kots : kot[k].quantity[i] = 0}

\* Deleting a line that some ticket ever named breaks kot_items' foreign key.
Deletable(i) == ForeignKeys => \A k \in Kots : kot[k].quantity[i] = 0

\* Mutant: the table of a closed order stays occupied.
NeverFreed(ts, rows) ==
  [t \in Tables |-> IF t \in ts /\ \E o \in Orders : rows[o].status = "open" /\ rows[o].table = t
                    THEN "occupied" ELSE tables[t]]
\* sync_table_status of the tables ts, once the orders are the given rows.
SyncTables(ts, rows) ==
  [t \in Tables |->
     IF t \notin ts THEN tables[t]
     ELSE IF \E o \in Orders : rows[o].status = "open" /\ rows[o].table = t
          THEN "occupied"
     ELSE IF tables[t] \in {"occupied", "billing"} THEN "available"
     ELSE tables[t]]

Init ==
  /\ tables = [t \in Tables |-> "none"]
  /\ order = [o \in Orders |->
                [status |-> "none", table |-> NoTable, merged_into |-> NoOrder]]
  /\ item = [i \in Items |-> NoItem]
  /\ kot = [k \in Kots |-> [status |-> "none", order |-> NoOrder,
                            quantity |-> [i \in Items |-> 0]]]
-----------------------------------------------------------------------------
CreateTable(t) ==
  /\ tables[t] = "none"
  /\ \A o \in Orders : order[o].table # t
  /\ tables' = [tables EXCEPT ![t] = "available"]
  /\ UNCHANGED <<order, item, kot>>

SetTableStatus(t, status) ==
  /\ tables[t] # "none"
  /\ OrdersAt(t) = {}
  /\ tables' = [tables EXCEPT ![t] = status]
  /\ UNCHANGED <<order, item, kot>>

DeleteTable(t) ==
  /\ tables[t] # "none"
  /\ OrdersAt(t) = {}
  /\ ForeignKeys => \A o \in Orders : order[o].table # t
  /\ tables' = [tables EXCEPT ![t] = "none"]
  /\ UNCHANGED <<order, item, kot>>
-----------------------------------------------------------------------------
\* _append_item: every requested line becomes a row of its own.
Appended(o, lines) ==
  [i \in Items |-> IF i \in DOMAIN lines
                   THEN [order |-> o, quantity |-> lines[i], sent |-> 0]
                   ELSE item[i]]

NewOrder(o, t) ==
  [order EXCEPT ![o] = [status |-> "open", table |-> t, merged_into |-> NoOrder]]

CreateOrder(o, t, lines) ==
  /\ order[o].status = "none"
  /\ Free(t)
  /\ order' = NewOrder(o, t)
  /\ item' = Appended(o, lines)
  /\ tables' = SyncTables({t}, order')
  /\ UNCHANGED kot

AddItems(o, lines) ==
  /\ Open(o) /\ lines # << >>
  /\ item' = Appended(o, lines)
  /\ UNCHANGED <<tables, order, kot>>

\* The table's tab: the open order if there is one, a new one otherwise.
OpenTableOrder(o, t, lines) ==
  IF OrdersAt(t) # {} THEN o \in OrdersAt(t) /\ AddItems(o, lines)
  ELSE CreateOrder(o, t, lines)

UpdateItem(i, quantity) ==
  /\ item[i].order # NoOrder /\ Open(item[i].order)
  /\ quantity >= item[i].sent
  /\ item' = [item EXCEPT ![i].quantity = quantity]
  /\ UNCHANGED <<tables, order, kot>>

RemoveItem(i) ==
  /\ item[i].order # NoOrder /\ Open(item[i].order)
  /\ item[i].sent = 0
  /\ Deletable(i)
  /\ item' = [item EXCEPT ![i] = NoItem]
  /\ UNCHANGED <<tables, order, kot>>

CancelOrder(o) ==
  /\ Open(o)
  /\ kots_with_kitchen(o) = {}
  /\ order' = [order EXCEPT ![o].status = "cancelled"]
  /\ tables' = SyncTables({order[o].table}, order')
  /\ UNCHANGED <<item, kot>>

BillOrder(o) ==
  /\ Open(o)
  /\ \E i \in ItemsOf(o) : item[i].quantity > 0
  /\ order' = [order EXCEPT ![o].status = "billed"]
  /\ tables' = SyncTables({order[o].table}, order')
  /\ UNCHANGED <<item, kot>>
-----------------------------------------------------------------------------
TransferOrder(o, t) ==
  /\ "table_transfer" \in Features
  /\ Open(o)
  /\ order[o].table # t
  /\ Free(t)
  /\ order' = [order EXCEPT ![o].table = t]
  /\ tables' = SyncTables({order[o].table, t}, order')
  /\ UNCHANGED <<item, kot>>

\* Mutant: the tickets stay with the merged order.
TicketsLeftBehind(o, sources) == kot
TicketsMoved(o, sources) ==
  [k \in Kots |-> IF kot[k].order \in sources THEN [kot[k] EXCEPT !.order = o] ELSE kot[k]]

MergeOrders(o, sources) ==
  /\ "table_merge" \in Features
  /\ Open(o)
  /\ sources # {} /\ o \notin sources /\ \A s \in sources : Open(s)
  /\ item' = [i \in Items |->
       IF item[i].order \in sources THEN [item[i] EXCEPT !.order = o] ELSE item[i]]
  /\ kot' = TicketsMoved(o, sources)
  /\ order' = [s \in Orders |->
       IF s \in sources THEN [order[s] EXCEPT !.status = "merged", !.merged_into = o]
       ELSE order[s]]
  /\ tables' = SyncTables({order[s].table : s \in sources}, order')

\* chosen: the quantity taken from each selected line.
\* copy: the new line (of order n) for each selected line.
SplitOrder(o, n, t, chosen, copy) ==
  /\ "table_split" \in Features
  /\ Open(o) /\ order[n].status = "none"
  /\ Free(t)
  /\ LET moved == DOMAIN chosen
         sentWith(i) == IF item[i].sent <= chosen[i] THEN item[i].sent ELSE chosen[i]
     IN /\ moved # {} /\ moved \subseteq ItemsOf(o)
        /\ \A i \in moved : /\ chosen[i] <= item[i].quantity
                            /\ chosen[i] = item[i].quantity => Deletable(i)
        /\ item' = [i \in Items |->
             IF i \in moved THEN
               IF chosen[i] = item[i].quantity THEN NoItem
               ELSE [item[i] EXCEPT !.quantity = @ - chosen[i], !.sent = @ - sentWith(i)]
             ELSE IF \E s \in moved : copy[s] = i THEN
               LET s == CHOOSE s \in moved : copy[s] = i
               IN [order |-> n, quantity |-> chosen[s], sent |-> sentWith(s)]
             ELSE item[i]]
  /\ order' = NewOrder(n, t)
  /\ tables' = SyncTables({t}, order')
  /\ UNCHANGED kot
-----------------------------------------------------------------------------
\* Mutant of CreateKot: what was sent is not recorded on the lines.
CreateKotUnrecorded(k, o, quantity) ==
  /\ "kot" \in Features
  /\ kot[k].status = "none"
  /\ Open(o)
  /\ \E i \in Items : quantity[i] > 0
  /\ \A i \in Items : quantity[i] > 0 =>
       /\ i \in ItemsOf(o)
       /\ quantity[i] <= MaxRepeats * (item[i].quantity - item[i].sent)
  /\ kot' = [kot EXCEPT ![k] = [status |-> "pending", order |-> o, quantity |-> quantity]]
  /\ UNCHANGED <<tables, order, item>>

\* Each mention of a line is checked against what is unsent before the request.
CreateKot(k, o, quantity) ==
  /\ "kot" \in Features
  /\ kot[k].status = "none"
  /\ Open(o)
  /\ \E i \in Items : quantity[i] > 0
  /\ \A i \in Items : quantity[i] > 0 =>
       /\ i \in ItemsOf(o)
       /\ quantity[i] <= MaxRepeats * (item[i].quantity - item[i].sent)
  /\ kot' = [kot EXCEPT ![k] = [status |-> "pending", order |-> o, quantity |-> quantity]]
  /\ item' = [i \in Items |-> [item[i] EXCEPT !.sent = @ + quantity[i]]]
  /\ UNCHANGED <<tables, order>>

SetKotStatus(k, status) ==
  /\ "kot" \in Features
  /\ status \in KOT_TRANSITIONS(kot[k].status)
  /\ kot' = [kot EXCEPT ![k].status = status]
  /\ UNCHANGED <<tables, order, item>>

\* What the tickets ks hold of line i, for lines of the ticket's own order.
Pulled(ks, i) ==
  SumFunction([k \in {l \in ks : kot[l].order = item[i].order} |-> kot[k].quantity[i]])

\* Mutant: the quantities are not put back.
NothingPutBack(ks) == item
\* Mutant: what a split moved away is subtracted too.
PutBackBlindly(ks) == [i \in Items |-> [item[i] EXCEPT !.sent = @ - Pulled(ks, i)]]
\* _pull_kot
PutBack(ks) ==
  [i \in Items |-> [item[i] EXCEPT
     !.sent = IF @ >= Pulled(ks, i) THEN @ - Pulled(ks, i) ELSE 0]]

PullKots(ks) ==
  /\ kot' = [k \in Kots |->
       IF k \in ks THEN [kot[k] EXCEPT !.status = "cancelled"] ELSE kot[k]]
  /\ item' = PutBack(ks)

\* The ticket's order may be closed by now: only the ticket's status is read.
CancelKot(k) ==
  /\ "kot" \in Features
  /\ kot[k].status \in KOT_WITH_KITCHEN
  /\ PullKots({k})
  /\ UNCHANGED <<tables, order>>

ReleaseTable(t, cancel_order) ==
  /\ tables[t] # "none"
  /\ \A o \in OrdersAt(t) : ItemsOf(o) # {} \/ kots_with_kitchen(o) # {} => cancel_order
  /\ PullKots(UNION {kots_with_kitchen(o) : o \in OrdersAt(t)})
  /\ order' = [o \in Orders |->
       IF o \in OrdersAt(t) THEN [order[o] EXCEPT !.status = "cancelled"] ELSE order[o]]
  /\ tables' = SyncTables({t}, order')
-----------------------------------------------------------------------------
NewLines == UNION {[S -> 1..MaxQty] : S \in SUBSET Fresh}

Next ==
  \/ \E t \in Tables : CreateTable(t) \/ DeleteTable(t)
  \/ \E t \in Tables, s \in {"available", "reserved", "cleaning"} : SetTableStatus(t, s)
  \/ \E o \in Orders, t \in Tables \cup {NoTable}, lines \in NewLines :
       CreateOrder(o, t, lines)
  \/ \E o \in Orders, lines \in NewLines : AddItems(o, lines)
  \/ \E o \in Orders, t \in Tables, lines \in NewLines : OpenTableOrder(o, t, lines)
  \/ \E i \in Items, q \in 1..MaxQty : UpdateItem(i, q)
  \/ \E i \in Items : RemoveItem(i)
  \/ \E o \in Orders : CancelOrder(o) \/ BillOrder(o)
  \/ \E o \in Orders, t \in Tables : TransferOrder(o, t)
  \/ \E o \in Orders, sources \in SUBSET Orders : MergeOrders(o, sources)
  \/ \E o, n \in Orders, t \in Tables \cup {NoTable} :
       \E chosen \in UNION {[S -> 1..MaxQty] : S \in SUBSET ItemsOf(o)} :
       \E copy \in Injection(DOMAIN chosen, Fresh) : SplitOrder(o, n, t, chosen, copy)
  \/ \E k \in Kots, o \in Orders :
       \E quantity \in [Items -> 0..(MaxRepeats * MaxQty)] : CreateKot(k, o, quantity)
  \/ \E k \in Kots, s \in {"preparing", "ready", "served"} : SetKotStatus(k, s)
  \/ \E k \in Kots : CancelKot(k)
  \/ \E t \in Tables, cancel_order \in BOOLEAN : ReleaseTable(t, cancel_order)

Spec == Init /\ [][Next]_vars
-----------------------------------------------------------------------------
(***************************************************************************)
(* Every table holds rows of its type; sent_quantity never goes negative   *)
(* although split_order moves it and _pull_kot subtracts whole tickets.    *)
(***************************************************************************)
TypeOK ==
  /\ tables \in [Tables -> TableStatus]
  /\ order \in [Orders -> OrderRow]
  /\ item \in [Items -> ItemRow]
  /\ kot \in [Kots -> KotRow]

(***************************************************************************)
(* A table has at most one open order, whichever of create, open, quick    *)
(* bill, transfer, split and merge brought the orders where they are.      *)
(***************************************************************************)
OneOpenOrderPerTable ==
  \A o, p \in Orders : Open(o) /\ Open(p) /\ order[o].table = order[p].table
                       /\ order[o].table # NoTable => o = p

(***************************************************************************)
(* The floor board tells the truth: a table is occupied exactly while an   *)
(* open order sits on it, and that table exists.  Every function that      *)
(* moves or closes an order must call sync_table_status for the tables it  *)
(* touches.                                                                *)
(***************************************************************************)
BoardMatchesOrders ==
  \A t \in Tables : tables[t] = "occupied" <=> OrdersAt(t) # {}

(***************************************************************************)
(* Food the kitchen is still cooking belongs to an open or a billed order: *)
(* never to a cancelled or merged one.                                     *)
(***************************************************************************)
KitchenFoodIsOnATab ==
  \A k \in Kots : kot[k].status \in KOT_WITH_KITCHEN =>
    order[kot[k].order].status \in {"open", "billed"}

(***************************************************************************)
(* A merged order is only history: no line and no ticket is left on it,    *)
(* and following merged_into always ends at an order that was not itself   *)
(* merged away (among merged orders, some one was merged into an outsider).*)
(***************************************************************************)
MergedOrdersAreHistory ==
  LET Merged == {o \in Orders : order[o].status = "merged"}
  IN /\ \A o \in Merged : ItemsOf(o) = {} /\ KotsOf(o) = {}
     /\ \A S \in (SUBSET Merged) \ {{}} :
          \E o \in S : order[o].merged_into \in {p \in Orders \ S : order[p].status # "none"}

(***************************************************************************)
(* Every line of a ticket resolves to a row of the ticket's own order,     *)
(* through merges and splits and deletions (foreign keys enforced).        *)
(***************************************************************************)
TicketLinesResolve ==
  \A k \in Kots, i \in Items : kot[k].quantity[i] > 0 =>
    item[i].order = kot[k].order /\ item[i].order # NoOrder

\* The tickets that still count for line i.
Ticketed(i) ==
  SumFunction([k \in {l \in Kots : kot[l].status \notin {"none", "cancelled"}}
               |-> kot[k].quantity[i]])

(***************************************************************************)
(* Without table splitting, sent_quantity of a line is exactly what the    *)
(* tickets that were not cancelled hold of it, on open and closed orders.  *)
(***************************************************************************)
SentMatchesTickets ==
  \A i \in Items : item[i].order # NoOrder => item[i].sent = Ticketed(i)

(***************************************************************************)
(* A billed, cancelled or merged order never changes again, and neither do *)
(* the quantities of its lines, although tickets of it may still be        *)
(* cancelled and other orders merged or split.                             *)
(***************************************************************************)
ClosedOrdersAreFrozen ==
  [][\A o \in Orders : order[o].status \in {"billed", "cancelled", "merged"} =>
       /\ order'[o] = order[o]
       /\ ItemsOf(o)' = ItemsOf(o)
       /\ \A i \in ItemsOf(o) : item'[i].quantity = item[i].quantity]_vars

(***************************************************************************)
(* restaurant/service.py:753-754: after a cancellation the items are not   *)
(* "billable but unreachable by any kitchen ticket": what counts as sent   *)
(* is on some ticket that was not cancelled.                               *)
(***************************************************************************)
SentIsReachable ==
  \A i \in Items : item[i].order # NoOrder => item[i].sent <= Ticketed(i)
=============================================================================
