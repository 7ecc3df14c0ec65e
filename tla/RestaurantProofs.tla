-------------------------- MODULE RestaurantProofs --------------------------
(***************************************************************************)
(* Theorems about modules Restaurant and OrderScreen: any number of        *)
(* tables, orders, lines, tickets and presses, any plan, with and without  *)
(* foreign keys.                                                           *)
(***************************************************************************)
EXTENDS OrderScreen, SumLemmas, FiniteSetTheorems, TLAPS

Closed == {"billed", "cancelled", "merged"}

(***************************************************************************)
(* The floor: tables and orders, without lines and tickets.                *)
(***************************************************************************)
FloorInv ==
  /\ tables \in [Tables -> TableStatus]
  /\ order \in [Orders -> OrderRow]
  /\ OneOpenOrderPerTable
  /\ BoardMatchesOrders

\* No order's row is lost, and the row of a closed order stays as it is.
OrdersKept ==
  \A o \in Orders :
    /\ order[o].status # "none" => order'[o].status # "none"
    /\ order[o].status \in Closed => order'[o] = order[o]

(***************************************************************************)
(* sync_table_status makes the board tell the truth again, when every      *)
(* table whose orders changed is among those it is called for.             *)
(***************************************************************************)
LEMMA Synced ==
    ASSUME FloorInv, NEW ts, tables' = SyncTables(ts, order'),
           \A t \in Tables \ ts : OrdersAt(t)' = {} <=> OrdersAt(t) = {}
    PROVE  tables' \in [Tables -> TableStatus] /\ BoardMatchesOrders'
<1>1. ASSUME NEW t \in Tables
      PROVE  tables'[t] \in TableStatus /\ (tables'[t] = "occupied" <=> OrdersAt(t)' # {})
  <2>1. tables[t] \in TableStatus /\ (tables[t] = "occupied" <=> OrdersAt(t) # {})
    BY DEF FloorInv, BoardMatchesOrders
  <2>2. OrdersAt(t)' # {} <=> \E o \in Orders : order'[o].status = "open" /\ order'[o].table = t
    BY DEF OrdersAt, Open
  <2>3. CASE t \notin ts
    <3>1. tables'[t] = tables[t]
      BY <2>3 DEF SyncTables
    <3> QED
      BY <2>1, <2>3, <3>1
  <2>4. CASE t \in ts /\ OrdersAt(t)' # {}
    BY <2>2, <2>4 DEF SyncTables, TableStatus
  <2>5. CASE t \in ts /\ OrdersAt(t)' = {}
    BY <2>1, <2>2, <2>5 DEF SyncTables, TableStatus
  <2> QED
    BY <2>3, <2>4, <2>5
<1>2. tables' = [t \in Tables |-> tables'[t]]
  BY DEF SyncTables
<1> QED
  BY <1>1, <1>2 DEF BoardMatchesOrders

(***************************************************************************)
(* An order is opened, and its table was free.                             *)
(***************************************************************************)
LEMMA OpensOrder ==
    ASSUME FloorInv, NEW o \in Orders, NEW t \in Tables \cup {NoTable},
           order[o].status = "none", Free(t), order' = NewOrder(o, t),
           tables' = SyncTables({t}, order')
    PROVE  FloorInv' /\ OrdersKept
<1> USE RestaurantAssumption
<1> DEFINE new == [status |-> "open", table |-> t, merged_into |-> NoOrder]
<1>1. new \in OrderRow /\ new.status = "open" /\ new.table = t
  BY DEF OrderRow
<1>2. order \in [Orders -> OrderRow] /\ order' = [order EXCEPT ![o] = new]
  BY DEF FloorInv, NewOrder
<1> HIDE DEF new
<1>3. order' \in [Orders -> OrderRow] /\ order'[o] = new
      /\ \A p \in Orders \ {o} : order'[p] = order[p]
  BY <1>1, <1>2
<1>4. OneOpenOrderPerTable'
  BY <1>1, <1>3 DEF FloorInv, OneOpenOrderPerTable, Free, OrdersAt, Open
<1>5. \A u \in Tables \ {t} : OrdersAt(u)' = OrdersAt(u)
  BY <1>1, <1>3 DEF OrdersAt, Open
<1>6. tables' \in [Tables -> TableStatus] /\ BoardMatchesOrders'
  BY <1>5, Synced
<1>7. OrdersKept
  BY <1>1, <1>3 DEF OrdersKept, Closed
<1> QED
  BY <1>3, <1>4, <1>6, <1>7 DEF FloorInv

(***************************************************************************)
(* Open orders are closed.                                                 *)
(***************************************************************************)
LEMMA ClosesOrders ==
    ASSUME FloorInv, NEW ts, NEW S \in SUBSET Orders, \A o \in S : Open(o) /\ order[o].table \in ts,
           order' \in [Orders -> OrderRow],
           \A o \in S : order'[o].status \in Closed,
           \A o \in Orders \ S : order'[o] = order[o],
           tables' = SyncTables(ts, order')
    PROVE  FloorInv' /\ OrdersKept
<1>1. OneOpenOrderPerTable'
  BY DEF FloorInv, OneOpenOrderPerTable, Open, Closed
<1>2. \A t \in Tables \ ts : OrdersAt(t)' = OrdersAt(t)
  BY DEF OrdersAt, Open, Closed
<1>3. tables' \in [Tables -> TableStatus] /\ BoardMatchesOrders'
  BY <1>2, Synced
<1>4. OrdersKept
  BY DEF OrdersKept, Closed, Open
<1> QED
  BY <1>1, <1>3, <1>4 DEF FloorInv

LEMMA FloorStep == ASSUME FloorInv, [Next]_vars PROVE FloorInv' /\ OrdersKept
<1> USE RestaurantAssumption
<1>t. tables \in [Tables -> TableStatus] /\ order \in [Orders -> OrderRow]
  BY DEF FloorInv
<1>0. ASSUME UNCHANGED <<tables, order>>
      PROVE  FloorInv' /\ OrdersKept
  BY <1>0 DEF FloorInv, OneOpenOrderPerTable, BoardMatchesOrders, OrdersAt, Open, OrdersKept
<1>1. ASSUME NEW t \in Tables, NEW s \in TableStatus \ {"occupied"}, OrdersAt(t) = {},
             tables' = [tables EXCEPT ![t] = s], order' = order
      PROVE  FloorInv' /\ OrdersKept
  <2>1. \A u : OrdersAt(u)' = OrdersAt(u)
    BY <1>1 DEF OrdersAt, Open
  <2>2. tables' \in [Tables -> TableStatus]
    BY <1>1, <1>t
  <2>3. BoardMatchesOrders'
    BY <1>1, <1>t, <2>1 DEF FloorInv, BoardMatchesOrders
  <2> QED
    BY <1>1, <2>2, <2>3 DEF FloorInv, OneOpenOrderPerTable, Open, OrdersKept
<1>2. ASSUME NEW t \in Tables, CreateTable(t) \/ DeleteTable(t)
      PROVE  FloorInv' /\ OrdersKept
  <2>1. CASE CreateTable(t)
    <3>1. OrdersAt(t) = {}
      BY <2>1 DEF CreateTable, OrdersAt
    <3> QED
      BY <1>1, <2>1, <3>1 DEF CreateTable, TableStatus
  <2>2. CASE DeleteTable(t)
    BY <1>1, <2>2 DEF DeleteTable, TableStatus
  <2> QED
    BY <1>2, <2>1, <2>2
<1>3. ASSUME NEW t \in Tables, NEW s \in {"available", "reserved", "cleaning"}, SetTableStatus(t, s)
      PROVE  FloorInv' /\ OrdersKept
  BY <1>1, <1>3 DEF SetTableStatus, TableStatus
<1>4. ASSUME NEW o \in Orders, NEW t \in Tables \cup {NoTable}, NEW lines, CreateOrder(o, t, lines)
      PROVE  FloorInv' /\ OrdersKept
  BY <1>4, OpensOrder DEF CreateOrder
<1>5. ASSUME NEW o \in Orders, NEW t \in Tables, NEW lines, OpenTableOrder(o, t, lines)
      PROVE  FloorInv' /\ OrdersKept
  BY <1>0, <1>4, <1>5 DEF OpenTableOrder, AddItems
<1>6. ASSUME NEW o \in Orders, CancelOrder(o) \/ BillOrder(o)
      PROVE  FloorInv' /\ OrdersKept
  <2>1. PICK s \in Closed : Open(o) /\ order' = [order EXCEPT ![o].status = s]
                            /\ tables' = SyncTables({order[o].table}, order')
    BY <1>6 DEF CancelOrder, BillOrder, Closed
  <2>2. PICK w \in OrderRow : w = order[o]
    BY <1>t
  <2> DEFINE new == [w EXCEPT !.status = s]
  <2>3. new \in OrderRow /\ new.status \in Closed
    BY DEF OrderRow, Closed
  <2>4. order' = [order EXCEPT ![o] = new]
    BY <2>1, <2>2
  <2> HIDE DEF new
  <2>5. order' \in [Orders -> OrderRow] /\ order'[o].status \in Closed
        /\ \A p \in Orders \ {o} : order'[p] = order[p]
    BY <1>t, <2>3, <2>4
  <2>6. \A p \in {o} : Open(p) /\ order[p].table \in {order[o].table}
    BY <2>1
  <2>7. \A p \in {o} : order'[p].status \in Closed
    BY <2>5
  <2>8. {o} \in SUBSET Orders
    OBVIOUS
  <2> QED
    BY <2>1, <2>5, <2>6, <2>7, <2>8, ClosesOrders
<1>7. ASSUME NEW o \in Orders, NEW t \in Tables, TransferOrder(o, t)
      PROVE  FloorInv' /\ OrdersKept
  <2> DEFINE ts == {order[o].table, t}
  <2>1. /\ Open(o) /\ Free(t) /\ order' = [order EXCEPT ![o].table = t]
        /\ tables' = SyncTables(ts, order')
    BY <1>7 DEF TransferOrder
  <2>r. PICK w \in OrderRow : w = order[o]
    BY <1>t
  <2> DEFINE new == [w EXCEPT !.table = t]
  <2>n. new \in OrderRow /\ new.table = t /\ new.status = w.status
    BY DEF OrderRow
  <2>e. order' = [order EXCEPT ![o] = new]
    BY <2>1, <2>r
  <2> HIDE DEF new
  <2>2. order' \in [Orders -> OrderRow] /\ order'[o].table = t /\ order'[o].status = "open"
        /\ \A p \in Orders \ {o} : order'[p] = order[p]
    BY <1>t, <2>1, <2>r, <2>n, <2>e DEF Open
  <2>3. OneOpenOrderPerTable'
    BY <2>1, <2>2 DEF FloorInv, OneOpenOrderPerTable, Free, OrdersAt, Open
  <2>4. \A u \in Tables \ ts : OrdersAt(u)' = OrdersAt(u)
    BY <2>1, <2>2 DEF OrdersAt, Open
  <2> HIDE DEF ts
  <2>5. tables' \in [Tables -> TableStatus] /\ BoardMatchesOrders'
    BY <2>1, <2>4, Synced
  <2>6. OrdersKept
    BY <2>1, <2>2 DEF OrdersKept, Closed, Open
  <2> QED
    BY <2>2, <2>3, <2>5, <2>6 DEF FloorInv
<1>8. ASSUME NEW o \in Orders, NEW sources \in SUBSET Orders, MergeOrders(o, sources)
      PROVE  FloorInv' /\ OrdersKept
  <2>1. /\ \A s \in sources : Open(s)
        /\ order' = [s \in Orders |->
             IF s \in sources THEN [order[s] EXCEPT !.status = "merged", !.merged_into = o]
             ELSE order[s]]
        /\ tables' = SyncTables({order[s].table : s \in sources}, order')
    BY <1>8 DEF MergeOrders
  <2>2. ASSUME NEW s \in sources
        PROVE  order'[s] \in OrderRow /\ order'[s].status = "merged"
    <3>1. PICK v \in OrderRow : v = order[s]
      BY <1>t
    <3> DEFINE w == [v EXCEPT !.status = "merged"]
    <3>2. w \in OrderRow /\ w.status = "merged"
      BY DEF OrderRow
    <3>3. PICK x \in OrderRow : x = w
      BY <3>2
    <3>4. order'[s] = [x EXCEPT !.merged_into = o]
      BY <2>1, <3>1, <3>3
    <3> HIDE DEF w
    <3> QED
      BY <3>2, <3>3, <3>4 DEF OrderRow
  <2>3. order' \in [Orders -> OrderRow] /\ (\A s \in Orders \ sources : order'[s] = order[s])
    BY <1>t, <2>1, <2>2
  <2> DEFINE ts == {order[s].table : s \in sources}
  <2>4. \A s \in sources : Open(s) /\ order[s].table \in ts
    BY <2>1
  <2>5. \A s \in sources : order'[s].status \in Closed
    BY <2>2 DEF Closed
  <2> HIDE DEF ts
  <2>6. tables' = SyncTables(ts, order')
    BY <2>1 DEF ts
  <2> QED
    BY <2>3, <2>4, <2>5, <2>6, ClosesOrders
<1>9. ASSUME NEW o \in Orders, NEW n \in Orders, NEW t \in Tables \cup {NoTable},
             NEW chosen, NEW copy, SplitOrder(o, n, t, chosen, copy)
      PROVE  FloorInv' /\ OrdersKept
  BY <1>9, OpensOrder DEF SplitOrder
<1>10. ASSUME NEW t \in Tables, NEW b \in BOOLEAN, ReleaseTable(t, b)
       PROVE  FloorInv' /\ OrdersKept
  <2>1. /\ order' = [o \in Orders |->
             IF o \in OrdersAt(t) THEN [order[o] EXCEPT !.status = "cancelled"] ELSE order[o]]
        /\ tables' = SyncTables({t}, order')
    BY <1>10 DEF ReleaseTable
  <2>2. ASSUME NEW o \in OrdersAt(t)
        PROVE  order'[o] \in OrderRow /\ order'[o].status = "cancelled"
    BY <1>t, <2>1 DEF OrdersAt, OrderRow
  <2>3. order' \in [Orders -> OrderRow] /\ OrdersAt(t) \in SUBSET Orders
        /\ \A o \in Orders \ OrdersAt(t) : order'[o] = order[o]
    BY <1>t, <2>1, <2>2 DEF OrdersAt
  <2>4. \A o \in OrdersAt(t) : Open(o) /\ order[o].table \in {t}
    BY DEF OrdersAt
  <2> QED
    BY <2>1, <2>2, <2>3, <2>4, ClosesOrders DEF Closed
<1>11. CASE UNCHANGED vars
  BY <1>0, <1>11 DEF vars
<1>12. CASE Next
  <2>1. ASSUME NEW o \in Orders, NEW lines, AddItems(o, lines)
        PROVE  FloorInv' /\ OrdersKept
    BY <1>0, <2>1 DEF AddItems
  <2>2. ASSUME NEW i \in Items, (\E q \in 1..MaxQty : UpdateItem(i, q)) \/ RemoveItem(i)
        PROVE  FloorInv' /\ OrdersKept
    BY <1>0, <2>2 DEF UpdateItem, RemoveItem
  <2>3. ASSUME NEW k \in Kots, NEW x, NEW y,
               CreateKot(k, x, y) \/ SetKotStatus(k, x) \/ CancelKot(k)
        PROVE  FloorInv' /\ OrdersKept
    BY <1>0, <2>3 DEF CreateKot, SetKotStatus, CancelKot
  <2> QED
    BY <1>2, <1>3, <1>4, <1>5, <1>6, <1>7, <1>8, <1>9, <1>10, <1>12, <2>1, <2>2, <2>3 DEF Next
<1> QED
  BY <1>11, <1>12
(***************************************************************************)
(* The lines.  sent_quantity is left untyped: what _pull_kot puts back is  *)
(* a sum over tickets, of which nothing is needed here.                    *)
(***************************************************************************)
IsLine(r) ==
  /\ r = [order |-> r.order, quantity |-> r.quantity, sent |-> r.sent]
  /\ r.order \in Orders \cup {NoOrder}

LinesInv == item = [i \in Items |-> item[i]] /\ \A i \in Items : IsLine(item[i])

MayChange(o) == o \in Orders => order[o].status \notin Closed

\* A line of a closed order stays there with its quantity; none joins it.
LinesKept ==
  \A i \in Items :
    \/ item'[i].order = item[i].order /\ item'[i].quantity = item[i].quantity
    \/ MayChange(item[i].order) /\ MayChange(item'[i].order)

LEMMA SentEdit ==
    ASSUME NEW r, IsLine(r), NEW x
    PROVE  /\ IsLine([r EXCEPT !.sent = x])
           /\ [r EXCEPT !.sent = x].order = r.order
           /\ [r EXCEPT !.sent = x].quantity = r.quantity
<1>1. [r EXCEPT !.sent = x] = [order |-> r.order, quantity |-> r.quantity, sent |-> x]
  BY DEF IsLine
<1>2. r.order \in Orders \cup {NoOrder}
  BY DEF IsLine
<1> QED
  BY <1>1, <1>2 DEF IsLine

LEMMA QuantityEdit ==
    ASSUME NEW r, IsLine(r), NEW q
    PROVE  /\ IsLine([r EXCEPT !.quantity = q])
           /\ [r EXCEPT !.quantity = q].order = r.order
<1>1. [r EXCEPT !.quantity = q] = [order |-> r.order, quantity |-> q, sent |-> r.sent]
  BY DEF IsLine
<1>2. r.order \in Orders \cup {NoOrder}
  BY DEF IsLine
<1> QED
  BY <1>1, <1>2 DEF IsLine

LEMMA OrderEdit ==
    ASSUME NEW r, IsLine(r), NEW o \in Orders
    PROVE  /\ IsLine([r EXCEPT !.order = o])
           /\ [r EXCEPT !.order = o].order = o
<1>1. [r EXCEPT !.order = o] = [order |-> o, quantity |-> r.quantity, sent |-> r.sent]
  BY DEF IsLine
<1> QED
  BY <1>1 DEF IsLine

\* What is checked of a step, line by line.
LEMMA LineByLine ==
    ASSUME item' = [i \in Items |-> item'[i]],
           \A i \in Items : IsLine(item'[i])
    PROVE  LinesInv'
BY DEF LinesInv, IsLine

\* Only sent_quantity is written.
LEMMA OnlySent ==
    ASSUME LinesInv, item' = [i \in Items |-> item'[i]],
           \A i \in Items : \E x : item'[i] = [item[i] EXCEPT !.sent = x]
    PROVE  /\ LinesInv' /\ LinesKept
           /\ \A i \in Items : item'[i].order = item[i].order
<1>1. ASSUME NEW i \in Items
      PROVE  IsLine(item'[i]) /\ item'[i].order = item[i].order
             /\ item'[i].quantity = item[i].quantity
  <2>1. PICK r : r = item[i]
    OBVIOUS
  <2>2. PICK x : item'[i] = [r EXCEPT !.sent = x]
    BY <2>1
  <2>3. IsLine(r)
    BY <2>1 DEF LinesInv
  <2>4. /\ IsLine([r EXCEPT !.sent = x])
        /\ [r EXCEPT !.sent = x].order = r.order
        /\ [r EXCEPT !.sent = x].quantity = r.quantity
    BY <2>3, SentEdit, Zenon
  <2>5. IsLine(item'[i]) /\ item'[i].order = r.order /\ item'[i].quantity = r.quantity
    BY <2>2, <2>4, Zenon
  <2> QED
    BY <2>1, <2>5, Zenon
<1> QED
  BY <1>1, LineByLine DEF LinesKept

\* New lines take rows of their own.
LEMMA LinesAppended ==
    ASSUME LinesInv, NEW o \in Orders, MayChange(o), NEW lines \in NewLines,
           item' = Appended(o, lines)
    PROVE  /\ LinesInv' /\ LinesKept
           /\ \A i \in Items \ Fresh : item'[i].order = item[i].order
<1>1. DOMAIN lines \subseteq Fresh
  BY DEF NewLines
<1>2. ASSUME NEW i \in Items
      PROVE  IsLine(item'[i])
             /\ \/ i \in Fresh /\ item'[i].order = o
                \/ item'[i] = item[i]
  <2>1. CASE i \in DOMAIN lines
    <3>1. item'[i] = [order |-> o, quantity |-> lines[i], sent |-> 0]
      BY <2>1 DEF Appended
    <3> QED
      BY <1>1, <2>1, <3>1 DEF IsLine
  <2>2. CASE i \notin DOMAIN lines
    <3>1. item'[i] = item[i]
      BY <2>2 DEF Appended
    <3>2. IsLine(item[i])
      BY DEF LinesInv
    <3> QED
      BY <3>1, <3>2
  <2> QED
    BY <2>1, <2>2
<1>3. item' = [i \in Items |-> item'[i]]
  BY DEF Appended
<1>4. \A i \in Fresh : MayChange(item[i].order)
  BY RestaurantAssumption DEF Fresh, MayChange
<1> QED
  BY <1>2, <1>3, <1>4, LineByLine DEF LinesKept

(***************************************************************************)
(* The tickets.                                                            *)
(***************************************************************************)
TicketsInv ==
  /\ kot \in [Kots -> KotRow]
  /\ \A k \in Kots : kot[k].status # "none" => kot[k].order \in Orders
  /\ KitchenFoodIsOnATab
  /\ ForeignKeys => TicketLinesResolve

\* A line that some ticket names stays on its order.
NamedStay ==
  ForeignKeys => \A k \in Kots, i \in Items :
    kot[k].quantity[i] > 0 => item'[i].order = item[i].order

\* No order with food in the kitchen is cancelled or merged.
TabsStay ==
  \A k \in Kots : /\ kot[k].status \in KOT_WITH_KITCHEN
                  /\ order[kot[k].order].status \in {"open", "billed"}
                  => order'[kot[k].order].status \in {"open", "billed"}

LEMMA TicketsStay ==
    ASSUME TicketsInv, kot' = kot, NamedStay, TabsStay
    PROVE  TicketsInv'
<1>1. KitchenFoodIsOnATab'
  BY DEF TicketsInv, KitchenFoodIsOnATab, TabsStay
<1>2. ForeignKeys => TicketLinesResolve'
  BY DEF TicketsInv, TicketLinesResolve, NamedStay
<1> QED
  BY <1>1, <1>2 DEF TicketsInv

LEMMA FreshUnnamed ==
    ASSUME TicketsInv, NEW k \in Kots, NEW i \in Items, kot[k].quantity[i] > 0
    PROVE  i \notin Fresh /\ ~(ForeignKeys /\ Deletable(i))
BY DEF Fresh, Deletable

\* Cancelling the tickets ks, while the orders become what the caller makes them.
LEMMA TicketsPulled ==
    ASSUME LinesInv, TicketsInv, NEW ks \in SUBSET Kots, PullKots(ks),
           \A k \in Kots \ ks :
             /\ kot[k].status \in KOT_WITH_KITCHEN
             /\ order[kot[k].order].status \in {"open", "billed"}
             => order'[kot[k].order].status \in {"open", "billed"},
           \A k \in ks : kot[k].status # "none"
    PROVE  LinesInv' /\ LinesKept /\ TicketsInv'
<1>1. /\ item' = [i \in Items |-> item'[i]]
      /\ \A i \in Items : \E x : item'[i] = [item[i] EXCEPT !.sent = x]
  BY DEF PullKots, PutBack
<1>2. LinesInv' /\ LinesKept /\ \A i \in Items : item'[i].order = item[i].order
  BY <1>1, OnlySent
<1>3. \A k \in Kots \ ks : kot'[k] = kot[k]
  BY DEF PullKots
<1>4. ASSUME NEW k \in ks
      PROVE  /\ kot'[k] \in KotRow /\ kot'[k].status = "cancelled"
             /\ kot'[k].order = kot[k].order /\ kot'[k].quantity = kot[k].quantity
  <2>1. PICK w \in KotRow : w = kot[k]
    BY DEF TicketsInv
  <2>2. kot'[k] = [w EXCEPT !.status = "cancelled"]
    BY <2>1 DEF PullKots
  <2> QED
    BY <2>1, <2>2 DEF KotRow
<1>5. kot' \in [Kots -> KotRow]
  BY <1>3, <1>4 DEF TicketsInv, PullKots
<1>6. \A k \in Kots : kot'[k].status # "none" => kot'[k].order \in Orders
  BY <1>3, <1>4 DEF TicketsInv
<1>7. KitchenFoodIsOnATab'
  BY <1>3, <1>4 DEF TicketsInv, KitchenFoodIsOnATab, KOT_WITH_KITCHEN
<1>8. ForeignKeys => TicketLinesResolve'
  BY <1>2, <1>3, <1>4 DEF TicketsInv, TicketLinesResolve
<1> QED
  BY <1>2, <1>5, <1>6, <1>7, <1>8 DEF TicketsInv

(***************************************************************************)
(* An order is opened: nothing in the kitchen was on it.                   *)
(***************************************************************************)
LEMMA OpeningKeepsTabs ==
    ASSUME FloorInv, TicketsInv, NEW n \in Orders, order[n].status = "none",
           NEW t, order' = NewOrder(n, t)
    PROVE  TabsStay
<1>1. \A p \in Orders \ {n} : order'[p] = order[p]
  BY DEF NewOrder, FloorInv
<1>2. \A k \in Kots : kot[k].status \in KOT_WITH_KITCHEN => kot[k].order \in Orders
  BY DEF TicketsInv, KOT_WITH_KITCHEN
<1> QED
  BY <1>1, <1>2 DEF TabsStay

(***************************************************************************)
(* Every step keeps the lines and the tickets in order.                    *)
(***************************************************************************)
LEMMA LinesStep ==
    ASSUME FloorInv, LinesInv, TicketsInv, [Next]_vars
    PROVE  LinesInv' /\ LinesKept /\ TicketsInv'
<1> USE RestaurantAssumption
<1> DEFINE Goal == LinesInv' /\ LinesKept /\ TicketsInv'
<1>f. order \in [Orders -> OrderRow]
  BY DEF FloorInv
<1>g. \A k \in Kots : kot[k].status # "none" => kot[k].order \in Orders
  BY DEF TicketsInv
<1>0. ASSUME UNCHANGED item PROVE LinesInv' /\ LinesKept /\ NamedStay
  BY <1>0 DEF LinesInv, IsLine, LinesKept, NamedStay
<1>1. ASSUME UNCHANGED <<order, item, kot>> PROVE Goal
  <2>1. TabsStay
    BY <1>1 DEF TabsStay
  <2> QED
    BY <1>0, <1>1, <2>1, TicketsStay
<1>2. ASSUME NEW o \in Orders, NEW lines \in NewLines, MayChange(o),
             item' = Appended(o, lines), kot' = kot, TabsStay
      PROVE  Goal
  <2>1. LinesInv' /\ LinesKept /\ \A i \in Items \ Fresh : item'[i].order = item[i].order
    BY <1>2, LinesAppended
  <2>2. NamedStay
    BY <2>1, FreshUnnamed DEF NamedStay
  <2> QED
    BY <1>2, <2>1, <2>2, TicketsStay
<1>3. ASSUME NEW o \in Orders, NEW t \in Tables \cup {NoTable}, NEW lines \in NewLines,
             CreateOrder(o, t, lines)
      PROVE  Goal
  <2>1. order[o].status = "none" /\ item' = Appended(o, lines) /\ kot' = kot
        /\ order' = NewOrder(o, t)
    BY <1>3 DEF CreateOrder
  <2>2. MayChange(o)
    BY <2>1 DEF MayChange, Closed
  <2>3. TabsStay
    BY <2>1, OpeningKeepsTabs
  <2> QED
    BY <1>2, <2>1, <2>2, <2>3
<1>4. ASSUME NEW o \in Orders, NEW lines \in NewLines, AddItems(o, lines)
      PROVE  Goal
  <2>1. MayChange(o) /\ TabsStay
    BY <1>4 DEF AddItems, Open, MayChange, Closed, TabsStay
  <2> QED
    BY <1>2, <1>4, <2>1 DEF AddItems
<1>5. ASSUME NEW o \in Orders, NEW t \in Tables, NEW lines \in NewLines,
             OpenTableOrder(o, t, lines)
      PROVE  Goal
  BY <1>3, <1>4, <1>5 DEF OpenTableOrder
<1>6. ASSUME NEW i \in Items, NEW q, UpdateItem(i, q)
      PROVE  Goal
  <2>1. /\ MayChange(item[i].order) /\ item' = [item EXCEPT ![i].quantity = q]
        /\ kot' = kot /\ TabsStay
    BY <1>6 DEF UpdateItem, Open, MayChange, Closed, TabsStay
  <2>2. PICK r : r = item[i]
    OBVIOUS
  <2>3. IsLine([r EXCEPT !.quantity = q]) /\ [r EXCEPT !.quantity = q].order = r.order
    BY <2>2, QuantityEdit, Zenon DEF LinesInv
  <2>4. item'[i] = [r EXCEPT !.quantity = q]
    BY <2>1, <2>2 DEF LinesInv
  <2>5. IsLine(item'[i]) /\ item'[i].order = item[i].order
    BY <2>2, <2>3, <2>4, Zenon
  <2>6. \A j \in Items \ {i} : item'[j] = item[j] /\ IsLine(item'[j])
    BY <2>1 DEF LinesInv, IsLine
  <2>7. item' = [j \in Items |-> item'[j]]
    BY <2>1 DEF LinesInv
  <2>8. LinesInv'
    BY <2>5, <2>6, <2>7, LineByLine
  <2>9. LinesKept /\ NamedStay
    BY <2>1, <2>5, <2>6 DEF LinesKept, NamedStay
  <2> QED
    BY <2>1, <2>8, <2>9, TicketsStay
<1>7. ASSUME NEW i \in Items, RemoveItem(i)
      PROVE  Goal
  <2>1. /\ MayChange(item[i].order) /\ item' = [item EXCEPT ![i] = NoItem]
        /\ kot' = kot /\ TabsStay /\ Deletable(i)
    BY <1>7 DEF RemoveItem, Open, MayChange, Closed, TabsStay
  <2>2. item'[i] = NoItem /\ item' = [j \in Items |-> item'[j]]
    BY <2>1 DEF LinesInv
  <2>3. IsLine(item'[i]) /\ MayChange(item'[i].order)
    BY <2>2 DEF IsLine, NoItem, MayChange
  <2>4. \A j \in Items \ {i} : item'[j] = item[j] /\ IsLine(item'[j])
    BY <2>1 DEF LinesInv, IsLine
  <2>5. LinesInv'
    BY <2>2, <2>3, <2>4, LineByLine
  <2>6. LinesKept
    BY <2>1, <2>3, <2>4 DEF LinesKept
  <2>7. NamedStay
    BY <2>1, <2>4, FreshUnnamed DEF NamedStay
  <2> QED
    BY <2>1, <2>5, <2>6, <2>7, TicketsStay
<1>8. ASSUME NEW o \in Orders, CancelOrder(o) \/ BillOrder(o)
      PROVE  Goal
  <2>1. /\ item' = item /\ kot' = kot
        /\ \/ kots_with_kitchen(o) = {} /\ order' = [order EXCEPT ![o].status = "cancelled"]
           \/ order' = [order EXCEPT ![o].status = "billed"]
    BY <1>8 DEF CancelOrder, BillOrder
  <2>2. \A p \in Orders \ {o} : order'[p] = order[p]
    BY <1>f, <2>1
  <2>3. kots_with_kitchen(o) = {} \/ order'[o].status = "billed"
    BY <1>f, <2>1 DEF OrderRow
  <2>4. TabsStay
    BY <1>g, <2>2, <2>3 DEF TabsStay, kots_with_kitchen, KotsOf, KOT_WITH_KITCHEN
  <2> QED
    BY <1>0, <2>1, <2>4, TicketsStay
<1>9. ASSUME NEW o \in Orders, NEW t \in Tables, TransferOrder(o, t)
      PROVE  Goal
  <2>1. order' = [order EXCEPT ![o].table = t] /\ item' = item /\ kot' = kot
    BY <1>9 DEF TransferOrder
  <2>2. \A p \in Orders : order'[p].status = order[p].status
    BY <1>f, <2>1 DEF OrderRow
  <2>3. TabsStay
    BY <1>g, <2>2 DEF TabsStay, KOT_WITH_KITCHEN
  <2> QED
    BY <1>0, <2>1, <2>3, TicketsStay
<1>10. ASSUME NEW o \in Orders, NEW sources \in SUBSET Orders, MergeOrders(o, sources)
       PROVE  Goal
  <2>1. /\ Open(o) /\ o \notin sources /\ \A s \in sources : Open(s)
        /\ item' = [i \in Items |->
             IF item[i].order \in sources THEN [item[i] EXCEPT !.order = o] ELSE item[i]]
        /\ kot' = [k \in Kots |->
             IF kot[k].order \in sources THEN [kot[k] EXCEPT !.order = o] ELSE kot[k]]
        /\ order' = [s \in Orders |->
             IF s \in sources THEN [order[s] EXCEPT !.status = "merged", !.merged_into = o]
             ELSE order[s]]
    BY <1>10 DEF MergeOrders, TicketsMoved
  <2>2. ASSUME NEW i \in Items
        PROVE  /\ IsLine(item'[i])
               /\ item[i].order \in sources => item'[i].order = o
               /\ item[i].order \notin sources => item'[i] = item[i]
    <3>1. PICK r : r = item[i]
      OBVIOUS
    <3>2. IsLine(r)
      BY <3>1 DEF LinesInv
    <3>3. CASE r.order \in sources
      <4>1. item'[i] = [r EXCEPT !.order = o]
        BY <2>1, <3>1, <3>3
      <4>2. IsLine([r EXCEPT !.order = o]) /\ [r EXCEPT !.order = o].order = o
        BY <3>2, OrderEdit, Zenon
      <4>3. IsLine(item'[i]) /\ item'[i].order = o
        BY <4>1, <4>2, Zenon
      <4> QED
        BY <3>1, <3>3, <4>3
    <3>4. CASE r.order \notin sources
      <4>1. item'[i] = item[i]
        BY <2>1, <3>1, <3>4
      <4> QED
        BY <3>1, <3>2, <3>4, <4>1
    <3> QED
      BY <3>3, <3>4
  <2>3. LinesInv'
    BY <2>1, <2>2, LineByLine
  <2>4. LinesKept
    BY <2>1, <2>2 DEF LinesKept, MayChange, Open, Closed
  <2>5. ASSUME NEW k \in Kots
        PROVE  /\ kot'[k] \in KotRow /\ kot'[k].status = kot[k].status
               /\ kot'[k].quantity = kot[k].quantity
               /\ kot[k].order \in sources => kot'[k].order = o
               /\ kot[k].order \notin sources => kot'[k].order = kot[k].order
    <3>1. PICK w \in KotRow : w = kot[k]
      BY DEF TicketsInv
    <3>2. CASE w.order \in sources
      <4>1. kot'[k] = [w EXCEPT !.order = o]
        BY <2>1, <3>1, <3>2
      <4> QED
        BY <3>1, <3>2, <4>1 DEF KotRow
    <3>3. CASE w.order \notin sources
      BY <2>1, <3>1, <3>3
    <3> QED
      BY <3>2, <3>3
  <2>6. kot' \in [Kots -> KotRow]
    BY <2>1, <2>5
  <2>7. \A k \in Kots : kot'[k].status # "none" => kot'[k].order \in Orders
    BY <1>g, <2>5
  <2>8. KitchenFoodIsOnATab'
    <3>1. \A p \in Orders \ sources : order'[p] = order[p]
      BY <2>1
    <3>2. ASSUME NEW k \in Kots, kot'[k].status \in KOT_WITH_KITCHEN
          PROVE  order'[kot'[k].order].status \in {"open", "billed"}
      <4>1. kot[k].status \in KOT_WITH_KITCHEN /\ kot[k].order \in Orders
            /\ order[kot[k].order].status \in {"open", "billed"}
        BY <1>g, <2>5, <3>2 DEF TicketsInv, KitchenFoodIsOnATab, KOT_WITH_KITCHEN
      <4>2. CASE kot[k].order \in sources
        <5>1. kot'[k].order = o /\ order'[o] = order[o]
          BY <2>1, <2>5, <3>1, <4>2
        <5> QED
          BY <2>1, <5>1 DEF Open
      <4>3. CASE kot[k].order \notin sources
        BY <2>5, <3>1, <4>1, <4>3
      <4> QED
        BY <4>2, <4>3
    <3> QED
      BY <3>2 DEF KitchenFoodIsOnATab
  <2>9. ForeignKeys => TicketLinesResolve'
    <3>1. ASSUME ForeignKeys, NEW k \in Kots, NEW i \in Items, kot'[k].quantity[i] > 0
          PROVE  item'[i].order = kot'[k].order /\ item'[i].order # NoOrder
      <4>1. item[i].order = kot[k].order /\ item[i].order # NoOrder
        BY <2>5, <3>1 DEF TicketsInv, TicketLinesResolve
      <4> QED
        BY <2>2, <2>5, <4>1
    <3> QED
      BY <3>1 DEF TicketLinesResolve
  <2> QED
    BY <2>3, <2>4, <2>6, <2>7, <2>8, <2>9 DEF TicketsInv
<1>11. ASSUME NEW o \in Orders, NEW n \in Orders, NEW t \in Tables \cup {NoTable},
              NEW chosen \in UNION {[S -> 1..MaxQty] : S \in SUBSET ItemsOf(o)},
              NEW copy \in Injection(DOMAIN chosen, Fresh), SplitOrder(o, n, t, chosen, copy)
       PROVE  Goal
  <2> DEFINE moved == DOMAIN chosen
  <2> DEFINE sentWith(i) == IF item[i].sent <= chosen[i] THEN item[i].sent ELSE chosen[i]
  <2>1. /\ Open(o) /\ order[n].status = "none"
        /\ moved \subseteq ItemsOf(o)
        /\ \A i \in moved : chosen[i] = item[i].quantity => Deletable(i)
        /\ item' = [i \in Items |->
             IF i \in moved THEN
               IF chosen[i] = item[i].quantity THEN NoItem
               ELSE [item[i] EXCEPT !.quantity = @ - chosen[i], !.sent = @ - sentWith(i)]
             ELSE IF \E s \in moved : copy[s] = i THEN
               LET s == CHOOSE s \in moved : copy[s] = i
               IN [order |-> n, quantity |-> chosen[s], sent |-> sentWith(s)]
             ELSE item[i]]
        /\ order' = NewOrder(n, t) /\ kot' = kot
    BY <1>11 DEF SplitOrder
  <2>2. \A s \in moved : copy[s] \in Fresh
    BY <1>11 DEF Injection, IsInjective
  <2>3. ASSUME NEW i \in Items
        PROVE  /\ IsLine(item'[i])
               /\ \/ item'[i] = item[i]
                  \/ i \in moved /\ item'[i] = NoItem /\ Deletable(i)
                  \/ i \in moved /\ item'[i].order = item[i].order
                  \/ i \in Fresh /\ item'[i].order = n
    <3>1. PICK r : r = item[i]
      OBVIOUS
    <3>2. IsLine(r)
      BY <3>1 DEF LinesInv
    <3>3. CASE i \in moved /\ chosen[i] = item[i].quantity
      <4>1. item'[i] = NoItem /\ Deletable(i)
        BY <2>1, <3>3
      <4> QED
        BY <3>3, <4>1 DEF NoItem, IsLine
    <3>4. CASE i \in moved /\ chosen[i] # item[i].quantity
      <4>q. PICK q : q = r.quantity - chosen[i]
        OBVIOUS
      <4>s. PICK x : x = r.sent - sentWith(i)
        OBVIOUS
      <4>1. item'[i] = [r EXCEPT !.quantity = q, !.sent = x]
        BY <2>1, <3>1, <3>4, <4>q, <4>s
      <4>2. PICK v : v = [r EXCEPT !.quantity = q]
        OBVIOUS
      <4>3. IsLine(v) /\ v.order = r.order
        BY <3>2, <4>2, QuantityEdit, Zenon
      <4>4. IsLine([v EXCEPT !.sent = x]) /\ [v EXCEPT !.sent = x].order = v.order
        BY <4>3, SentEdit, Zenon
      <4>5. item'[i] = [v EXCEPT !.sent = x]
        BY <4>1, <4>2
      <4>6. IsLine(item'[i]) /\ item'[i].order = r.order
        BY <4>3, <4>4, <4>5, Zenon
      <4> QED
        BY <3>1, <3>4, <4>6
    <3>5. CASE i \notin moved /\ \E s \in moved : copy[s] = i
      <4>1. i \in Fresh
        BY <2>2, <3>5
      <4>2. PICK s : item'[i] = [order |-> n, quantity |-> chosen[s], sent |-> sentWith(s)]
        BY <2>1, <3>5
      <4>3. item'[i].order = n /\ item'[i].quantity = chosen[s] /\ item'[i].sent = sentWith(s)
        BY <4>2
      <4>4. IsLine(item'[i])
        BY <4>2, <4>3 DEF IsLine
      <4> QED
        BY <4>1, <4>3, <4>4
    <3>6. CASE i \notin moved /\ ~\E s \in moved : copy[s] = i
      <4>1. item'[i] = item[i]
        BY <2>1, <3>6
      <4> QED
        BY <3>1, <3>2, <4>1
    <3> QED
      BY <3>3, <3>4, <3>5, <3>6
  <2>4. item' = [i \in Items |-> item'[i]]
    BY <2>1
  <2>5. LinesInv'
    BY <2>3, <2>4, LineByLine
  <2>6. \A i \in moved : MayChange(item[i].order)
    BY <2>1 DEF ItemsOf, MayChange, Open, Closed
  <2>7. \A i \in Fresh : MayChange(item[i].order)
    BY DEF Fresh, MayChange
  <2>8. MayChange(n) /\ MayChange(NoItem.order)
    BY <2>1 DEF MayChange, Closed, NoItem
  <2>9. LinesKept
    BY <2>3, <2>6, <2>7, <2>8 DEF LinesKept
  <2>10. NamedStay
    BY <2>3, FreshUnnamed DEF NamedStay
  <2>11. TabsStay
    BY <2>1, OpeningKeepsTabs
  <2> QED
    BY <2>1, <2>5, <2>9, <2>10, <2>11, TicketsStay
<1>12. ASSUME NEW k \in Kots, NEW o \in Orders,
              NEW quantity \in [Items -> 0..(MaxRepeats * MaxQty)], CreateKot(k, o, quantity)
       PROVE  Goal
  <2> DEFINE new == [status |-> "pending", order |-> o, quantity |-> quantity]
  <2>1. /\ Open(o) /\ kot' = [kot EXCEPT ![k] = new] /\ order' = order
        /\ \A i \in Items : quantity[i] > 0 => item[i].order = o
        /\ item' = [i \in Items |-> [item[i] EXCEPT !.sent = @ + quantity[i]]]
    BY <1>12 DEF CreateKot, ItemsOf
  <2>2. LinesInv' /\ LinesKept /\ \A i \in Items : item'[i].order = item[i].order
    <3>1. item' = [i \in Items |-> item'[i]]
      BY <2>1
    <3>2. \A i \in Items : \E x : item'[i] = [item[i] EXCEPT !.sent = x]
      BY <2>1
    <3> QED
      BY <3>1, <3>2, OnlySent
  <2>3. quantity \in [Items -> Nat]
    BY <1>12
  <2>4. new \in KotRow /\ new.status = "pending" /\ new.order = o /\ new.quantity = quantity
    BY <2>3 DEF KotRow
  <2> HIDE DEF new
  <2>5. kot' \in [Kots -> KotRow] /\ kot'[k] = new
        /\ \A l \in Kots \ {k} : kot'[l] = kot[l]
    BY <2>1, <2>4 DEF TicketsInv
  <2>6. \A l \in Kots : kot'[l].status # "none" => kot'[l].order \in Orders
    BY <1>g, <2>4, <2>5
  <2>7. KitchenFoodIsOnATab'
    BY <2>1, <2>4, <2>5 DEF TicketsInv, KitchenFoodIsOnATab, Open
  <2>8. ForeignKeys => TicketLinesResolve'
    BY <2>1, <2>2, <2>4, <2>5 DEF TicketsInv, TicketLinesResolve
  <2> QED
    BY <2>2, <2>5, <2>6, <2>7, <2>8 DEF TicketsInv
<1>13. ASSUME NEW k \in Kots, NEW s \in {"preparing", "ready", "served"}, SetKotStatus(k, s)
       PROVE  Goal
  <2>1. /\ kot[k].status \in KOT_WITH_KITCHEN /\ kot' = [kot EXCEPT ![k].status = s]
        /\ order' = order /\ item' = item
    BY <1>13 DEF SetKotStatus, KOT_TRANSITIONS, KOT_WITH_KITCHEN
  <2>2. PICK w \in KotRow : w = kot[k]
    BY DEF TicketsInv
  <2> DEFINE new == [w EXCEPT !.status = s]
  <2>3. new \in KotRow /\ new.order = w.order /\ new.quantity = w.quantity
    BY DEF KotRow
  <2>4. kot' = [kot EXCEPT ![k] = new]
    BY <2>1, <2>2
  <2> HIDE DEF new
  <2>5. kot' \in [Kots -> KotRow] /\ kot'[k] = new
        /\ \A l \in Kots \ {k} : kot'[l] = kot[l]
    BY <2>3, <2>4 DEF TicketsInv
  <2>6. \A l \in Kots : kot'[l].order = kot[l].order /\ kot'[l].quantity = kot[l].quantity
    BY <2>2, <2>3, <2>5
  <2>7. \A l \in Kots : kot'[l].status # "none" => kot'[l].order \in Orders
    BY <1>g, <2>1, <2>5, <2>6 DEF KOT_WITH_KITCHEN
  <2>8. KitchenFoodIsOnATab'
    BY <2>1, <2>5, <2>6 DEF TicketsInv, KitchenFoodIsOnATab
  <2>9. ForeignKeys => TicketLinesResolve'
    BY <2>1, <2>6 DEF TicketsInv, TicketLinesResolve
  <2> QED
    BY <1>0, <2>1, <2>5, <2>7, <2>8, <2>9 DEF TicketsInv
<1>14. ASSUME NEW k \in Kots, CancelKot(k)
       PROVE  Goal
  <2>1. kot[k].status \in KOT_WITH_KITCHEN /\ PullKots({k}) /\ order' = order
    BY <1>14 DEF CancelKot
  <2>2. \A l \in {k} : kot[l].status # "none"
    BY <2>1 DEF KOT_WITH_KITCHEN
  <2>3. {k} \in SUBSET Kots
    OBVIOUS
  <2> QED
    BY <2>1, <2>2, <2>3, TicketsPulled
<1>15. ASSUME NEW t \in Tables, NEW b \in BOOLEAN, ReleaseTable(t, b)
       PROVE  Goal
  <2> DEFINE ks == UNION {kots_with_kitchen(o) : o \in OrdersAt(t)}
  <2>1. /\ PullKots(ks)
        /\ order' = [o \in Orders |->
             IF o \in OrdersAt(t) THEN [order[o] EXCEPT !.status = "cancelled"] ELSE order[o]]
    BY <1>15 DEF ReleaseTable
  <2>2. ks \in SUBSET Kots /\ \A k \in ks : kot[k].status # "none"
    BY DEF kots_with_kitchen, KotsOf, KOT_WITH_KITCHEN
  <2>3. \A o \in Orders \ OrdersAt(t) : order'[o] = order[o]
    BY <2>1
  <2>4. \A k \in Kots \ ks : kot[k].status \in KOT_WITH_KITCHEN => kot[k].order \in Orders \ OrdersAt(t)
    BY <1>g DEF kots_with_kitchen, KotsOf, KOT_WITH_KITCHEN
  <2>5. \A k \in Kots \ ks :
          /\ kot[k].status \in KOT_WITH_KITCHEN
          /\ order[kot[k].order].status \in {"open", "billed"}
          => order'[kot[k].order].status \in {"open", "billed"}
    BY <2>3, <2>4
  <2> HIDE DEF ks
  <2> QED
    BY <2>1, <2>2, <2>5, TicketsPulled
<1>16. CASE UNCHANGED vars
  BY <1>1, <1>16 DEF vars
<1>17. ASSUME Next PROVE Goal
  <2>1. ASSUME NEW t \in Tables, CreateTable(t) \/ DeleteTable(t)
        PROVE  Goal
    BY <1>1, <2>1 DEF CreateTable, DeleteTable
  <2>2. ASSUME NEW t \in Tables, NEW s, SetTableStatus(t, s)
        PROVE  Goal
    BY <1>1, <2>2 DEF SetTableStatus
  <2> HIDE DEF Goal
  <2>3. CASE \E o, n \in Orders, t \in Tables \cup {NoTable} :
               \E chosen \in UNION {[S -> 1..MaxQty] : S \in SUBSET ItemsOf(o)} :
               \E copy \in Injection(DOMAIN chosen, Fresh) : SplitOrder(o, n, t, chosen, copy)
    BY <1>11, <2>3, Zenon
  <2>4. CASE \E k \in Kots, o \in Orders :
               \E quantity \in [Items -> 0..(MaxRepeats * MaxQty)] : CreateKot(k, o, quantity)
    BY <1>12, <2>4, Zenon
  <2>5. CASE \/ \E o \in Orders, t \in Tables \cup {NoTable}, lines \in NewLines :
                  CreateOrder(o, t, lines)
             \/ \E o \in Orders, lines \in NewLines : AddItems(o, lines)
             \/ \E o \in Orders, t \in Tables, lines \in NewLines : OpenTableOrder(o, t, lines)
    BY <1>3, <1>4, <1>5, <2>5, Zenon
  <2> QED
    BY <1>6, <1>7, <1>8, <1>9, <1>10, <1>13, <1>14, <1>15, <1>17,
       <2>1, <2>2, <2>3, <2>4, <2>5, Zenon DEF Next
<1> QED
  BY <1>16, <1>17

(***************************************************************************)
(* Merged orders.                                                          *)
(***************************************************************************)
NoneMerged == \A o \in Orders : order'[o].status = "merged" => order[o].status = "merged"

\* A ticket stays on its order, or it is a new one of an order that may change.
TicketsStayPut ==
  \A k \in Kots : kot'[k].order = kot[k].order \/ MayChange(kot'[k].order)

LEMMA NothingMerged ==
    ASSUME FloorInv, LinesInv, TicketsInv, [Next]_vars,
           ~\E o \in Orders, sources \in SUBSET Orders : MergeOrders(o, sources)
    PROVE  NoneMerged /\ TicketsStayPut
<1> DEFINE Goal == NoneMerged /\ TicketsStayPut
<1>f. order \in [Orders -> OrderRow] /\ kot \in [Kots -> KotRow]
  BY DEF FloorInv, TicketsInv
<1>1. ASSUME order' = order, kot' = kot PROVE Goal
  BY <1>1 DEF NoneMerged, TicketsStayPut
<1>2. ASSUME NEW o \in Orders, NEW s, s # "merged",
             \/ \E t : order' = NewOrder(o, t)
             \/ order' = [order EXCEPT ![o].status = s],
             kot' = kot
      PROVE  Goal
  <2>1. \A p \in Orders \ {o} : order'[p] = order[p]
    BY <1>f, <1>2 DEF NewOrder
  <2>2. order'[o].status \in {"open", s}
    BY <1>f, <1>2 DEF NewOrder, OrderRow
  <2> QED
    BY <1>2, <2>1, <2>2 DEF NoneMerged, TicketsStayPut
<1>3. ASSUME NEW ks \in SUBSET Kots, PullKots(ks)
      PROVE  TicketsStayPut
  <2>1. ASSUME NEW k \in Kots PROVE kot'[k].order = kot[k].order
    BY <1>f, <1>3 DEF PullKots, KotRow
  <2> QED
    BY <2>1 DEF TicketsStayPut
<1>4. ASSUME NEW k \in Kots, NEW o \in Orders, NEW quantity, CreateKot(k, o, quantity)
      PROVE  Goal
  <2>1. MayChange(o) /\ order' = order
    BY <1>4 DEF CreateKot, Open, MayChange, Closed
  <2>2. kot'[k].order = o /\ \A l \in Kots \ {k} : kot'[l] = kot[l]
    BY <1>f, <1>4 DEF CreateKot
  <2> QED
    BY <2>1, <2>2 DEF NoneMerged, TicketsStayPut
<1>5. ASSUME NEW k \in Kots, NEW s, SetKotStatus(k, s)
      PROVE  Goal
  <2>1. \A l \in Kots : kot'[l].order = kot[l].order
    BY <1>f, <1>5 DEF SetKotStatus, KotRow
  <2> QED
    BY <1>5, <2>1 DEF SetKotStatus, NoneMerged, TicketsStayPut
<1>6. ASSUME NEW k \in Kots, CancelKot(k)
      PROVE  Goal
  <2>1. PullKots({k}) /\ order' = order /\ {k} \in SUBSET Kots
    BY <1>6 DEF CancelKot
  <2> QED
    BY <1>3, <2>1 DEF NoneMerged
<1>7. ASSUME NEW t \in Tables, NEW b, ReleaseTable(t, b)
      PROVE  Goal
  <2>1. PullKots(UNION {kots_with_kitchen(o) : o \in OrdersAt(t)})
        /\ UNION {kots_with_kitchen(o) : o \in OrdersAt(t)} \in SUBSET Kots
    BY <1>7 DEF ReleaseTable, kots_with_kitchen, KotsOf
  <2>2. \A o \in Orders : order'[o].status \in {order[o].status, "cancelled"}
    BY <1>f, <1>7 DEF ReleaseTable, OrderRow
  <2> QED
    BY <1>3, <2>1, <2>2 DEF NoneMerged
<1>8. ASSUME NEW o \in Orders, NEW t, NEW lines, CreateOrder(o, t, lines) \/ AddItems(o, lines)
      PROVE  Goal
  BY <1>1, <1>2, <1>8 DEF CreateOrder, AddItems
<1>9. ASSUME NEW o \in Orders, NEW t, NEW lines, OpenTableOrder(o, t, lines)
      PROVE  Goal
  BY <1>8, <1>9 DEF OpenTableOrder
<1>10. ASSUME NEW o \in Orders, NEW n \in Orders, NEW t, NEW chosen, NEW copy,
              SplitOrder(o, n, t, chosen, copy)
       PROVE  Goal
  BY <1>2, <1>10 DEF SplitOrder
<1>11. ASSUME NEW o \in Orders, CancelOrder(o) \/ BillOrder(o)
       PROVE  Goal
  <2>1. kot' = kot /\ \E s : s # "merged" /\ order' = [order EXCEPT ![o].status = s]
    BY <1>11 DEF CancelOrder, BillOrder
  <2> QED
    BY <1>2, <2>1
<1>12. ASSUME NEW o \in Orders, NEW t, TransferOrder(o, t)
       PROVE  Goal
  <2>1. kot' = kot /\ order' = [order EXCEPT ![o].table = t]
    BY <1>12 DEF TransferOrder
  <2>2. \A p \in Orders : order'[p].status = order[p].status
    BY <1>f, <2>1 DEF OrderRow
  <2> QED
    BY <2>1, <2>2 DEF NoneMerged, TicketsStayPut
<1>13. CASE UNCHANGED vars
  BY <1>1, <1>13 DEF vars
<1>14. ASSUME Next PROVE Goal
  <2>1. ASSUME NEW t, NEW s, CreateTable(t) \/ DeleteTable(t) \/ SetTableStatus(t, s)
        PROVE  Goal
    BY <1>1, <2>1 DEF CreateTable, DeleteTable, SetTableStatus
  <2>2. ASSUME NEW i, NEW q, UpdateItem(i, q) \/ RemoveItem(i)
        PROVE  Goal
    BY <1>1, <2>2 DEF UpdateItem, RemoveItem
  <2> HIDE DEF Goal
  <2>3. ~\E o \in Orders, sources \in SUBSET Orders : MergeOrders(o, sources)
    OBVIOUS
  <2> QED
    BY <1>4, <1>5, <1>6, <1>7, <1>8, <1>9, <1>10, <1>11, <1>12, <1>14,
       <2>1, <2>2, <2>3, Zenon DEF Next
<1> QED
  BY <1>13, <1>14

LEMMA HistoryStep ==
    ASSUME FloorInv, LinesInv, TicketsInv, MergedOrdersAreHistory, [Next]_vars
    PROVE  MergedOrdersAreHistory'
<1> DEFINE Merged == {o \in Orders : order[o].status = "merged"}
<1>0. OrdersKept /\ LinesKept
  BY FloorStep, LinesStep
<1>1. /\ \A o \in Merged : ItemsOf(o) = {} /\ KotsOf(o) = {}
      /\ \A S \in (SUBSET Merged) \ {{}} :
           \E o \in S : order[o].merged_into \in {p \in Orders \ S : order[p].status # "none"}
  BY DEF MergedOrdersAreHistory
<1>2. \A o \in Merged : order'[o] = order[o]
  BY <1>0 DEF OrdersKept, Closed
<1>3. \A p \in Orders : order[p].status # "none" => order'[p].status # "none"
  BY <1>0 DEF OrdersKept
<1>4. ASSUME NEW S \in SUBSET Merged, S # {}
      PROVE  \E o \in S : order'[o].merged_into \in {p \in Orders \ S : order'[p].status # "none"}
  <2>1. PICK o \in S : order[o].merged_into \in {p \in Orders \ S : order[p].status # "none"}
    BY <1>1, <1>4
  <2> QED
    BY <1>2, <1>3, <2>1
<1>5. ASSUME NEW o \in Merged PROVE ItemsOf(o)' = {}
  <2>1. \A i \in Items : item[i].order # o
    BY <1>1 DEF ItemsOf
  <2>2. \A i \in Items : item'[i].order # o
    BY <1>0, <2>1 DEF LinesKept, MayChange, Closed
  <2> QED
    BY <2>2 DEF ItemsOf
<1>6. CASE ~\E o \in Orders, sources \in SUBSET Orders : MergeOrders(o, sources)
  <2>1. NoneMerged /\ TicketsStayPut
    BY <1>6, NothingMerged
  <2>2. Merged' \subseteq Merged
    BY <2>1 DEF NoneMerged
  <2>3. \A o \in Merged : KotsOf(o)' = {}
    BY <1>1, <2>1 DEF KotsOf, TicketsStayPut, MayChange, Closed
  <2>4. \A o \in Merged' : ItemsOf(o)' = {} /\ KotsOf(o)' = {}
    BY <1>5, <2>2, <2>3
  <2>5. \A S \in (SUBSET Merged') \ {{}} :
          \E o \in S : order'[o].merged_into \in {p \in Orders \ S : order'[p].status # "none"}
    BY <1>4, <2>2
  <2> QED
    BY <2>4, <2>5 DEF MergedOrdersAreHistory
<1>7. ASSUME NEW o \in Orders, NEW sources \in SUBSET Orders, MergeOrders(o, sources)
      PROVE  MergedOrdersAreHistory'
  <2>1. /\ Open(o) /\ o \notin sources /\ \A s \in sources : Open(s)
        /\ item' = [i \in Items |->
             IF item[i].order \in sources THEN [item[i] EXCEPT !.order = o] ELSE item[i]]
        /\ kot' = [k \in Kots |->
             IF kot[k].order \in sources THEN [kot[k] EXCEPT !.order = o] ELSE kot[k]]
        /\ order' = [s \in Orders |->
             IF s \in sources THEN [order[s] EXCEPT !.status = "merged", !.merged_into = o]
             ELSE order[s]]
    BY <1>7 DEF MergeOrders, TicketsMoved
  <2>2. \A p \in Orders \ sources : order'[p] = order[p]
    BY <2>1
  <2>3. ASSUME NEW s \in sources PROVE order'[s].merged_into = o
    <3>1. order[s] \in OrderRow
      BY DEF FloorInv
    <3> QED
      BY <2>1, <3>1 DEF OrderRow
  <2>4. Merged' \subseteq Merged \cup sources
    BY <2>2
  <2>5. ASSUME NEW s \in sources PROVE ItemsOf(s)' = {}
    <3>1. ASSUME NEW i \in Items PROVE item'[i].order # s
      <4>1. PICK r : r = item[i]
        OBVIOUS
      <4>2. IsLine(r)
        BY <4>1 DEF LinesInv
      <4>3. [r EXCEPT !.order = o].order = o
        BY <4>2, OrderEdit, Zenon
      <4>4. r.order \in sources => item'[i] = [r EXCEPT !.order = o]
        BY <2>1, <4>1
      <4>5. r.order \in sources => item'[i].order = o
        BY <4>3, <4>4, Zenon
      <4>6. r.order \notin sources => item'[i].order = r.order
        BY <2>1, <4>1
      <4> QED
        BY <2>1, <4>5, <4>6
    <3> QED
      BY <3>1 DEF ItemsOf
  <2>6. ASSUME NEW k \in Kots
        PROVE  kot'[k].order \notin sources /\ (kot'[k].order = kot[k].order \/ kot'[k].order = o)
    <3>1. PICK w \in KotRow : w = kot[k]
      BY DEF TicketsInv
    <3>2. [w EXCEPT !.order = o].order = o
      BY DEF KotRow
    <3> QED
      BY <2>1, <3>1, <3>2
  <2>7. ASSUME NEW s \in Merged' PROVE ItemsOf(s)' = {} /\ KotsOf(s)' = {}
    <3>1. CASE s \in sources
      BY <2>5, <2>6, <3>1 DEF KotsOf
    <3>2. CASE s \in Merged
      <4>1. s # o
        BY <2>1, <3>2 DEF Open
      <4>2. KotsOf(s)' = {}
        BY <1>1, <2>6, <3>2, <4>1 DEF KotsOf
      <4> QED
        BY <1>5, <3>2, <4>2
    <3> QED
      BY <2>4, <3>1, <3>2
  <2>8. ASSUME NEW S \in SUBSET Merged', S # {}
        PROVE  \E s \in S : order'[s].merged_into \in {p \in Orders \ S : order'[p].status # "none"}
    <3>1. o \notin S /\ order'[o].status # "none"
      BY <2>1, <2>2 DEF Open
    <3>2. CASE S \cap sources # {}
      BY <2>3, <3>1, <3>2
    <3>3. CASE S \cap sources = {}
      BY <1>4, <2>4, <2>8, <3>3
    <3> QED
      BY <3>2, <3>3
  <2> HIDE DEF Merged
  <2>9. \A S \in (SUBSET Merged') \ {{}} :
          \E s \in S : order'[s].merged_into \in {p \in Orders \ S : order'[p].status # "none"}
    BY <2>8
  <2>10. \A s \in Merged' : ItemsOf(s)' = {} /\ KotsOf(s)' = {}
    BY <2>7
  <2> USE DEF Merged
  <2> QED
    BY <2>9, <2>10 DEF MergedOrdersAreHistory
<1> QED
  BY <1>6, <1>7
-----------------------------------------------------------------------------
(***************************************************************************)
(* The inductive invariant.                                                *)
(***************************************************************************)
RestaurantInv == FloorInv /\ LinesInv /\ TicketsInv /\ MergedOrdersAreHistory

LEMMA InitInv == Init => RestaurantInv
<1> USE RestaurantAssumption
<1> SUFFICES ASSUME Init PROVE RestaurantInv
  OBVIOUS
<1> DEFINE norow == [status |-> "none", table |-> NoTable, merged_into |-> NoOrder]
<1>1. norow \in OrderRow /\ norow.status = "none"
  BY DEF OrderRow
<1> HIDE DEF norow
<1>2. order = [o \in Orders |-> norow]
  BY DEF Init, norow
<1>3. tables \in [Tables -> TableStatus] /\ \A t \in Tables : tables[t] # "occupied"
  BY DEF Init, TableStatus
<1>4. FloorInv
  BY <1>1, <1>2, <1>3 DEF FloorInv, OneOpenOrderPerTable, BoardMatchesOrders, OrdersAt, Open
<1>5. item = [i \in Items |-> NoItem] /\ IsLine(NoItem)
  BY DEF Init, NoItem, IsLine
<1>6. LinesInv
  BY <1>5 DEF LinesInv
<1> DEFINE nokot == [status |-> "none", order |-> NoOrder, quantity |-> [i \in Items |-> 0]]
<1>7. nokot \in KotRow /\ nokot.status = "none" /\ \A i \in Items : nokot.quantity[i] = 0
  BY DEF KotRow
<1> HIDE DEF nokot
<1>8. kot = [k \in Kots |-> nokot]
  BY DEF Init, nokot
<1>9. TicketsInv
  BY <1>7, <1>8 DEF TicketsInv, KitchenFoodIsOnATab, TicketLinesResolve, KOT_WITH_KITCHEN
<1>10. MergedOrdersAreHistory
  BY <1>1, <1>2 DEF MergedOrdersAreHistory
<1> QED
  BY <1>4, <1>6, <1>9, <1>10 DEF RestaurantInv

LEMMA InvStep == RestaurantInv /\ [Next]_vars => RestaurantInv' /\ OrdersKept /\ LinesKept
BY FloorStep, LinesStep, HistoryStep DEF RestaurantInv

LEMMA RestaurantInvHolds == Spec => []RestaurantInv
BY InitInv, InvStep, PTL DEF Spec

(***************************************************************************)
(* A table never has two open orders, whatever the plan enables and        *)
(* whatever is opened, moved, merged, split or quick-billed.               *)
(***************************************************************************)
THEOREM OneTabPerTable == Spec => []OneOpenOrderPerTable
<1>1. RestaurantInv => OneOpenOrderPerTable
  BY DEF RestaurantInv, FloorInv
<1> QED
  BY <1>1, RestaurantInvHolds, PTL

(***************************************************************************)
(* The floor board shows a table occupied exactly while an open order sits *)
(* on it: no function forgets a table it must call sync_table_status for.  *)
(***************************************************************************)
THEOREM FloorBoardTellsTheTruth == Spec => []BoardMatchesOrders
<1>1. RestaurantInv => BoardMatchesOrders
  BY DEF RestaurantInv, FloorInv
<1> QED
  BY <1>1, RestaurantInvHolds, PTL

(***************************************************************************)
(* Food the kitchen still cooks is on an open or billed order, through     *)
(* every merge, release and cancellation.                                  *)
(***************************************************************************)
THEOREM KitchenCooksForATab == Spec => []KitchenFoodIsOnATab
<1>1. RestaurantInv => KitchenFoodIsOnATab
  BY DEF RestaurantInv, TicketsInv
<1> QED
  BY <1>1, RestaurantInvHolds, PTL

(***************************************************************************)
(* With foreign keys enforced, every line a ticket names is a row of the   *)
(* ticket's own order: merges move both, and the key stops the deletions   *)
(* that would break it.  (SQLite without them lets such a line go.)        *)
(***************************************************************************)
THEOREM TicketsNameRealLines ==
    ASSUME ForeignKeys PROVE Spec => []TicketLinesResolve
<1>1. RestaurantInv => TicketLinesResolve
  BY DEF RestaurantInv, TicketsInv
<1> QED
  BY <1>1, RestaurantInvHolds, PTL

(***************************************************************************)
(* A merged order is only history: nothing is left on it, and merged_into  *)
(* never runs in a circle.                                                 *)
(***************************************************************************)
THEOREM MergesLeaveHistory == Spec => []MergedOrdersAreHistory
<1>1. RestaurantInv => MergedOrdersAreHistory
  BY DEF RestaurantInv
<1> QED
  BY <1>1, RestaurantInvHolds, PTL

(***************************************************************************)
(* A billed, cancelled or merged order is frozen: its row, the set of its  *)
(* lines and their quantities.                                             *)
(***************************************************************************)
THEOREM ClosedIsFrozen == Spec => ClosedOrdersAreFrozen
<1> DEFINE Frozen == \A o \in Orders : order[o].status \in {"billed", "cancelled", "merged"} =>
                       /\ order'[o] = order[o]
                       /\ ItemsOf(o)' = ItemsOf(o)
                       /\ \A i \in ItemsOf(o) : item'[i].quantity = item[i].quantity
<1>1. RestaurantInv /\ [Next]_vars => Frozen
  <2> SUFFICES ASSUME RestaurantInv, [Next]_vars, NEW o \in Orders, order[o].status \in Closed
               PROVE  /\ order'[o] = order[o]
                      /\ ItemsOf(o)' = ItemsOf(o)
                      /\ \A i \in ItemsOf(o) : item'[i].quantity = item[i].quantity
    BY DEF Closed
  <2>1. OrdersKept /\ LinesKept
    BY InvStep
  <2>2. order'[o] = order[o]
    BY <2>1 DEF OrdersKept
  <2>3. \A i \in Items : item[i].order = o \/ item'[i].order = o =>
          item'[i].order = item[i].order /\ item'[i].quantity = item[i].quantity
    BY <2>1 DEF LinesKept, MayChange
  <2> QED
    BY <2>2, <2>3 DEF ItemsOf
<1>2. Spec => [][Frozen]_vars
  BY <1>1, RestaurantInvHolds, PTL DEF Spec
<1> QED
  BY <1>2 DEF ClosedOrdersAreFrozen
-----------------------------------------------------------------------------
(***************************************************************************)
(* The lines and their tickets, with or without foreign keys: the columns  *)
(* of a line are numbers, and a line that is still there is on the order   *)
(* of every ticket that names it.                                          *)
(***************************************************************************)
LinesOnTheirTicketsOrder ==
  \A k \in Kots, i \in Items :
    kot[k].quantity[i] > 0 /\ item[i].order # NoOrder => item[i].order = kot[k].order

RowsInv ==
  /\ RestaurantInv
  /\ item \in [Items -> ItemRow]
  /\ LinesOnTheirTicketsOrder

Dead(k) == kot[k].status \in {"none", "cancelled"}

(***************************************************************************)
(* What a step does to the sums: nothing, but for new lines; or a ticket   *)
(* is written, or tickets the kitchen had are pulled, or a line is split.  *)
(***************************************************************************)
SumsStay ==
  /\ \A k \in Kots : (Dead(k)' <=> Dead(k)) /\ kot'[k].quantity = kot[k].quantity
  /\ \A i \in Items : item'[i].order # NoOrder =>
       \/ item[i].order # NoOrder /\ item'[i].sent = item[i].sent
       \/ i \in Fresh /\ item'[i].sent = 0
SumsGrow ==
  \E k \in Kots, o \in Orders :
    \E quantity \in [Items -> 0..(MaxRepeats * MaxQty)] : CreateKot(k, o, quantity)
SumsShrink ==
  \E ks \in SUBSET Kots : /\ PullKots(ks)
                          /\ \A k \in ks : kot[k].status \in KOT_WITH_KITCHEN
RowsKept == item' \in [Items -> ItemRow] /\ LinesOnTheirTicketsOrder'

\* The rows and lines of a step that writes only lines.
LEMMA RowsOnly ==
    ASSUME RowsInv, item' = [i \in Items |-> item'[i]], kot' = kot,
           \A i \in Items :
             /\ item'[i] \in ItemRow
             /\ \/ i \in Fresh \/ item'[i].order \in {item[i].order, NoOrder}
    PROVE  RowsKept
<1>1. item' \in [Items -> ItemRow]
  OBVIOUS
<1>2. ASSUME NEW k \in Kots, NEW i \in Items, kot'[k].quantity[i] > 0, item'[i].order # NoOrder
      PROVE  item'[i].order = kot'[k].order
  <2>1. i \notin Fresh
    BY <1>2 DEF Fresh
  <2>2. item'[i].order = item[i].order
    BY <1>2, <2>1
  <2> QED
    BY <1>2, <2>2 DEF RowsInv, LinesOnTheirTicketsOrder
<1> QED
  BY <1>1, <1>2 DEF RowsKept, LinesOnTheirTicketsOrder

LEMMA RowsUntouched ==
    ASSUME RowsInv, item' = item, kot' = kot
    PROVE  RowsKept /\ SumsStay
<1>1. RowsKept
  BY DEF RowsInv, RowsKept, LinesOnTheirTicketsOrder
<1>2. \A i \in Items : item'[i].order # NoOrder => item[i].order # NoOrder /\ item'[i].sent = item[i].sent
  OBVIOUS
<1>3. \A k \in Kots : (Dead(k)' <=> Dead(k)) /\ kot'[k].quantity = kot[k].quantity
  BY DEF Dead
<1> QED
  BY <1>1, <1>2, <1>3 DEF SumsStay

\* _append_item.
LEMMA RowsAppended ==
    ASSUME RowsInv, NEW o \in Orders, NEW lines \in NewLines, item' = Appended(o, lines), kot' = kot
    PROVE  RowsKept /\ SumsStay
<1> USE RestaurantAssumption
<1>1. PICK S \in SUBSET Fresh : lines \in [S -> 1..MaxQty]
  BY DEF NewLines
<1>2. ASSUME NEW i \in Items
      PROVE  /\ item'[i] \in ItemRow
             /\ \/ i \in Fresh /\ item'[i].sent = 0
                \/ item'[i] = item[i]
  <2>1. CASE i \in S
    <3>1. item'[i] = [order |-> o, quantity |-> lines[i], sent |-> 0] /\ lines[i] \in Nat
      BY <1>1, <2>1 DEF Appended
    <3> QED
      BY <1>1, <2>1, <3>1 DEF ItemRow
  <2>2. CASE i \notin S
    <3>1. item'[i] = item[i]
      BY <1>1, <2>2 DEF Appended
    <3> QED
      BY <3>1 DEF RowsInv
  <2> QED
    BY <2>1, <2>2
<1>3. item' = [i \in Items |-> item'[i]]
  BY DEF Appended
<1>4. \A i \in Items : i \in Fresh \/ item'[i].order \in {item[i].order, NoOrder}
  BY <1>2
<1>5. RowsKept
  BY <1>2, <1>3, <1>4, RowsOnly
<1>6. \A i \in Items : item'[i].order # NoOrder =>
        \/ item[i].order # NoOrder /\ item'[i].sent = item[i].sent
        \/ i \in Fresh /\ item'[i].sent = 0
  BY <1>2
<1>7. \A k \in Kots : (Dead(k)' <=> Dead(k)) /\ kot'[k].quantity = kot[k].quantity
  BY DEF Dead
<1> QED
  BY <1>5, <1>6, <1>7 DEF SumsStay

\* update_item and remove_item.
LEMMA RowsEdited ==
    ASSUME RowsInv, NEW i \in Items, NEW q \in 1..MaxQty, UpdateItem(i, q) \/ RemoveItem(i)
    PROVE  RowsKept /\ SumsStay
<1> USE RestaurantAssumption
<1>1. PICK r \in ItemRow : r = item[i]
  BY DEF RowsInv
<1>2. /\ item' = [item EXCEPT ![i].quantity = q] \/ item' = [item EXCEPT ![i] = NoItem]
      /\ kot' = kot /\ item[i].order # NoOrder
  BY DEF UpdateItem, RemoveItem
<1>3. /\ \A j \in Items \ {i} : item'[j] = item[j]
      /\ item'[i] = [r EXCEPT !.quantity = q] \/ item'[i] = NoItem
      /\ item' = [j \in Items |-> item'[j]]
  BY <1>1, <1>2 DEF RowsInv
<1>4. q \in Nat
  OBVIOUS
<1>5. /\ item'[i] \in ItemRow
      /\ \/ item'[i].order = NoOrder
         \/ item'[i].order = r.order /\ item'[i].sent = r.sent
  <2>1. CASE item'[i] = [r EXCEPT !.quantity = q]
    <3>1. PICK v : v = [r EXCEPT !.quantity = q]
      OBVIOUS
    <3>2. v \in ItemRow /\ v.order = r.order /\ v.sent = r.sent
      BY <1>4, <3>1 DEF ItemRow
    <3> QED
      BY <2>1, <3>1, <3>2
  <2>2. CASE item'[i] = NoItem
    <3>1. NoItem \in ItemRow /\ NoItem.order = NoOrder
      BY DEF NoItem, ItemRow
    <3> QED
      BY <2>2, <3>1
  <2> QED
    BY <1>3, <2>1, <2>2
<1>6. \A j \in Items : /\ item'[j] \in ItemRow
                       /\ j \in Fresh \/ item'[j].order \in {item[j].order, NoOrder}
  BY <1>1, <1>3, <1>5 DEF RowsInv
<1>7. RowsKept
  BY <1>2, <1>3, <1>6, RowsOnly
<1>8. \A j \in Items : item'[j].order # NoOrder =>
        \/ item[j].order # NoOrder /\ item'[j].sent = item[j].sent
        \/ j \in Fresh /\ item'[j].sent = 0
  BY <1>1, <1>2, <1>3, <1>5
<1>9. \A k \in Kots : (Dead(k)' <=> Dead(k)) /\ kot'[k].quantity = kot[k].quantity
  BY <1>2 DEF Dead
<1> QED
  BY <1>7, <1>8, <1>9 DEF SumsStay

\* merge_orders moves the lines and the tickets of the sources.
LEMMA RowsMerged ==
    ASSUME RowsInv, NEW o \in Orders, NEW sources \in SUBSET Orders, MergeOrders(o, sources)
    PROVE  RowsKept /\ SumsStay
<1> USE RestaurantAssumption
<1>1. /\ item' = [i \in Items |->
           IF item[i].order \in sources THEN [item[i] EXCEPT !.order = o] ELSE item[i]]
      /\ kot' = [k \in Kots |->
           IF kot[k].order \in sources THEN [kot[k] EXCEPT !.order = o] ELSE kot[k]]
  BY DEF MergeOrders, TicketsMoved
<1>2. ASSUME NEW i \in Items
      PROVE  /\ item'[i] \in ItemRow /\ item'[i].sent = item[i].sent
             /\ item'[i].order = IF item[i].order \in sources THEN o ELSE item[i].order
  <2>1. PICK r \in ItemRow : r = item[i]
    BY DEF RowsInv
  <2>2. PICK v : v = [r EXCEPT !.order = o]
    OBVIOUS
  <2>3. v \in ItemRow /\ v.order = o /\ v.sent = r.sent
    BY <2>2 DEF ItemRow
  <2>4. item'[i] = IF r.order \in sources THEN v ELSE r
    BY <1>1, <2>1, <2>2
  <2> QED
    BY <2>1, <2>3, <2>4
<1>3. ASSUME NEW k \in Kots
      PROVE  /\ kot'[k].status = kot[k].status /\ kot'[k].quantity = kot[k].quantity
             /\ kot'[k].order = IF kot[k].order \in sources THEN o ELSE kot[k].order
  <2>1. PICK w \in KotRow : w = kot[k]
    BY DEF RowsInv, RestaurantInv, TicketsInv
  <2>2. PICK v : v = [w EXCEPT !.order = o]
    OBVIOUS
  <2>3. v.order = o /\ v.status = w.status /\ v.quantity = w.quantity
    BY <2>2 DEF KotRow
  <2>4. kot'[k] = IF w.order \in sources THEN v ELSE w
    BY <1>1, <2>1, <2>2
  <2> QED
    BY <2>1, <2>3, <2>4
<1>4. item' \in [Items -> ItemRow]
  BY <1>1, <1>2
<1>5. \A i \in Items : item'[i].order # NoOrder => item[i].order # NoOrder
  BY <1>2
<1>6. LinesOnTheirTicketsOrder'
  <2> SUFFICES ASSUME NEW k \in Kots, NEW i \in Items,
                      kot'[k].quantity[i] > 0, item'[i].order # NoOrder
               PROVE  item'[i].order = kot'[k].order
    BY DEF LinesOnTheirTicketsOrder
  <2>1. kot[k].quantity[i] > 0 /\ item[i].order # NoOrder
    BY <1>3, <1>5
  <2>2. item[i].order = kot[k].order
    BY <2>1 DEF RowsInv, LinesOnTheirTicketsOrder
  <2> QED
    BY <1>2, <1>3, <2>2
<1>7. \A k \in Kots : (Dead(k)' <=> Dead(k)) /\ kot'[k].quantity = kot[k].quantity
  BY <1>3 DEF Dead
<1> QED
  BY <1>2, <1>4, <1>5, <1>6, <1>7 DEF RowsKept, SumsStay

\* update_kot_status.
LEMMA RowsServed ==
    ASSUME RowsInv, NEW k \in Kots, NEW s \in {"preparing", "ready", "served"}, SetKotStatus(k, s)
    PROVE  RowsKept /\ SumsStay
<1>1. /\ kot[k].status \in KOT_WITH_KITCHEN /\ kot' = [kot EXCEPT ![k].status = s]
      /\ item' = item
  BY DEF SetKotStatus, KOT_TRANSITIONS, KOT_WITH_KITCHEN
<1>2. PICK w \in KotRow : w = kot[k]
  BY DEF RowsInv, RestaurantInv, TicketsInv
<1>3. PICK v : v = [w EXCEPT !.status = s]
  OBVIOUS
<1>4. v.order = w.order /\ v.quantity = w.quantity /\ v.status = s
  BY <1>3 DEF KotRow
<1>5. kot'[k] = v /\ \A l \in Kots \ {k} : kot'[l] = kot[l]
  BY <1>1, <1>2, <1>3 DEF RowsInv, RestaurantInv, TicketsInv
<1>6. \A l \in Kots : /\ kot'[l].order = kot[l].order /\ kot'[l].quantity = kot[l].quantity
                      /\ Dead(l)' <=> Dead(l)
  BY <1>1, <1>2, <1>4, <1>5 DEF Dead, KOT_WITH_KITCHEN
<1>7. RowsKept
  BY <1>1, <1>6 DEF RowsInv, RowsKept, LinesOnTheirTicketsOrder
<1>8. \A i \in Items : item'[i].order # NoOrder => item[i].order # NoOrder /\ item'[i].sent = item[i].sent
  BY <1>1
<1> QED
  BY <1>6, <1>7, <1>8 DEF SumsStay

\* create_kot.
LEMMA RowsCooked ==
    ASSUME RowsInv, NEW k \in Kots, NEW o \in Orders,
           NEW quantity \in [Items -> 0..(MaxRepeats * MaxQty)], CreateKot(k, o, quantity)
    PROVE  /\ RowsKept
           /\ \A i \in Items : /\ item'[i].sent = item[i].sent + quantity[i]
                               /\ item'[i].order = item[i].order
<1>1. /\ kot' = [kot EXCEPT ![k] = [status |-> "pending", order |-> o, quantity |-> quantity]]
      /\ \A i \in Items : quantity[i] > 0 => item[i].order = o
      /\ item' = [i \in Items |-> [item[i] EXCEPT !.sent = @ + quantity[i]]]
  BY DEF CreateKot, ItemsOf
<1>2. ASSUME NEW i \in Items
      PROVE  /\ item'[i] \in ItemRow /\ item'[i].sent = item[i].sent + quantity[i]
             /\ item'[i].order = item[i].order
  <2>1. PICK r \in ItemRow : r = item[i]
    BY DEF RowsInv
  <2>2. PICK x : x = r.sent + quantity[i]
    OBVIOUS
  <2>3. x \in Nat
    <3>1. r.sent \in Nat /\ quantity[i] \in Nat
      BY DEF ItemRow
    <3> QED
      BY <2>2, <3>1
  <2>4. PICK v : v = [r EXCEPT !.sent = x]
    OBVIOUS
  <2>5. v \in ItemRow /\ v.order = r.order /\ v.sent = x
    BY <2>3, <2>4 DEF ItemRow
  <2>6. item'[i] = v
    BY <1>1, <2>1, <2>2, <2>4
  <2> QED
    BY <2>1, <2>2, <2>5, <2>6
<1>3. /\ kot'[k].order = o /\ kot'[k].quantity = quantity
      /\ \A l \in Kots \ {k} : kot'[l] = kot[l]
  BY <1>1 DEF RowsInv, RestaurantInv, TicketsInv
<1>4. item' \in [Items -> ItemRow]
  BY <1>1, <1>2
<1>5. LinesOnTheirTicketsOrder'
  <2> SUFFICES ASSUME NEW l \in Kots, NEW i \in Items,
                      kot'[l].quantity[i] > 0, item'[i].order # NoOrder
               PROVE  item'[i].order = kot'[l].order
    BY DEF LinesOnTheirTicketsOrder
  <2>1. CASE l = k
    <3>1. quantity[i] > 0
      BY <1>3, <2>1
    <3>2. item[i].order = o
      BY <1>1, <3>1
    <3> QED
      BY <1>2, <1>3, <2>1, <3>2
  <2>2. CASE l # k
    <3>1. kot'[l] = kot[l] /\ item'[i].order = item[i].order
      BY <1>2, <1>3, <2>2
    <3> QED
      BY <3>1 DEF RowsInv, LinesOnTheirTicketsOrder
  <2> QED
    BY <2>1, <2>2
<1> QED
  BY <1>2, <1>4, <1>5 DEF RowsKept

\* What is put back for a line is a number, and at most what is left of it stays.
LEMMA RowsPulled ==
    ASSUME RowsInv, NEW ks \in SUBSET Kots, PullKots(ks)
    PROVE  /\ RowsKept
           /\ \A i \in Items : /\ Pulled(ks, i) \in Nat /\ item'[i].order = item[i].order
                 /\ item'[i].sent = IF item[i].sent >= Pulled(ks, i)
                                    THEN item[i].sent - Pulled(ks, i) ELSE 0
           /\ \A k \in Kots : kot'[k].quantity = kot[k].quantity /\ kot'[k].order = kot[k].order
           /\ \A k \in ks : kot'[k].status = "cancelled"
           /\ \A k \in Kots \ ks : kot'[k] = kot[k]
<1> USE RestaurantAssumption
<1>1. ASSUME NEW i \in Items PROVE Pulled(ks, i) \in Nat
  <2> DEFINE f == [k \in {l \in ks : kot[l].order = item[i].order} |-> kot[k].quantity[i]]
             g == [k \in ks |-> IF k \in DOMAIN f THEN f[k] ELSE 0]
  <2>1. \A k \in Kots : kot[k].quantity[i] \in Nat
    <3> SUFFICES ASSUME NEW k \in Kots PROVE kot[k].quantity[i] \in Nat
      OBVIOUS
    <3>1. kot[k] \in KotRow
      BY DEF RowsInv, RestaurantInv, TicketsInv
    <3> QED
      BY <3>1 DEF KotRow
  <2>2. DOMAIN f \subseteq ks /\ \A k \in DOMAIN f : f[k] \in Int
    BY <2>1
  <2>3. \A k \in ks : g[k] \in Nat /\ g[k] = IF k \in DOMAIN f THEN f[k] ELSE 0
    BY <2>1
  <2>4. IsFiniteSet(ks)
    BY FS_Subset
  <2>5. Pulled(ks, i) = SumFunction(f)
    BY DEF Pulled
  <2> HIDE DEF f, g
  <2>6. SumFunction(f) = SumFunctionOnSet(g, ks)
    BY <2>2, <2>3, <2>4, SumOfSome
  <2>7. SumFunctionOnSet(g, ks) \in Nat
    BY <2>3, <2>4, SumNat
  <2> QED
    BY <2>5, <2>6, <2>7
<1>2. ASSUME NEW i \in Items
      PROVE  /\ item'[i] \in ItemRow /\ item'[i].order = item[i].order
             /\ item'[i].sent = IF item[i].sent >= Pulled(ks, i)
                                THEN item[i].sent - Pulled(ks, i) ELSE 0
  <2>1. PICK r \in ItemRow : r = item[i]
    BY DEF RowsInv
  <2>2. PICK x : x = IF r.sent >= Pulled(ks, i) THEN r.sent - Pulled(ks, i) ELSE 0
    OBVIOUS
  <2>3. x \in Nat
    BY <1>1, <2>2 DEF ItemRow
  <2>4. PICK v : v = [r EXCEPT !.sent = x]
    OBVIOUS
  <2>5. v \in ItemRow /\ v.order = r.order /\ v.sent = x
    BY <2>3, <2>4 DEF ItemRow
  <2>6. item'[i] = v
    BY <2>1, <2>2, <2>4 DEF PullKots, PutBack
  <2> QED
    BY <2>1, <2>2, <2>5, <2>6
<1>3. ASSUME NEW k \in Kots
      PROVE  /\ kot'[k].quantity = kot[k].quantity /\ kot'[k].order = kot[k].order
             /\ k \in ks => kot'[k].status = "cancelled"
             /\ k \notin ks => kot'[k] = kot[k]
  <2>1. PICK w \in KotRow : w = kot[k]
    BY DEF RowsInv, RestaurantInv, TicketsInv
  <2>2. PICK v : v = [w EXCEPT !.status = "cancelled"]
    OBVIOUS
  <2>3. v.order = w.order /\ v.quantity = w.quantity /\ v.status = "cancelled"
    BY <2>2 DEF KotRow
  <2>4. kot'[k] = IF k \in ks THEN v ELSE w
    BY <2>1, <2>2 DEF PullKots
  <2> QED
    BY <2>1, <2>3, <2>4
<1>4. item' = [i \in Items |-> item'[i]]
  BY DEF PullKots, PutBack
<1>5. item' \in [Items -> ItemRow]
  BY <1>2, <1>4
<1>6. LinesOnTheirTicketsOrder'
  BY <1>2, <1>3 DEF RowsInv, LinesOnTheirTicketsOrder
<1>7. RowsKept
  BY <1>5, <1>6 DEF RowsKept
<1> QED
  BY <1>1, <1>2, <1>3, <1>7

\* split_order: a line keeps what it is left with, and its copy is a new row.
LEMMA RowsSplit ==
    ASSUME RowsInv, NEW o \in Orders, NEW n \in Orders, NEW t,
           NEW chosen \in UNION {[S -> 1..MaxQty] : S \in SUBSET ItemsOf(o)},
           NEW copy \in Injection(DOMAIN chosen, Fresh), SplitOrder(o, n, t, chosen, copy)
    PROVE  RowsKept
<1> USE RestaurantAssumption
<1> DEFINE moved == DOMAIN chosen
           sentWith(i) == IF item[i].sent <= chosen[i] THEN item[i].sent ELSE chosen[i]
<1>1. /\ moved \subseteq ItemsOf(o) /\ \A i \in moved : chosen[i] <= item[i].quantity
      /\ item' = [i \in Items |->
           IF i \in moved THEN
             IF chosen[i] = item[i].quantity THEN NoItem
             ELSE [item[i] EXCEPT !.quantity = @ - chosen[i], !.sent = @ - sentWith(i)]
           ELSE IF \E s \in moved : copy[s] = i THEN
             LET s == CHOOSE s \in moved : copy[s] = i
             IN [order |-> n, quantity |-> chosen[s], sent |-> sentWith(s)]
           ELSE item[i]]
      /\ kot' = kot
  BY DEF SplitOrder
<1>2. \A s \in moved : copy[s] \in Fresh
  BY DEF Injection, IsInjective
<1>3. \A s \in moved : chosen[s] \in Nat
  OBVIOUS
<1>4. ASSUME NEW s \in moved
      PROVE  s \in Items /\ item[s].sent \in Nat /\ sentWith(s) \in Nat /\ sentWith(s) <= item[s].sent
  <2>1. s \in Items
    BY <1>1 DEF ItemsOf
  <2>2. PICK r \in ItemRow : r = item[s]
    BY <2>1 DEF RowsInv
  <2>3. item[s].sent \in Nat
    BY <2>2 DEF ItemRow
  <2> QED
    BY <1>3, <2>1, <2>3
<1>5. ASSUME NEW i \in Items
      PROVE  /\ item'[i] \in ItemRow
             /\ i \in Fresh \/ item'[i].order \in {item[i].order, NoOrder}
  <2>1. PICK r \in ItemRow : r = item[i]
    BY DEF RowsInv
  <2>2. CASE i \in moved /\ chosen[i] = item[i].quantity
    <3>1. item'[i] = NoItem
      BY <1>1, <2>2
    <3>2. NoItem \in ItemRow /\ NoItem.order = NoOrder
      BY DEF NoItem, ItemRow
    <3> QED
      BY <3>1, <3>2
  <2>3. CASE i \in moved /\ chosen[i] # item[i].quantity
    <3>0. PICK x : x = r.quantity - chosen[i]
      OBVIOUS
    <3>1. PICK y : y = r.sent - sentWith(i)
      OBVIOUS
    <3>2. x \in Nat /\ y \in Nat
      <4>1. r.quantity \in Nat /\ r.sent \in Nat
        BY DEF ItemRow
      <4>2. chosen[i] \in Nat /\ chosen[i] <= r.quantity
        BY <1>1, <1>3, <2>1, <2>3
      <4>3. sentWith(i) \in Nat /\ sentWith(i) <= r.sent
        BY <1>4, <2>1, <2>3
      <4> HIDE DEF sentWith
      <4> QED
        BY <3>0, <3>1, <4>1, <4>2, <4>3
    <3>3. PICK v : v = [r EXCEPT !.quantity = x, !.sent = y]
      OBVIOUS
    <3>4. v \in ItemRow /\ v.order = r.order
      BY <3>2, <3>3 DEF ItemRow
    <3>5. item'[i] = v
      BY <1>1, <2>1, <2>3, <3>0, <3>1, <3>3
    <3> QED
      BY <2>1, <3>4, <3>5
  <2>4. CASE i \notin moved /\ \E s \in moved : copy[s] = i
    <3>1. PICK s \in moved : item'[i] = [order |-> n, quantity |-> chosen[s], sent |-> sentWith(s)]
      BY <1>1, <2>4
    <3>2. item'[i] \in ItemRow
      BY <1>3, <1>4, <3>1 DEF ItemRow
    <3> QED
      BY <1>2, <2>4, <3>2
  <2>5. CASE i \notin moved /\ ~\E s \in moved : copy[s] = i
    <3>1. item'[i] = item[i]
      BY <1>1, <2>5
    <3> QED
      BY <2>1, <3>1
  <2> QED
    BY <2>2, <2>3, <2>4, <2>5
<1>6. item' = [i \in Items |-> item'[i]]
  BY <1>1
<1> QED
  BY <1>1, <1>5, <1>6, RowsOnly

(***************************************************************************)
(* Every step keeps the rows in order, and does one thing to the sums.     *)
(***************************************************************************)
LEMMA RowsStep ==
    ASSUME RowsInv, [Next]_vars
    PROVE  RowsKept /\ (SumsStay \/ SumsGrow \/ SumsShrink \/ "table_split" \in Features)
<1> DEFINE Goal == RowsKept /\ (SumsStay \/ SumsGrow \/ SumsShrink \/ "table_split" \in Features)
<1>1. ASSUME item' = item, kot' = kot PROVE Goal
  BY <1>1, RowsUntouched
<1>2. ASSUME NEW o \in Orders, NEW t, NEW lines \in NewLines,
             CreateOrder(o, t, lines) \/ AddItems(o, lines)
      PROVE  Goal
  BY <1>2, RowsAppended DEF CreateOrder, AddItems
<1>3. ASSUME NEW o \in Orders, NEW t, NEW lines \in NewLines, OpenTableOrder(o, t, lines)
      PROVE  Goal
  BY <1>2, <1>3 DEF OpenTableOrder
<1>4. ASSUME NEW i \in Items, NEW q \in 1..MaxQty, UpdateItem(i, q) PROVE Goal
  BY <1>4, RowsEdited
<1>5. ASSUME NEW i \in Items, RemoveItem(i) PROVE Goal
  <2>1. 1 \in 1..MaxQty
    BY RestaurantAssumption
  <2> QED
    BY <1>5, <2>1, RowsEdited
<1>6. ASSUME NEW o \in Orders, NEW sources \in SUBSET Orders, MergeOrders(o, sources) PROVE Goal
  BY <1>6, RowsMerged
<1>7. ASSUME NEW o \in Orders, NEW n \in Orders, NEW t \in Tables \cup {NoTable},
             NEW chosen \in UNION {[S -> 1..MaxQty] : S \in SUBSET ItemsOf(o)},
             NEW copy \in Injection(DOMAIN chosen, Fresh), SplitOrder(o, n, t, chosen, copy)
      PROVE  Goal
  <2>1. "table_split" \in Features
    BY <1>7 DEF SplitOrder
  <2> QED
    BY <1>7, <2>1, RowsSplit
<1>8. ASSUME NEW k \in Kots, NEW o \in Orders,
             NEW quantity \in [Items -> 0..(MaxRepeats * MaxQty)], CreateKot(k, o, quantity)
      PROVE  Goal
  BY <1>8, RowsCooked DEF SumsGrow
<1>9. ASSUME NEW k \in Kots, NEW s \in {"preparing", "ready", "served"}, SetKotStatus(k, s)
      PROVE  Goal
  BY <1>9, RowsServed
<1>10. ASSUME NEW k \in Kots, CancelKot(k) PROVE Goal
  <2>1. {k} \in SUBSET Kots /\ PullKots({k}) /\ \A l \in {k} : kot[l].status \in KOT_WITH_KITCHEN
    BY <1>10 DEF CancelKot
  <2> QED
    BY <2>1, RowsPulled DEF SumsShrink
<1>11. ASSUME NEW t \in Tables, NEW b \in BOOLEAN, ReleaseTable(t, b) PROVE Goal
  <2> DEFINE ks == UNION {kots_with_kitchen(o) : o \in OrdersAt(t)}
  <2>1. ks \in SUBSET Kots /\ PullKots(ks) /\ \A l \in ks : kot[l].status \in KOT_WITH_KITCHEN
    BY <1>11 DEF ReleaseTable, kots_with_kitchen, KotsOf
  <2> HIDE DEF ks
  <2> QED
    BY <2>1, RowsPulled DEF SumsShrink
<1>12. CASE UNCHANGED vars
  BY <1>1, <1>12 DEF vars
<1>13. ASSUME Next PROVE Goal
  <2>1. ASSUME NEW t, NEW s, CreateTable(t) \/ DeleteTable(t) \/ SetTableStatus(t, s)
        PROVE  Goal
    BY <1>1, <2>1 DEF CreateTable, DeleteTable, SetTableStatus
  <2>2. ASSUME NEW o, NEW t, CancelOrder(o) \/ BillOrder(o) \/ TransferOrder(o, t)
        PROVE  Goal
    BY <1>1, <2>2 DEF CancelOrder, BillOrder, TransferOrder
  <2> HIDE DEF Goal
  <2>3. CASE \E o, n \in Orders, t \in Tables \cup {NoTable} :
               \E chosen \in UNION {[S -> 1..MaxQty] : S \in SUBSET ItemsOf(o)} :
               \E copy \in Injection(DOMAIN chosen, Fresh) : SplitOrder(o, n, t, chosen, copy)
    BY <1>7, <2>3, Zenon
  <2>4. CASE SumsGrow
    BY <1>8, <2>4, Zenon DEF SumsGrow
  <2>5. CASE \/ \E o \in Orders, t \in Tables \cup {NoTable}, lines \in NewLines :
                  CreateOrder(o, t, lines)
             \/ \E o \in Orders, lines \in NewLines : AddItems(o, lines)
             \/ \E o \in Orders, t \in Tables, lines \in NewLines : OpenTableOrder(o, t, lines)
    BY <1>2, <1>3, <2>5, Zenon
  <2> QED
    BY <1>4, <1>5, <1>6, <1>9, <1>10, <1>11, <1>13,
       <2>1, <2>2, <2>3, <2>4, <2>5, Zenon DEF Next, SumsGrow
<1> QED
  BY <1>12, <1>13

(***************************************************************************)
(* The tickets K that count for line i, as a sum over all tickets.         *)
(***************************************************************************)
CountedIn(K, i) ==
  [k \in Kots |-> IF K[k].status \in {"none", "cancelled"} THEN 0 ELSE K[k].quantity[i]]
Counted(i) == SumFunctionOnSet(CountedIn(kot, i), Kots)

LEMMA CountedSum ==
    ASSUME NEW K \in [Kots -> KotRow], NEW i \in Items
    PROVE  /\ SumFunction([k \in {l \in Kots : K[l].status \notin {"none", "cancelled"}}
                           |-> K[k].quantity[i]]) = SumFunctionOnSet(CountedIn(K, i), Kots)
           /\ \A k \in Kots : CountedIn(K, i)[k] \in Nat /\ K[k].quantity[i] \in Nat
           /\ SumFunctionOnSet(CountedIn(K, i), Kots) \in Nat
<1> USE RestaurantAssumption
<1> DEFINE f == [k \in {l \in Kots : K[l].status \notin {"none", "cancelled"}} |-> K[k].quantity[i]]
           g == CountedIn(K, i)
<1>1. \A k \in Kots : K[k].quantity[i] \in Nat
  <2> SUFFICES ASSUME NEW k \in Kots PROVE K[k].quantity[i] \in Nat
    OBVIOUS
  <2>1. K[k] \in KotRow
    OBVIOUS
  <2> QED
    BY <2>1 DEF KotRow
<1>2. DOMAIN f \subseteq Kots /\ \A k \in DOMAIN f : f[k] \in Int
  BY <1>1
<1>3. \A k \in Kots : g[k] \in Nat /\ g[k] = IF k \in DOMAIN f THEN f[k] ELSE 0
  BY <1>1 DEF CountedIn
<1> HIDE DEF f, g
<1>4. SumFunction(f) = SumFunctionOnSet(g, Kots)
  BY <1>2, <1>3, SumOfSome
<1>5. SumFunctionOnSet(g, Kots) \in Nat
  BY <1>3, SumNat
<1> USE DEF f, g
<1> QED
  BY <1>1, <1>3, <1>4, <1>5

LEMMA TicketedIsCounted ==
    ASSUME RowsInv, RowsInv', NEW i \in Items
    PROVE  /\ Ticketed(i) = Counted(i) /\ Ticketed(i)' = Counted(i)'
           /\ Counted(i) \in Nat /\ Counted(i)' \in Nat
           /\ \A k \in Kots : /\ CountedIn(kot, i)[k] \in Nat /\ CountedIn(kot', i)[k] \in Nat
                             /\ kot[k].quantity[i] \in Nat /\ kot'[k].quantity[i] \in Nat
<1>1. kot \in [Kots -> KotRow] /\ kot' \in [Kots -> KotRow]
  BY DEF RowsInv, RestaurantInv, TicketsInv
<1>2. Ticketed(i) = Counted(i) /\ Counted(i) \in Nat
  BY <1>1, CountedSum DEF Ticketed, Counted
<1>3. Ticketed(i)' = Counted(i)' /\ Counted(i)' \in Nat
  BY <1>1, CountedSum DEF Ticketed, Counted
<1> QED
  BY <1>1, <1>2, <1>3, CountedSum

\* A step that leaves the sums alone.
LEMMA SentStays ==
    ASSUME RowsInv, RowsInv', SentMatchesTickets, SumsStay
    PROVE  SentMatchesTickets'
<1> USE RestaurantAssumption
<1> SUFFICES ASSUME NEW i \in Items, item'[i].order # NoOrder
             PROVE  item'[i].sent = Ticketed(i)'
  BY DEF SentMatchesTickets
<1>1. \A k \in Kots : CountedIn(kot', i)[k] = CountedIn(kot, i)[k]
  BY DEF SumsStay, CountedIn, Dead
<1>2. Counted(i)' = Counted(i)
  BY <1>1, SumSame DEF Counted
<1>3. Ticketed(i)' = Counted(i) /\ Ticketed(i) = Counted(i)
  BY <1>2, TicketedIsCounted
<1>4. CASE item[i].order # NoOrder /\ item'[i].sent = item[i].sent
  BY <1>3, <1>4 DEF SentMatchesTickets
<1>5. CASE i \in Fresh /\ item'[i].sent = 0
  <2>1. \A k \in Kots : CountedIn(kot, i)[k] = 0
    BY <1>5 DEF Fresh, CountedIn
  <2>2. Counted(i) = 0
    BY <2>1, SumZero DEF Counted
  <2> QED
    BY <1>3, <1>5, <2>2
<1> QED
  BY <1>4, <1>5 DEF SumsStay

\* A ticket is written: it counts for as much as is added to its lines.
LEMMA SentGrows ==
    ASSUME RowsInv, RowsInv', SentMatchesTickets, SumsGrow
    PROVE  SentMatchesTickets'
<1> USE RestaurantAssumption
<1>1. PICK k \in Kots, o \in Orders, quantity \in [Items -> 0..(MaxRepeats * MaxQty)] :
        CreateKot(k, o, quantity)
  BY DEF SumsGrow
<1>2. /\ kot[k].status = "none"
      /\ kot' = [kot EXCEPT ![k] = [status |-> "pending", order |-> o, quantity |-> quantity]]
  BY <1>1 DEF CreateKot
<1>3. /\ kot'[k].status = "pending" /\ kot'[k].quantity = quantity
      /\ \A l \in Kots \ {k} : kot'[l] = kot[l]
  BY <1>2 DEF RowsInv, RestaurantInv, TicketsInv
<1>4. \A i \in Items : item'[i].sent = item[i].sent + quantity[i] /\ item'[i].order = item[i].order
  BY <1>1, RowsCooked
<1> SUFFICES ASSUME NEW i \in Items, item'[i].order # NoOrder
             PROVE  item'[i].sent = Ticketed(i)'
  BY DEF SentMatchesTickets
<1>5. /\ CountedIn(kot, i)[k] = 0 /\ CountedIn(kot', i)[k] = quantity[i]
      /\ \A l \in Kots \ {k} : CountedIn(kot', i)[l] = CountedIn(kot, i)[l]
  BY <1>2, <1>3 DEF CountedIn
<1>6. \A l \in Kots : CountedIn(kot, i)[l] \in Int /\ CountedIn(kot', i)[l] \in Int
  BY TicketedIsCounted
<1>7. Counted(i)' = Counted(i) + (CountedIn(kot', i)[k] - CountedIn(kot, i)[k])
  BY <1>5, <1>6, SumUpdate DEF Counted
<1>8. item[i].sent = Ticketed(i)
  BY <1>4 DEF SentMatchesTickets
<1>9. Ticketed(i) = Counted(i) /\ Ticketed(i)' = Counted(i)' /\ Counted(i) \in Nat
  BY TicketedIsCounted
<1>10. quantity[i] \in Nat
  OBVIOUS
<1> QED
  BY <1>4, <1>5, <1>7, <1>8, <1>9, <1>10

\* Tickets are pulled: every line they name is on their order, so all they hold
\* of it is put back, and no more was sent.
LEMMA SentShrinks ==
    ASSUME RowsInv, RowsInv', SentMatchesTickets, SumsShrink
    PROVE  SentMatchesTickets'
<1> USE RestaurantAssumption
<1>1. PICK ks \in SUBSET Kots : PullKots(ks) /\ \A k \in ks : kot[k].status \in KOT_WITH_KITCHEN
  BY DEF SumsShrink
<1>2. /\ \A i \in Items : /\ Pulled(ks, i) \in Nat /\ item'[i].order = item[i].order
            /\ item'[i].sent = IF item[i].sent >= Pulled(ks, i)
                               THEN item[i].sent - Pulled(ks, i) ELSE 0
      /\ \A k \in Kots : kot'[k].quantity = kot[k].quantity /\ kot'[k].order = kot[k].order
      /\ \A k \in ks : kot'[k].status = "cancelled"
      /\ \A k \in Kots \ ks : kot'[k] = kot[k]
  BY <1>1, RowsPulled
<1> SUFFICES ASSUME NEW i \in Items, item'[i].order # NoOrder
             PROVE  item'[i].sent = Ticketed(i)'
  BY DEF SentMatchesTickets
<1>3. item[i].order # NoOrder /\ item[i].sent = Ticketed(i)
  BY <1>2 DEF SentMatchesTickets
<1> DEFINE f == [k \in {l \in ks : kot[l].order = item[i].order} |-> kot[k].quantity[i]]
           g == [k \in Kots |-> IF k \in ks THEN kot[k].quantity[i] ELSE 0]
<1>4. \A k \in Kots : /\ kot[k].quantity[i] \in Nat /\ g[k] \in Int
                      /\ CountedIn(kot, i)[k] \in Int /\ CountedIn(kot', i)[k] \in Int
  BY TicketedIsCounted
<1>5. \A k \in ks : kot[k].order # item[i].order => kot[k].quantity[i] = 0
  BY <1>3, <1>4 DEF RowsInv, LinesOnTheirTicketsOrder
<1>6. \A k \in Kots : g[k] = IF k \in DOMAIN f THEN f[k] ELSE 0
  BY <1>5
<1>7. DOMAIN f \subseteq Kots /\ \A k \in DOMAIN f : f[k] \in Int
  BY <1>4
<1>8. \A k \in Kots : CountedIn(kot, i)[k] = CountedIn(kot', i)[k] + g[k]
  <2> SUFFICES ASSUME NEW k \in Kots
               PROVE  CountedIn(kot, i)[k] = CountedIn(kot', i)[k] + g[k]
    OBVIOUS
  <2>1. CASE k \in ks
    <3>1. CountedIn(kot, i)[k] = kot[k].quantity[i] /\ CountedIn(kot', i)[k] = 0
      BY <1>1, <1>2, <2>1 DEF CountedIn, KOT_WITH_KITCHEN
    <3>2. g[k] = kot[k].quantity[i]
      BY <2>1
    <3> QED
      BY <1>4, <3>1, <3>2
  <2>2. CASE k \notin ks
    <3>1. CountedIn(kot, i)[k] = CountedIn(kot', i)[k]
      BY <1>2, <2>2 DEF CountedIn
    <3>2. g[k] = 0
      BY <2>2
    <3> QED
      BY <1>4, <3>1, <3>2
  <2> QED
    BY <2>1, <2>2
<1>9. Pulled(ks, i) = SumFunction(f)
  BY DEF Pulled
<1> HIDE DEF f, g
<1>10. SumFunction(f) = SumFunctionOnSet(g, Kots)
  BY <1>6, <1>7, SumOfSome
<1>11. Counted(i) = Counted(i)' + SumFunctionOnSet(g, Kots)
  BY <1>4, <1>8, SumPlus DEF Counted
<1>12. /\ Ticketed(i) = Counted(i) /\ Ticketed(i)' = Counted(i)'
       /\ Counted(i) \in Nat /\ Counted(i)' \in Nat
  BY TicketedIsCounted
<1>13. /\ Pulled(ks, i) \in Nat
       /\ item'[i].sent = IF item[i].sent >= Pulled(ks, i)
                          THEN item[i].sent - Pulled(ks, i) ELSE 0
  BY <1>2
<1>14. Counted(i) = Counted(i)' + Pulled(ks, i)
  BY <1>9, <1>10, <1>11
<1> HIDE DEF Counted
<1> QED
  BY <1>3, <1>12, <1>13, <1>14

LEMMA RowsInit == Init => RowsInv
<1> SUFFICES ASSUME Init PROVE RowsInv
  OBVIOUS
<1>1. item = [i \in Items |-> NoItem] /\ NoItem \in ItemRow /\ NoItem.order = NoOrder
  BY DEF Init, NoItem, ItemRow
<1>2. item \in [Items -> ItemRow] /\ LinesOnTheirTicketsOrder
  BY <1>1 DEF LinesOnTheirTicketsOrder
<1> QED
  BY <1>2, InitInv DEF RowsInv

LEMMA RowsStay == RowsInv /\ [Next]_vars => RowsInv'
<1>1. RowsInv /\ [Next]_vars => RestaurantInv'
  BY InvStep DEF RowsInv
<1>2. RowsInv /\ [Next]_vars => item' \in [Items -> ItemRow] /\ LinesOnTheirTicketsOrder'
  BY RowsStep DEF RowsKept
<1> QED
  BY <1>1, <1>2 DEF RowsInv

(***************************************************************************)
(* Every table of the restaurant keeps its type; no sent_quantity becomes  *)
(* negative, although split_order moves it and _pull_kot subtracts whole   *)
(* tickets, and no split leaves less than nothing of a line.               *)
(***************************************************************************)
THEOREM RestaurantTypeCorrect == Spec => []TypeOK
<1>1. RowsInv => TypeOK
  BY DEF RowsInv, RestaurantInv, FloorInv, TicketsInv, TypeOK
<1> QED
  BY <1>1, RowsInit, RowsStay, PTL DEF Spec

(***************************************************************************)
(* In a plan without table splitting, what a line counts as sent is what   *)
(* the tickets that were not cancelled hold of it: through rounds, merges, *)
(* cancelled tickets and releases, with or without foreign keys, also when *)
(* a request names a line twice.                                           *)
(***************************************************************************)
THEOREM SentIsOnTickets ==
    ASSUME "table_split" \notin Features PROVE Spec => []SentMatchesTickets
<1>1. Init => RowsInv /\ SentMatchesTickets
  <2>1. Init => \A i \in Items : item[i].order = NoOrder
    BY DEF Init, NoItem
  <2> QED
    BY <2>1, RowsInit DEF SentMatchesTickets
<1>2. RowsInv /\ SentMatchesTickets /\ [Next]_vars => (RowsInv /\ SentMatchesTickets)'
  BY RowsStay, RowsStep, SentStays, SentGrows, SentShrinks
<1> QED
  BY <1>1, <1>2, PTL DEF Spec

-----------------------------------------------------------------------------
(***************************************************************************)
(* The screens (module OrderScreen): presses made on screens read some     *)
(* time ago, served late, twice, or never, and the printing of tickets.    *)
(***************************************************************************)
Presses ==
  [kind : Kinds, n : 1..MaxInFlight, order : Orders \cup {NoOrder}, table : Tables \cup {NoTable},
   kots : SUBSET Kots, items : SUBSET Items, quantity : [Items -> 0..MaxQty],
   orders : SUBSET Orders, to : {"none", "preparing", "ready", "served", "printed", "failed"},
   cancel : BOOLEAN, till : BOOLEAN, says : SUBSET {"items", "kitchen"}]

\* What the handler may rely on, kind by kind.
Asks(r) ==
  /\ r.kind \in {"table", "delete", "open", "release", "transfer"} => r.table \in Tables
  /\ r.kind \in {"add", "kot", "bill", "transfer", "merge", "split"} => r.order \in Orders
  /\ r.kind = "release" => r.cancel = ("items" \in r.says)
  /\ r.kind = "quantity" => \A i \in r.items : r.quantity[i] > 0
  /\ r.kind = "status" => r.to \in {"preparing", "ready", "served"}
  /\ r.kind = "mark" => r.to \in {"printed", "failed"} /\ \E k \in Kots : r.kots = {k}

Issued(k) == kot[k].status # "none"

PressInv ==
  /\ IsFiniteSet(reqs) /\ Cardinality(reqs) <= MaxInFlight
  /\ \A r \in reqs : r \in Presses /\ Asks(r) /\ \A k \in r.kots : Issued(k)
  /\ calls \in 0..MaxCalls

\* The stamp of a press is all that a join changes of it.
LEMMA Restamped ==
    ASSUME NEW r \in Presses, Asks(r), NEW m \in 1..MaxInFlight
    PROVE  LET q == [r EXCEPT !.n = m]
           IN q \in Presses /\ Asks(q) /\ q.n = m /\ q.kots = r.kots /\ q.kind = r.kind /\ q.to = r.to
<1> DEFINE q == [r EXCEPT !.n = m]
<1>1. /\ q \in Presses /\ q.n = m
      /\ q.kind = r.kind /\ q.table = r.table /\ q.order = r.order /\ q.cancel = r.cancel
      /\ q.says = r.says /\ q.items = r.items /\ q.quantity = r.quantity /\ q.to = r.to
      /\ q.kots = r.kots
  BY DEF Presses
<1> HIDE DEF q
<1>2. Asks(q)
  BY <1>1 DEF Asks
<1> USE DEF q
<1> QED
  BY <1>1, <1>2, Zenon

\* There is always a stamp left: no press is taken for one under way.
LEMMA Joins ==
    ASSUME NEW rs, IsFiniteSet(rs), Cardinality(rs) < MaxInFlight, NEW r \in Presses
    PROVE  \E m \in 1..MaxInFlight : /\ Joined(rs, r) = rs \cup {[r EXCEPT !.n = m]}
                                     /\ [r EXCEPT !.n = m] \notin rs
<1> USE OrderScreenAssumption
<1> DEFINE Stamp == [m \in 1..MaxInFlight |-> [r EXCEPT !.n = m]]
<1>1. \E m \in 1..MaxInFlight : Stamp[m] \notin rs
  <2> SUFFICES ASSUME \A m \in 1..MaxInFlight : Stamp[m] \in rs PROVE FALSE
    OBVIOUS
  <2>1. \A m \in 1..MaxInFlight : Stamp[m].n = m
    BY DEF Presses
  <2> HIDE DEF Stamp
  <2>2. Stamp \in [1..MaxInFlight -> rs]
    BY DEF Stamp
  <2>3. IsInjective(Stamp)
    BY <2>1, <2>2 DEF IsInjective
  <2>4. Cardinality(1..MaxInFlight) = MaxInFlight /\ IsFiniteSet(1..MaxInFlight)
    BY FS_Interval
  <2>5. Stamp \in Injection(1..MaxInFlight, rs)
    BY <2>2, <2>3 DEF Injection
  <2>6. Cardinality(1..MaxInFlight) <= Cardinality(rs)
    BY <2>5, FS_Injection
  <2> QED
    BY <2>4, <2>6, FS_CardinalityType
<1> DEFINE m == CHOOSE m \in 1..MaxInFlight : [r EXCEPT !.n = m] \notin rs
<1>2. m \in 1..MaxInFlight /\ [r EXCEPT !.n = m] \notin rs
  BY <1>1, Zenon
<1>3. Joined(rs, r) = rs \cup {[r EXCEPT !.n = m]}
  BY DEF Joined
<1> QED
  BY <1>2, <1>3

LEMMA PressIs ==
    ASSUME NEW kind \in Kinds, MaxInFlight > 0
    PROVE  Press(kind) \in Presses
BY OrderScreenAssumption, RestaurantAssumption DEF Press, Presses

Sending ==
  \E r \in Presses : /\ Asks(r) /\ r.kind # "mark" /\ \A k \in r.kots : Issued(k)
                     /\ Send(r)

\* Each button sends a press whose handler may rely on what it asks.
LEMMA TablePressed ==
    ASSUME NEW t \in Tables, addTable(t) \/ removeTable(t) \/ handleSelect(t) \/ releaseTable(t),
           MaxInFlight > 0
    PROVE  Sending
<1>1. ASSUME NEW kind \in {"table", "delete", "open"}, Send([Press(kind) EXCEPT !.table = t])
      PROVE  Sending
  <2>1. Press(kind) \in Presses
    BY PressIs DEF Kinds
  <2>2. PICK r : r = [Press(kind) EXCEPT !.table = t]
    OBVIOUS
  <2>3. r \in Presses /\ r.kind = kind /\ r.table = t /\ r.kots = {}
    BY <2>1, <2>2 DEF Presses, Press
  <2>4. Asks(r)
    BY <2>3 DEF Asks
  <2> QED
    BY <1>1, <2>2, <2>3, <2>4 DEF Sending
<1>2. ASSUME releaseTable(t) PROVE Sending
  <2> DEFINE said == AtStake(t)
             c == "items" \in said
  <2>1. said \in SUBSET {"items", "kitchen"} /\ c \in BOOLEAN
    BY DEF AtStake
  <2>2. Press("release") \in Presses
    BY PressIs DEF Kinds
  <2>3. PICK r : r = [Press("release") EXCEPT !.table = t, !.cancel = c, !.says = said] /\ Send(r)
    BY <1>2 DEF releaseTable
  <2>4. c = ("items" \in said)
    OBVIOUS
  <2> HIDE DEF said, c
  <2>5. r \in Presses /\ r.kind = "release" /\ r.table = t /\ r.kots = {} /\ r.cancel = c
        /\ r.says = said
    BY <2>1, <2>2, <2>3 DEF Presses, Press
  <2>6. Asks(r)
    BY <2>4, <2>5 DEF Asks
  <2> QED
    BY <2>3, <2>5, <2>6 DEF Sending
<1> QED
  BY <1>1, <1>2 DEF addTable, removeTable, handleSelect

LEMMA LinePressed ==
    ASSUME NEW i \in Items, item[i].order \in Orders \cup {NoOrder},
           removeItem(i) \/ changeQuantity(i), MaxInFlight > 0
    PROVE  Sending
<1> DEFINE o == item[i].order
<1> HIDE DEF o
<1>1. o \in Orders
  BY DEF removeItem, changeQuantity, o
<1>2. \A j \in orderItemForProduct(i) : j \in Items
  BY DEF orderItemForProduct, ItemsOf
<1>3. CASE removeItem(i)
  <2>1. PICK j \in Items : Send([Press("remove") EXCEPT !.order = o, !.items = {j}])
    BY <1>2, <1>3 DEF removeItem, o
  <2>2. PICK r : r = [Press("remove") EXCEPT !.order = o, !.items = {j}]
    OBVIOUS
  <2>3. Press("remove") \in Presses
    BY PressIs DEF Kinds
  <2>4. r \in Presses /\ r.kind = "remove" /\ r.kots = {}
    BY <1>1, <2>2, <2>3 DEF Presses, Press
  <2>5. Asks(r)
    BY <2>4 DEF Asks
  <2> QED
    BY <2>1, <2>2, <2>4, <2>5 DEF Sending
<1>4. CASE changeQuantity(i)
  <2>1. PICK j \in Items, n \in 1..MaxQty :
           Send([Press("quantity") EXCEPT !.order = o, !.items = {j}, !.quantity = [@ EXCEPT ![j] = n]])
    BY <1>2, <1>4 DEF changeQuantity, o
  <2>2. PICK r : r = [Press("quantity") EXCEPT !.order = o, !.items = {j},
                                               !.quantity = [@ EXCEPT ![j] = n]]
    OBVIOUS
  <2>3. Press("quantity") \in Presses /\ Press("quantity").quantity \in [Items -> 0..MaxQty]
    BY PressIs DEF Kinds, Presses
  <2>4. r \in Presses /\ r.kind = "quantity" /\ r.kots = {} /\ r.items = {j} /\ r.quantity[j] = n
    <3> DEFINE q == [Press("quantity").quantity EXCEPT ![j] = n]
    <3>1. q \in [Items -> 0..MaxQty] /\ q[j] = n
      BY <2>3
    <3> HIDE DEF q
    <3>2. r = [Press("quantity") EXCEPT !.order = o, !.items = {j}, !.quantity = q]
      BY <2>2 DEF q
    <3> QED
      BY <1>1, <2>3, <3>1, <3>2 DEF Presses, Press
  <2>5. Asks(r)
    BY <2>4 DEF Asks
  <2> QED
    BY <2>1, <2>2, <2>4, <2>5 DEF Sending
<1> QED
  BY <1>3, <1>4

LEMMA TicketPressed ==
    ASSUME NEW k \in Kots, reprintKot(k) \/ cancelKot(k) \/ advance(k), MaxInFlight > 0
    PROVE  Sending
<1>1. Issued(k)
  BY DEF reprintKot, cancelKot, advance, KOT_WITH_KITCHEN, Issued
<1>2. ASSUME NEW kind \in {"print", "cancel"}, Send([Press(kind) EXCEPT !.kots = {k}])
      PROVE  Sending
  <2>1. Press(kind) \in Presses
    BY PressIs DEF Kinds
  <2>2. PICK r : r = [Press(kind) EXCEPT !.kots = {k}]
    OBVIOUS
  <2>3. r \in Presses /\ r.kind = kind /\ r.kots = {k}
    BY <2>1, <2>2 DEF Presses, Press
  <2>4. Asks(r)
    BY <2>3 DEF Asks
  <2> QED
    BY <1>1, <1>2, <2>2, <2>3, <2>4 DEF Sending
<1>3. ASSUME advance(k) PROVE Sending
  <2> DEFINE to == NextStatus(kot[k].status)
  <2>1. to \in {"preparing", "ready", "served"}
    BY <1>3 DEF advance, NextStatus, KOT_WITH_KITCHEN
  <2>2. PICK r : r = [Press("status") EXCEPT !.kots = {k}, !.to = to] /\ Send(r)
    BY <1>3 DEF advance
  <2> HIDE DEF to
  <2>3. Press("status") \in Presses
    BY PressIs DEF Kinds
  <2>4. r \in Presses /\ r.kind = "status" /\ r.kots = {k} /\ r.to = to
    BY <2>1, <2>2, <2>3 DEF Presses, Press
  <2>5. Asks(r)
    BY <2>1, <2>4 DEF Asks
  <2> QED
    BY <1>1, <2>2, <2>4, <2>5 DEF Sending
<1> QED
  BY <1>2, <1>3 DEF reprintKot, cancelKot

LEMMA OrderPressed ==
    ASSUME NEW o \in Orders,
           \/ addItem(o) \/ clearOrder(o) \/ sendKot(o) \/ billOrder(o)
           \/ transferOrder(o) \/ mergeOrders(o) \/ splitOrder(o),
           MaxInFlight > 0
    PROVE  Sending
<1>1. ASSUME NEW kind \in {"add", "bill"}, Send([Press(kind) EXCEPT !.order = o])
      PROVE  Sending
  <2>1. Press(kind) \in Presses
    BY PressIs DEF Kinds
  <2>2. PICK r : r = [Press(kind) EXCEPT !.order = o]
    OBVIOUS
  <2>3. r \in Presses /\ r.kind = kind /\ r.order = o /\ r.kots = {}
    BY <2>1, <2>2 DEF Presses, Press
  <2>4. Asks(r)
    BY <2>3 DEF Asks
  <2> QED
    BY <1>1, <2>2, <2>3, <2>4 DEF Sending
<1>2. CASE clearOrder(o)
  <2>1. PICK r : r = [Press("remove") EXCEPT !.order = o, !.items = ItemsOf(o)] /\ Send(r)
    BY <1>2 DEF clearOrder
  <2>2. Press("remove") \in Presses
    BY PressIs DEF Kinds
  <2>3. ItemsOf(o) \in SUBSET Items
    BY DEF ItemsOf
  <2>4. r \in Presses /\ r.kind = "remove" /\ r.kots = {}
    BY <2>1, <2>2, <2>3 DEF Presses, Press
  <2>5. Asks(r)
    BY <2>4 DEF Asks
  <2> QED
    BY <2>1, <2>4, <2>5 DEF Sending
<1>3. CASE sendKot(o)
  <2>1. PICK till \in BOOLEAN : Send([Press("kot") EXCEPT !.order = o, !.till = till])
    BY <1>3 DEF sendKot
  <2>2. PICK r : r = [Press("kot") EXCEPT !.order = o, !.till = till]
    OBVIOUS
  <2>3. Press("kot") \in Presses
    BY PressIs DEF Kinds
  <2>4. r \in Presses /\ r.kind = "kot" /\ r.order = o /\ r.kots = {}
    BY <2>1, <2>2, <2>3 DEF Presses, Press
  <2>5. Asks(r)
    BY <2>4 DEF Asks
  <2> QED
    BY <2>1, <2>2, <2>4, <2>5 DEF Sending
<1>4. CASE transferOrder(o)
  <2>1. PICK t \in freeTables : Send([Press("transfer") EXCEPT !.order = o, !.table = t])
    BY <1>4 DEF transferOrder
  <2>2. PICK r : r = [Press("transfer") EXCEPT !.order = o, !.table = t]
    OBVIOUS
  <2>3. Press("transfer") \in Presses
    BY PressIs DEF Kinds
  <2>4. t \in Tables
    BY <2>1 DEF freeTables
  <2>5. r \in Presses /\ r.kind = "transfer" /\ r.order = o /\ r.table = t /\ r.kots = {}
    BY <2>2, <2>3, <2>4 DEF Presses, Press
  <2>6. Asks(r)
    BY <2>4, <2>5 DEF Asks
  <2> QED
    BY <2>1, <2>2, <2>5, <2>6 DEF Sending
<1>5. CASE mergeOrders(o)
  <2>1. PICK S \in SUBSET Orders : Send([Press("merge") EXCEPT !.order = o, !.orders = S])
    BY <1>5 DEF mergeOrders
  <2>2. PICK r : r = [Press("merge") EXCEPT !.order = o, !.orders = S]
    OBVIOUS
  <2>3. Press("merge") \in Presses
    BY PressIs DEF Kinds
  <2>4. r \in Presses /\ r.kind = "merge" /\ r.order = o /\ r.kots = {}
    BY <2>1, <2>2, <2>3 DEF Presses, Press
  <2>5. Asks(r)
    BY <2>4 DEF Asks
  <2> QED
    BY <2>1, <2>2, <2>4, <2>5 DEF Sending
<1>6. CASE splitOrder(o)
  <2>1. PICK q \in [Items -> 0..MaxQty], t \in freeTables \union {NoTable} :
           Send([Press("split") EXCEPT !.order = o, !.table = t, !.quantity = q])
    BY <1>6 DEF splitOrder
  <2>2. PICK r : r = [Press("split") EXCEPT !.order = o, !.table = t, !.quantity = q]
    OBVIOUS
  <2>3. Press("split") \in Presses
    BY PressIs DEF Kinds
  <2>4. t \in Tables \cup {NoTable}
    BY <2>1 DEF freeTables
  <2>5. r \in Presses /\ r.kind = "split" /\ r.order = o /\ r.kots = {}
    BY <2>2, <2>3, <2>4 DEF Presses, Press
  <2>6. Asks(r)
    BY <2>5 DEF Asks
  <2> QED
    BY <2>1, <2>2, <2>5, <2>6 DEF Sending
<1> QED
  BY <1>1, <1>2, <1>3, <1>4, <1>5, <1>6 DEF addItem, billOrder
-----------------------------------------------------------------------------
\* A line of an order: never more sent than ordered, and a line of nothing is no line.
LineRows == [order : Orders \cup {NoOrder}, quantity : 0..MaxQty, sent : 0..MaxQty]
Ordered(r) == r.sent <= r.quantity /\ (r.order = NoOrder <=> r.quantity = 0)
LinesBounded == item \in [Items -> LineRows] /\ \A i \in Items : Ordered(item[i])

\* What is unsent of an order is a request create_kot can be sent.
LEMMA UnsentFits ==
    ASSUME LinesBounded, NEW o
    PROVE  /\ Unsent(o) \in [Items -> 0..MaxQty]
           /\ Unsent(o) \in [Items -> 0..(MaxRepeats * MaxQty)]
<1> USE RestaurantAssumption
<1>1. ASSUME NEW i \in Items PROVE Unsent(o)[i] \in 0..MaxQty
  <2>1. item[i] \in LineRows /\ Ordered(item[i])
    BY DEF LinesBounded
  <2>2. item[i].quantity \in 0..MaxQty /\ item[i].sent \in 0..MaxQty
        /\ item[i].sent <= item[i].quantity
    BY <2>1 DEF LineRows, Ordered
  <2>3. Unsent(o)[i] = IF i \in ItemsOf(o) THEN item[i].quantity - item[i].sent ELSE 0
    BY DEF Unsent
  <2> QED
    BY <2>2, <2>3
<1>2. Unsent(o) \in [Items -> 0..MaxQty]
  BY <1>1 DEF Unsent
<1>3. MaxQty <= MaxRepeats * MaxQty
  <2>1. PICK c \in Nat : MaxRepeats = 1 + c
    <3>1. MaxRepeats - 1 \in Nat /\ MaxRepeats = 1 + (MaxRepeats - 1)
      OBVIOUS
    <3> QED
      BY <3>1
  <2>2. MaxRepeats * MaxQty = MaxQty + c * MaxQty /\ c * MaxQty >= 0
    BY <2>1
  <2> QED
    BY <2>2
<1>4. 0..MaxQty \subseteq 0..(MaxRepeats * MaxQty)
  BY <1>3
<1> QED
  BY <1>2, <1>4

(***************************************************************************)
(* Serving a press is a step of module Restaurant.                         *)
(***************************************************************************)
LEMMA ServingIsService ==
    ASSUME LinesBounded, PressInv, NEW r \in reqs, Serve(r)
    PROVE  Next
<1> USE RestaurantAssumption
<1>1. r \in Presses /\ Asks(r)
  BY DEF PressInv
<1>2. /\ r.kots \in SUBSET Kots /\ r.items \in SUBSET Items /\ r.orders \in SUBSET Orders
      /\ r.quantity \in [Items -> 0..MaxQty] /\ r.cancel \in BOOLEAN
      /\ r.table \in Tables \cup {NoTable}
  BY <1>1 DEF Presses
<1>3. CASE r.kind = "table" /\ CreateTable(r.table)
  BY <1>1, <1>3 DEF Next, Asks
<1>4. CASE r.kind = "delete" /\ DeleteTable(r.table)
  BY <1>1, <1>4 DEF Next, Asks
<1>5. CASE r.kind = "open" /\ \E o \in Orders : CreateOrder(o, r.table, << >>)
  <2>1. << >> \in [{} -> 1..MaxQty] /\ {} \in SUBSET Fresh
    OBVIOUS
  <2>2. << >> \in NewLines
    BY <2>1 DEF NewLines
  <2> QED
    BY <1>2, <1>5, <2>2 DEF Next
<1>6. CASE r.kind = "release" /\ ReleaseTable(r.table, r.cancel)
  BY <1>1, <1>2, <1>6 DEF Next, Asks
<1>7. CASE r.kind = "add" /\ \E i \in Fresh : AddItems(r.order, [x \in {i} |-> 1])
  <2>1. PICK i \in Fresh : AddItems(r.order, [x \in {i} |-> 1])
    BY <1>7
  <2>2. [x \in {i} |-> 1] \in [{i} -> 1..MaxQty] /\ {i} \in SUBSET Fresh
    OBVIOUS
  <2>3. [x \in {i} |-> 1] \in NewLines
    BY <2>2 DEF NewLines
  <2>4. r.order \in Orders
    BY <1>1, <1>7 DEF Asks
  <2> QED
    BY <2>1, <2>3, <2>4 DEF Next
<1>8. CASE r.kind = "quantity" /\ \E i \in r.items \cap ItemsOf(r.order) :
             UpdateItem(i, r.quantity[i])
  <2>1. PICK i \in r.items : UpdateItem(i, r.quantity[i])
    BY <1>8
  <2>2. i \in Items /\ r.quantity[i] > 0
    BY <1>1, <1>2, <1>8 DEF Asks
  <2>3. r.quantity[i] \in 1..MaxQty
    BY <1>2, <2>2
  <2> QED
    BY <2>1, <2>2, <2>3 DEF Next
<1>9. CASE r.kind = "remove" /\ \E i \in r.items \cap ItemsOf(r.order) : RemoveItem(i)
  BY <1>2, <1>9 DEF Next
<1>10. CASE r.kind = "kot" /\ \E k \in Kots : CreateKot(k, r.order, Unsent(r.order))
  <2>1. Unsent(r.order) \in [Items -> 0..(MaxRepeats * MaxQty)]
    BY UnsentFits
  <2>2. r.order \in Orders
    BY <1>1, <1>10 DEF Asks
  <2> QED
    BY <1>10, <2>1, <2>2 DEF Next
<1>11. CASE r.kind = "status" /\ \E k \in r.kots : SetKotStatus(k, r.to)
  BY <1>1, <1>2, <1>11 DEF Next, Asks
<1>12. CASE r.kind = "cancel" /\ \E k \in r.kots : CancelKot(k)
  BY <1>2, <1>12 DEF Next
<1>13. CASE r.kind = "bill" /\ BillOrder(r.order)
  BY <1>1, <1>13 DEF Next, Asks
<1>14. CASE r.kind = "transfer" /\ TransferOrder(r.order, r.table)
  BY <1>1, <1>14 DEF Next, Asks
<1>15. CASE r.kind = "merge" /\ MergeOrders(r.order, r.orders)
  BY <1>1, <1>2, <1>15 DEF Next, Asks
<1>16. ASSUME NEW n \in Orders, r.kind = "split",
              NEW chosen, chosen = [i \in {x \in Items : r.quantity[x] > 0} |-> r.quantity[i]],
              NEW copy \in Injection(DOMAIN chosen, Fresh),
              SplitOrder(r.order, n, r.table, chosen, copy)
       PROVE  Next
  <2>1. r.order \in Orders
    BY <1>1, <1>16 DEF Asks
  <2>2. DOMAIN chosen \subseteq ItemsOf(r.order)
    BY <1>16 DEF SplitOrder
  <2>3. chosen \in [DOMAIN chosen -> 1..MaxQty]
    BY <1>2, <1>16
  <2>4. chosen \in UNION {[S -> 1..MaxQty] : S \in SUBSET ItemsOf(r.order)}
    BY <2>2, <2>3
  <2> QED
    BY <1>2, <1>16, <2>1, <2>4 DEF Next
<1> QED
  BY <1>3, <1>4, <1>5, <1>6, <1>7, <1>8, <1>9, <1>10, <1>11, <1>12, <1>13, <1>14, <1>15, <1>16
     DEF Serve

(***************************************************************************)
(* A ticket that was issued stays issued.                                  *)
(***************************************************************************)
LEMMA IssuedStay ==
    ASSUME TicketsInv, [Next]_vars
    PROVE  \A k \in Kots : Issued(k) => Issued(k)'
<1> DEFINE Goal == \A k \in Kots : Issued(k) => Issued(k)'
<1>1. ASSUME kot' = kot PROVE Goal
  BY <1>1 DEF Issued
<1>2. ASSUME NEW ks, PullKots(ks) PROVE Goal
  <2> SUFFICES ASSUME NEW k \in Kots, Issued(k) PROVE kot'[k].status # "none"
    BY DEF Issued
  <2>1. PICK w \in KotRow : w = kot[k]
    BY DEF TicketsInv
  <2>2. kot'[k] = IF k \in ks THEN [w EXCEPT !.status = "cancelled"] ELSE w
    BY <1>2, <2>1 DEF PullKots
  <2>3. [w EXCEPT !.status = "cancelled"].status = "cancelled"
    BY DEF KotRow
  <2> QED
    BY <2>1, <2>2, <2>3 DEF Issued
<1>3. ASSUME NEW o, NEW S, kot' = TicketsMoved(o, S) PROVE Goal
  <2> SUFFICES ASSUME NEW k \in Kots, Issued(k) PROVE kot'[k].status # "none"
    BY DEF Issued
  <2>1. PICK w \in KotRow : w = kot[k]
    BY DEF TicketsInv
  <2>2. kot'[k] = IF w.order \in S THEN [w EXCEPT !.order = o] ELSE w
    BY <1>3, <2>1 DEF TicketsMoved
  <2>3. [w EXCEPT !.order = o].status = w.status
    BY DEF KotRow
  <2> QED
    BY <2>1, <2>2, <2>3 DEF Issued
<1>4. ASSUME NEW k \in Kots, NEW o \in Orders, NEW q \in [Items -> 0..(MaxRepeats * MaxQty)],
             CreateKot(k, o, q)
      PROVE  Goal
  BY <1>4 DEF CreateKot, Issued, TicketsInv
<1>5. ASSUME NEW k \in Kots, NEW s \in {"preparing", "ready", "served"}, SetKotStatus(k, s)
      PROVE  Goal
  <2> SUFFICES ASSUME NEW l \in Kots, Issued(l) PROVE kot'[l].status # "none"
    BY DEF Issued
  <2>1. PICK w \in KotRow : w = kot[k]
    BY DEF TicketsInv
  <2>2. kot' = [kot EXCEPT ![k] = [w EXCEPT !.status = s]]
    BY <1>5, <2>1 DEF SetKotStatus
  <2>3. [w EXCEPT !.status = s].status = s
    BY DEF KotRow
  <2>4. kot'[l] = IF l = k THEN [w EXCEPT !.status = s] ELSE kot[l]
    BY <2>2 DEF TicketsInv
  <2> QED
    BY <2>3, <2>4 DEF Issued
<1>6. ASSUME NEW k \in Kots, CancelKot(k) PROVE Goal
  BY <1>2, <1>6 DEF CancelKot
<1>7. ASSUME NEW t \in Tables, NEW c \in BOOLEAN, ReleaseTable(t, c) PROVE Goal
  BY <1>2, <1>7 DEF ReleaseTable
<1>8. ASSUME NEW o \in Orders, NEW S \in SUBSET Orders, MergeOrders(o, S) PROVE Goal
  BY <1>3, <1>8 DEF MergeOrders
<1>9. ASSUME NEW t \in Tables, CreateTable(t) \/ DeleteTable(t) PROVE Goal
  BY <1>1, <1>9 DEF CreateTable, DeleteTable
<1>10. ASSUME NEW t \in Tables, NEW s \in {"available", "reserved", "cleaning"}, SetTableStatus(t, s)
       PROVE  Goal
  BY <1>1, <1>10 DEF SetTableStatus
<1>11. ASSUME NEW o \in Orders, NEW t \in Tables \cup {NoTable}, NEW lines \in NewLines,
              CreateOrder(o, t, lines)
       PROVE  Goal
  BY <1>1, <1>11 DEF CreateOrder
<1>12. ASSUME NEW o \in Orders, NEW lines \in NewLines, AddItems(o, lines) PROVE Goal
  BY <1>1, <1>12 DEF AddItems
<1>13. ASSUME NEW o \in Orders, NEW t \in Tables, NEW lines \in NewLines, OpenTableOrder(o, t, lines)
       PROVE  Goal
  BY <1>1, <1>13 DEF OpenTableOrder, CreateOrder, AddItems
<1>14. ASSUME NEW i \in Items, RemoveItem(i) PROVE Goal
  BY <1>1, <1>14 DEF RemoveItem
<1>15. ASSUME NEW i \in Items, NEW q \in 1..MaxQty, UpdateItem(i, q) PROVE Goal
  BY <1>1, <1>15 DEF UpdateItem
<1>16. ASSUME NEW o \in Orders, CancelOrder(o) \/ BillOrder(o) PROVE Goal
  BY <1>1, <1>16 DEF CancelOrder, BillOrder
<1>17. ASSUME NEW o \in Orders, NEW t \in Tables, TransferOrder(o, t) PROVE Goal
  BY <1>1, <1>17 DEF TransferOrder
<1>18. ASSUME NEW o \in Orders, NEW n \in Orders, NEW t \in Tables \cup {NoTable},
              NEW chosen \in UNION {[S -> 1..MaxQty] : S \in SUBSET ItemsOf(o)},
              NEW copy \in Injection(DOMAIN chosen, Fresh), SplitOrder(o, n, t, chosen, copy)
       PROVE  Goal
  BY <1>1, <1>18 DEF SplitOrder
<1> HIDE DEF Goal
<1>19. ASSUME Next PROVE Goal
  <2>1. CASE \E o, n \in Orders, t \in Tables \cup {NoTable} :
               \E chosen \in UNION {[S -> 1..MaxQty] : S \in SUBSET ItemsOf(o)} :
               \E copy \in Injection(DOMAIN chosen, Fresh) : SplitOrder(o, n, t, chosen, copy)
    BY <1>18, <2>1, Zenon
  <2>2. CASE \E k \in Kots, o \in Orders :
               \E quantity \in [Items -> 0..(MaxRepeats * MaxQty)] : CreateKot(k, o, quantity)
    BY <1>4, <2>2, Zenon
  <2>3. CASE \/ \E o \in Orders, t \in Tables \cup {NoTable}, lines \in NewLines :
                  CreateOrder(o, t, lines)
             \/ \E o \in Orders, lines \in NewLines : AddItems(o, lines)
             \/ \E o \in Orders, t \in Tables, lines \in NewLines : OpenTableOrder(o, t, lines)
    BY <1>11, <1>12, <1>13, <2>3, Zenon
  <2> QED
    BY <1>5, <1>6, <1>7, <1>8, <1>9, <1>10, <1>14, <1>15, <1>16, <1>17, <1>19,
       <2>1, <2>2, <2>3, Zenon DEF Next
<1> QED
  BY <1>1, <1>19 DEF vars, Goal
-----------------------------------------------------------------------------
\* Units of food on the tickets that still count, and on the lines as sent.
Fired == [k \in Kots |-> IF Dead(k) THEN 0 ELSE SumFunctionOnSet(kot[k].quantity, Items)]
Sent == [i \in Items |-> item[i].sent]

FoodInv == LinesBounded /\ SumFunctionOnSet(Fired, Kots) <= SumFunctionOnSet(Sent, Items)

\* Both sums are over numbers.
LEMMA FiredIsCounted ==
    ASSUME TicketsInv
    PROVE  /\ \A k \in Kots : SumFunctionOnSet(kot[k].quantity, Items) \in Nat
           /\ \A k \in Kots : Fired[k] \in Nat
           /\ SumFunctionOnSet(Fired, Kots) \in Nat
<1> USE RestaurantAssumption, OrderScreenAssumption
<1>1. ASSUME NEW k \in Kots PROVE SumFunctionOnSet(kot[k].quantity, Items) \in Nat
  <2>1. kot[k] \in KotRow
    BY DEF TicketsInv
  <2>2. \A i \in Items : kot[k].quantity[i] \in Nat
    BY <2>1 DEF KotRow
  <2> QED
    BY <2>2, SumNat
<1>2. \A k \in Kots : Fired[k] \in Nat
  BY <1>1 DEF Fired
<1> QED
  BY <1>1, <1>2, SumNat

LEMMA SentIsCounted ==
    ASSUME LinesBounded
    PROVE  /\ \A i \in Items : Sent[i] \in Nat /\ Sent[i] = item[i].sent
           /\ SumFunctionOnSet(Sent, Items) \in Nat
<1> USE RestaurantAssumption, OrderScreenAssumption
<1>1. ASSUME NEW i \in Items PROVE Sent[i] \in Nat /\ Sent[i] = item[i].sent
  <2>1. item[i] \in LineRows
    BY DEF LinesBounded
  <2>2. item[i].sent \in 0..MaxQty
    BY <2>1 DEF LineRows
  <2> QED
    BY <2>2 DEF Sent
<1> QED
  BY <1>1, SumNat

\* What counts as sent stays as it was, and so do the tickets that count.
LEMMA FoodSteady ==
    ASSUME FoodInv, TicketsInv, LinesBounded', \A i \in Items : item'[i].sent = item[i].sent,
           \A k \in Kots : (Dead(k)' <=> Dead(k)) /\ kot'[k].quantity = kot[k].quantity
    PROVE  FoodInv'
<1> USE RestaurantAssumption, OrderScreenAssumption
<1>1. \A k \in Kots : Fired'[k] = Fired[k]
  BY DEF Fired
<1>2. \A i \in Items : Sent'[i] = Sent[i]
  BY DEF Sent
<1>3. SumFunctionOnSet(Fired', Kots) = SumFunctionOnSet(Fired, Kots)
  BY <1>1, SumSame
<1>4. SumFunctionOnSet(Sent', Items) = SumFunctionOnSet(Sent, Items)
  BY <1>2, SumSame
<1> QED
  BY <1>3, <1>4 DEF FoodInv

(***************************************************************************)
(* _pull_kot takes no more off the lines than it takes off the tickets:     *)
(* the sums over lines and over tickets are the same table added up by      *)
(* rows and by columns, and a line that moved on gives back nothing.        *)
(***************************************************************************)
LEMMA FoodPulled ==
    ASSUME FoodInv, TicketsInv, TicketsInv', NEW ks \in SUBSET Kots, PullKots(ks),
           \A k \in ks : kot[k].status \in KOT_WITH_KITCHEN
    PROVE  FoodInv'
<1> USE RestaurantAssumption, OrderScreenAssumption
<1>k. IsFiniteSet(ks) /\ IsFiniteSet(Items) /\ IsFiniteSet(Kots)
  BY FS_Subset
<1>q. \A k \in Kots : \A i \in Items : kot[k].quantity[i] \in Nat
  <2> SUFFICES ASSUME NEW k \in Kots PROVE \A i \in Items : kot[k].quantity[i] \in Nat
    OBVIOUS
  <2>1. kot[k] \in KotRow
    BY DEF TicketsInv
  <2> QED
    BY <2>1 DEF KotRow
<1> DEFINE col == [i \in Items |-> [k \in ks |-> kot[k].quantity[i]]]
           rows == [k \in ks |-> kot[k].quantity]
           a == [k \in ks |-> SumFunctionOnSet(kot[k].quantity, Items)]
           b == [i \in Items |-> SumFunctionOnSet(col[i], ks)]
           drop == [k \in Kots |-> IF k \in ks THEN a[k] ELSE 0]
\* What a line loses is at most what the pulled tickets hold of it.
<1>1. ASSUME NEW i \in Items
      PROVE  Pulled(ks, i) \in Nat /\ b[i] \in Nat /\ Pulled(ks, i) <= b[i]
  <2> DEFINE mine == {l \in ks : kot[l].order = item[i].order}
             f == [k \in mine |-> kot[k].quantity[i]]
             g == [k \in ks |-> IF k \in mine THEN kot[k].quantity[i] ELSE 0]
             h == col[i]
  <2>1. DOMAIN f = mine /\ mine \subseteq ks
    OBVIOUS
  <2>2. \A k \in DOMAIN f : f[k] \in Int
    BY <1>q
  <2>3. \A k \in ks : g[k] = IF k \in DOMAIN f THEN f[k] ELSE 0
    OBVIOUS
  <2>4. \A k \in ks : g[k] \in Nat /\ h[k] \in Nat /\ g[k] <= h[k]
    BY <1>q
  <2>5. Pulled(ks, i) = SumFunction(f) /\ b[i] = SumFunctionOnSet(h, ks)
    BY DEF Pulled
  <2> HIDE DEF f, g, h, mine
  <2>6. SumFunction(f) = SumFunctionOnSet(g, ks)
    BY <1>k, <2>1, <2>2, <2>3, SumOfSome
  <2>7. SumFunctionOnSet(g, ks) \in Nat /\ SumFunctionOnSet(h, ks) \in Nat
    BY <1>k, <2>4, SumNat
  <2>8. SumFunctionOnSet(g, ks) <= SumFunctionOnSet(h, ks)
    <3>1. \A k \in ks : g[k] \in Int /\ h[k] \in Int /\ g[k] <= h[k]
      BY <2>4
    <3> QED
      BY <1>k, <3>1, SumAtMost
  <2> QED
    BY <2>5, <2>6, <2>7, <2>8
\* Over all lines, that is what the pulled tickets hold.
<1>2. SumFunctionOnSet(a, ks) = SumFunctionOnSet(b, Items)
  <2>1. \A k \in ks : \A i \in Items : rows[k][i] \in Int /\ col[i][k] = rows[k][i]
    BY <1>q
  <2>2. \A k \in ks : a[k] = SumFunctionOnSet(rows[k], Items)
    OBVIOUS
  <2>3. \A i \in Items : b[i] = SumFunctionOnSet(col[i], ks)
    OBVIOUS
  <2>4. DOMAIN col = Items /\ DOMAIN a = ks
    OBVIOUS
  <2> HIDE DEF a, b, col, rows
  <2> QED
    BY <1>k, <2>1, <2>2, <2>3, <2>4, SumSwap
<1>3. \A k \in Kots : /\ Fired[k] \in Int /\ Fired'[k] \in Int /\ drop[k] \in Int
                      /\ Fired[k] = Fired'[k] + drop[k]
  <2> SUFFICES ASSUME NEW k \in Kots
               PROVE  /\ Fired[k] \in Int /\ Fired'[k] \in Int /\ drop[k] \in Int
                      /\ Fired[k] = Fired'[k] + drop[k]
    OBVIOUS
  <2>1. PICK w \in KotRow : w = kot[k]
    BY DEF TicketsInv
  <2>2. kot'[k] = IF k \in ks THEN [w EXCEPT !.status = "cancelled"] ELSE w
    BY <2>1 DEF PullKots
  <2>3. [w EXCEPT !.status = "cancelled"].status = "cancelled"
    BY DEF KotRow
  <2>4. SumFunctionOnSet(kot[k].quantity, Items) \in Nat
    BY FiredIsCounted
  <2>5. CASE k \in ks
    <3>1. Dead(k)' /\ ~Dead(k)
      BY <2>1, <2>2, <2>3, <2>5 DEF Dead, KOT_WITH_KITCHEN
    <3>2. Fired'[k] = 0 /\ Fired[k] = SumFunctionOnSet(kot[k].quantity, Items)
      BY <3>1 DEF Fired
    <3>3. drop[k] = SumFunctionOnSet(kot[k].quantity, Items)
      BY <2>5
    <3> QED
      BY <2>4, <3>2, <3>3
  <2>6. CASE k \notin ks
    <3>1. kot'[k] = kot[k]
      BY <2>1, <2>2, <2>6
    <3>2. Fired'[k] = Fired[k] /\ Fired[k] \in Int
      BY <2>4, <3>1 DEF Fired, Dead
    <3>3. drop[k] = 0
      BY <2>6
    <3> QED
      BY <3>2, <3>3
  <2> QED
    BY <2>5, <2>6
<1>4. \A k \in ks : a[k] \in Int /\ drop[k] = a[k]
  BY FiredIsCounted
<1>5. \A k \in Kots \ ks : drop[k] = 0
  OBVIOUS
<1>6. \A i \in Items : /\ Sent[i] \in Int /\ Sent'[i] \in Int /\ b[i] \in Int
                       /\ Sent[i] <= Sent'[i] + b[i] /\ Sent[i] = item[i].sent
                       /\ Sent'[i] = item'[i].sent
                       /\ item'[i] \in LineRows /\ Ordered(item'[i])
  <2> SUFFICES ASSUME NEW i \in Items
               PROVE  /\ Sent[i] \in Int /\ Sent'[i] \in Int /\ b[i] \in Int
                      /\ Sent[i] <= Sent'[i] + b[i] /\ Sent[i] = item[i].sent
                      /\ Sent'[i] = item'[i].sent
                      /\ item'[i] \in LineRows /\ Ordered(item'[i])
    OBVIOUS
  <2>1. PICK w \in LineRows : w = item[i] /\ Ordered(w)
    BY DEF FoodInv, LinesBounded
  <2> DEFINE left == IF w.sent >= Pulled(ks, i) THEN w.sent - Pulled(ks, i) ELSE 0
  <2>2. item'[i] = [w EXCEPT !.sent = left]
    BY <2>1 DEF PullKots, PutBack
  <2>3. w.sent \in 0..MaxQty /\ w.quantity \in 0..MaxQty /\ w.sent <= w.quantity
    BY <2>1 DEF LineRows, Ordered
  <2>4. left \in 0..MaxQty /\ left <= w.sent /\ w.sent <= left + b[i]
    BY <1>1, <2>3
  <2> HIDE DEF left, b
  <2>5. item'[i] \in LineRows /\ item'[i].sent = left /\ item'[i].quantity = w.quantity
        /\ item'[i].order = w.order
    BY <2>2, <2>4 DEF LineRows
  <2>6. Ordered(item'[i])
    BY <2>1, <2>3, <2>4, <2>5 DEF Ordered
  <2>7. Sent[i] = w.sent /\ Sent'[i] = left
    BY <2>1, <2>5 DEF Sent
  <2> QED
    BY <1>1, <2>1, <2>3, <2>4, <2>5, <2>6, <2>7
<1>7. LinesBounded'
  <2>1. item' = [i \in Items |-> item'[i]]
    BY DEF PullKots, PutBack
  <2> QED
    BY <1>6, <2>1 DEF LinesBounded
<1> HIDE DEF a, b, drop, col, rows
<1>8. SumFunctionOnSet(Fired, Kots) = SumFunctionOnSet(Fired', Kots) + SumFunctionOnSet(drop, Kots)
  BY <1>3, <1>k, SumPlus
<1>9. SumFunctionOnSet(drop, Kots) = SumFunctionOnSet(a, ks)
  <2>1. SumFunctionOnSet(drop, Kots) = SumFunctionOnSet(drop, ks)
    BY <1>3, <1>5, <1>k, SumWithNoughts
  <2>2. SumFunctionOnSet(drop, ks) = SumFunctionOnSet(a, ks)
    BY <1>4, <1>k, SumSame
  <2> QED
    BY <2>1, <2>2
<1>10. SumFunctionOnSet(Sent, Items) <= SumFunctionOnSet(Sent', Items) + SumFunctionOnSet(b, Items)
  <2> DEFINE both == [i \in Items |-> Sent'[i] + b[i]]
  <2>1. \A i \in Items : Sent'[i] \in Int /\ b[i] \in Int /\ both[i] = Sent'[i] + b[i]
    BY <1>6
  <2>2. \A i \in Items : Sent[i] \in Int /\ both[i] \in Int /\ Sent[i] <= both[i]
    BY <1>6
  <2> HIDE DEF both
  <2>3. SumFunctionOnSet(both, Items) = SumFunctionOnSet(Sent', Items) + SumFunctionOnSet(b, Items)
    BY <1>k, <2>1, SumPlus
  <2>4. SumFunctionOnSet(Sent, Items) <= SumFunctionOnSet(both, Items)
    BY <1>k, <2>2, SumAtMost
  <2> QED
    BY <2>3, <2>4
<1>11. /\ SumFunctionOnSet(Fired, Kots) \in Int /\ SumFunctionOnSet(Fired', Kots) \in Int
       /\ SumFunctionOnSet(Sent, Items) \in Int /\ SumFunctionOnSet(Sent', Items) \in Int
       /\ SumFunctionOnSet(b, Items) \in Int
  BY <1>3, <1>6, <1>k, SumInt
<1>12. SumFunctionOnSet(Fired', Kots) <= SumFunctionOnSet(Sent', Items)
  BY <1>2, <1>8, <1>9, <1>10, <1>11 DEF FoodInv
<1> QED
  BY <1>7, <1>12 DEF FoodInv

\* create_kot adds as much to the lines as to the tickets.
LEMMA FoodCooked ==
    ASSUME FoodInv, TicketsInv, TicketsInv', NEW k \in Kots, NEW o \in Orders,
           CreateKot(k, o, Unsent(o))
    PROVE  FoodInv'
<1> USE RestaurantAssumption, OrderScreenAssumption
<1> DEFINE q == Unsent(o)
<1>1. q \in [Items -> 0..MaxQty]
  BY UnsentFits DEF FoodInv
<1>2. ASSUME NEW i \in Items
      PROVE  /\ item'[i] \in LineRows /\ Ordered(item'[i])
             /\ item'[i].sent = item[i].sent + q[i] /\ item[i].sent \in Int
  <2>1. PICK w \in LineRows : w = item[i] /\ Ordered(w)
    BY DEF FoodInv, LinesBounded
  <2>2. w.sent \in 0..MaxQty /\ w.quantity \in 0..MaxQty /\ w.sent <= w.quantity
    BY <2>1 DEF LineRows, Ordered
  <2> DEFINE s == w.sent + q[i]
  <2>3. item'[i] = [w EXCEPT !.sent = s]
    BY <2>1 DEF CreateKot
  <2>4. q[i] = IF i \in ItemsOf(o) THEN w.quantity - w.sent ELSE 0
    BY <2>1 DEF Unsent
  <2>5. s \in 0..MaxQty /\ s <= w.quantity
    BY <2>2, <2>4
  <2>6. s = w.sent + q[i]
    OBVIOUS
  <2> HIDE DEF s, q
  <2>7. item'[i] \in LineRows /\ item'[i].sent = s /\ item'[i].quantity = w.quantity
        /\ item'[i].order = w.order
    BY <2>3, <2>5 DEF LineRows
  <2>8. Ordered(item'[i])
    BY <2>1, <2>5, <2>7 DEF Ordered
  <2> QED
    BY <2>1, <2>2, <2>6, <2>7, <2>8
<1>3. LinesBounded'
  <2>1. item' = [i \in Items |-> item'[i]]
    BY DEF CreateKot
  <2> QED
    BY <1>2, <2>1 DEF LinesBounded
<1>4. /\ kot[k].status = "none"
      /\ kot' = [kot EXCEPT ![k] = [status |-> "pending", order |-> o, quantity |-> q]]
  BY DEF CreateKot
<1> HIDE DEF q
<1>5. Fired[k] = 0 /\ Fired'[k] = SumFunctionOnSet(q, Items)
      /\ \A l \in Kots \ {k} : Fired'[l] = Fired[l]
  <2>1. kot'[k].status = "pending" /\ kot'[k].quantity = q
        /\ \A l \in Kots \ {k} : kot'[l] = kot[l]
    BY <1>4 DEF TicketsInv
  <2> QED
    BY <1>4, <2>1 DEF Fired, Dead
<1>6. /\ \A l \in Kots : Fired[l] \in Nat
      /\ SumFunctionOnSet(Fired, Kots) \in Nat
  BY FiredIsCounted
<1>7. \A i \in Items : q[i] \in Nat
  BY <1>1
<1>8. SumFunctionOnSet(q, Items) \in Nat
  BY <1>7, SumNat
<1>9. \A l \in Kots : Fired[l] \in Int /\ Fired'[l] \in Int
  BY <1>5, <1>6, <1>8
<1>10. SumFunctionOnSet(Fired', Kots) = SumFunctionOnSet(Fired, Kots) + (Fired'[k] - Fired[k])
  BY <1>5, <1>9, SumUpdate
<1>11. \A i \in Items : Sent[i] \in Int /\ q[i] \in Int /\ Sent'[i] = Sent[i] + q[i]
  BY <1>2, <1>7 DEF Sent
<1>12. SumFunctionOnSet(Sent', Items) = SumFunctionOnSet(Sent, Items) + SumFunctionOnSet(q, Items)
  BY <1>11, SumPlus
<1>13. SumFunctionOnSet(Sent, Items) \in Nat
  BY SentIsCounted DEF FoodInv
<1>14. SumFunctionOnSet(Fired', Kots) <= SumFunctionOnSet(Sent', Items)
  BY <1>5, <1>6, <1>8, <1>10, <1>12, <1>13 DEF FoodInv
<1> QED
  BY <1>3, <1>14 DEF FoodInv

(***************************************************************************)
(* split_order moves what was sent along with its line: what the old lines *)
(* lose, the copies have.                                                  *)
(***************************************************************************)
LEMMA FoodSplit ==
    ASSUME FoodInv, TicketsInv, TicketsInv', NEW o \in Orders, NEW n \in Orders, NEW t,
           NEW chosen, chosen \in [DOMAIN chosen -> 1..MaxQty],
           NEW copy \in Injection(DOMAIN chosen, Fresh), SplitOrder(o, n, t, chosen, copy)
    PROVE  FoodInv'
<1> USE RestaurantAssumption, OrderScreenAssumption
<1> DEFINE moved == DOMAIN chosen
           sentWith(i) == IF item[i].sent <= chosen[i] THEN item[i].sent ELSE chosen[i]
           with == [i \in moved |-> sentWith(i)]
           lost == [i \in Items |-> IF i \in moved THEN with[i] ELSE 0]
           source(i) == CHOOSE s \in moved : copy[s] = i
           gained == [i \in Items |-> IF \E s \in moved : copy[s] = i THEN with[source(i)] ELSE 0]
<1>1. moved # {} /\ moved \subseteq ItemsOf(o)
  BY DEF SplitOrder
<1>2. item' = [i \in Items |->
             IF i \in moved THEN
               IF chosen[i] = item[i].quantity THEN NoItem
               ELSE [item[i] EXCEPT !.quantity = @ - chosen[i], !.sent = @ - sentWith(i)]
             ELSE IF \E s \in moved : copy[s] = i THEN
               LET s == CHOOSE s \in moved : copy[s] = i
               IN [order |-> n, quantity |-> chosen[s], sent |-> sentWith(s)]
             ELSE item[i]]
      /\ \A i \in moved : chosen[i] <= item[i].quantity
  BY Zenon DEF SplitOrder
<1>3. moved \subseteq Items /\ IsFiniteSet(moved)
  <2>1. moved \subseteq Items
    BY <1>1 DEF ItemsOf
  <2> QED
    BY <2>1, FS_Subset
<1>4. copy \in [moved -> Fresh] /\ \A y, z \in moved : copy[y] = copy[z] => y = z
  BY DEF Injection, IsInjective
<1>5. Fresh \subseteq Items /\ copy \in [moved -> Items]
      /\ \A i \in Fresh : item[i].order = NoOrder /\ i \notin moved
  <2>1. Fresh \subseteq Items /\ \A i \in Fresh : item[i].order = NoOrder
    BY DEF Fresh
  <2>2. \A i \in moved : item[i].order = o
    BY <1>1 DEF ItemsOf
  <2> QED
    BY <1>4, <2>1, <2>2
<1>6. ASSUME NEW i \in Items
      PROVE  /\ item[i] \in LineRows /\ Ordered(item[i])
             /\ item[i].sent \in 0..MaxQty /\ item[i].quantity \in 0..MaxQty
             /\ item[i].sent <= item[i].quantity
  BY DEF FoodInv, LinesBounded, LineRows, Ordered
<1>7. ASSUME NEW i \in moved
      PROVE  /\ chosen[i] \in 1..MaxQty /\ chosen[i] <= item[i].quantity
             /\ with[i] = sentWith(i) /\ sentWith(i) \in 0..MaxQty
             /\ sentWith(i) <= chosen[i] /\ sentWith(i) <= item[i].sent
             /\ item[i].sent - sentWith(i) <= item[i].quantity - chosen[i]
  <2>1. item[i].sent \in 0..MaxQty /\ item[i].quantity \in 0..MaxQty
        /\ item[i].sent <= item[i].quantity
    BY <1>3, <1>6
  <2>2. chosen[i] \in 1..MaxQty /\ chosen[i] <= item[i].quantity
    BY <1>2
  <2> QED
    BY <2>1, <2>2
<1> DEFINE Right(i) == /\ item'[i] \in LineRows /\ Ordered(item'[i])
                       /\ lost[i] \in Int /\ gained[i] \in Int
                       /\ item'[i].sent = (item[i].sent - lost[i]) + gained[i]
<1>8. ASSUME NEW i \in moved PROVE Right(i)
  <2>1. PICK w \in LineRows : w = item[i] /\ Ordered(w)
    BY <1>3, <1>6
  <2> DEFINE s == w.sent - sentWith(i)
             q == w.quantity - chosen[i]
  <2>2. lost[i] = sentWith(i) /\ gained[i] = 0
    BY <1>3, <1>5, <1>7, <1>4
  <2>3. w.sent \in 0..MaxQty /\ w.quantity \in 0..MaxQty /\ w.sent <= w.quantity
    BY <1>3, <1>6, <2>1
  <2>4. /\ sentWith(i) \in 0..MaxQty /\ chosen[i] \in 1..MaxQty /\ sentWith(i) <= chosen[i]
        /\ sentWith(i) <= w.sent /\ s <= q /\ s \in 0..MaxQty /\ q \in 0..MaxQty
    BY <1>7, <2>1, <2>3
  <2>5. w.order = o
    BY <1>1, <2>1 DEF ItemsOf
  <2>6. CASE chosen[i] = w.quantity
    <3>1. item'[i] = NoItem
      BY <1>2, <1>3, <2>1, <2>6
    <3>2. NoItem \in LineRows /\ Ordered(NoItem) /\ NoItem.sent = 0
      BY DEF NoItem, LineRows, Ordered
    <3>3. w.sent - sentWith(i) = 0
      BY <2>3, <2>4, <2>6
    <3> HIDE DEF lost, gained, sentWith
    <3> QED
      BY <2>1, <2>2, <2>3, <2>4, <3>1, <3>2, <3>3
  <2>7. CASE chosen[i] # w.quantity
    <3>1. item'[i] = [w EXCEPT !.quantity = q, !.sent = s]
      BY <1>2, <1>3, <2>1, <2>7
    <3>2. s = w.sent - sentWith(i) /\ q > 0
      BY <2>3, <2>4, <2>7
    <3> HIDE DEF lost, gained, sentWith, s, q
    <3>3. item'[i] \in LineRows /\ item'[i].sent = s /\ item'[i].quantity = q /\ item'[i].order = o
      BY <2>4, <2>5, <3>1 DEF LineRows
    <3>4. Ordered(item'[i])
      BY <2>4, <3>2, <3>3 DEF Ordered
    <3> QED
      BY <2>1, <2>2, <2>3, <2>4, <3>2, <3>3, <3>4
  <2> QED
    BY <2>6, <2>7
<1>9. ASSUME NEW i \in Items \ moved, \E s \in moved : copy[s] = i PROVE Right(i)
  <2> DEFINE s == source(i)
  <2>1. s \in moved /\ copy[s] = i
    BY <1>9, Zenon
  <2>2. item'[i] = [order |-> n, quantity |-> chosen[s], sent |-> sentWith(s)]
    BY <1>2, <1>9
  <2>3. lost[i] = 0 /\ gained[i] = with[s]
    BY <1>9
  <2>4. item[i].sent = 0
    <3>1. item[i].order = NoOrder
      BY <1>5, <1>4, <2>1
    <3>2. Ordered(item[i]) /\ item[i].sent \in 0..MaxQty /\ item[i].sent <= item[i].quantity
      BY <1>6
    <3> QED
      BY <3>1, <3>2 DEF Ordered
  <2> HIDE DEF s
  <2>5. /\ chosen[s] \in 1..MaxQty /\ with[s] = sentWith(s) /\ sentWith(s) \in 0..MaxQty
        /\ sentWith(s) <= chosen[s]
    BY <1>7, <2>1
  <2> HIDE DEF lost, gained, sentWith, with
  <2>6. item'[i] \in LineRows /\ Ordered(item'[i]) /\ item'[i].sent = sentWith(s)
    BY <2>2, <2>5 DEF LineRows, Ordered
  <2> QED
    BY <2>3, <2>4, <2>5, <2>6
<1>10. ASSUME NEW i \in Items \ moved, ~ \E s \in moved : copy[s] = i PROVE Right(i)
  <2>1. item'[i] = item[i]
    BY <1>2, <1>10
  <2>2. lost[i] = 0 /\ gained[i] = 0
    BY <1>10
  <2> QED
    BY <1>6, <2>1, <2>2
<1> HIDE DEF Right
<1>11. \A i \in Items : Right(i)
  BY <1>8, <1>9, <1>10
<1> USE DEF Right
<1>12. LinesBounded'
  BY <1>2, <1>11 DEF LinesBounded
<1>13. \A i \in Items : /\ Sent[i] \in Int /\ lost[i] \in Int /\ gained[i] \in Int
                        /\ Sent[i] + gained[i] = Sent'[i] + lost[i] /\ Sent'[i] \in Int
  <2> HIDE DEF lost, gained
  <2> QED
    BY <1>6, <1>11 DEF Sent
<1>14. SumFunctionOnSet(lost, Items) = SumFunctionOnSet(with, moved)
  <2>1. (\A i \in moved : lost[i] = with[i]) /\ \A i \in Items \ moved : lost[i] = 0
    BY <1>3
  <2> HIDE DEF lost, with, moved, gained
  <2>2. SumFunctionOnSet(lost, Items) = SumFunctionOnSet(lost, moved)
    BY <1>3, <1>13, <2>1, SumWithNoughts
  <2>3. SumFunctionOnSet(lost, moved) = SumFunctionOnSet(with, moved)
    BY <1>3, <2>1, SumSame
  <2> QED
    BY <2>2, <2>3
<1>15. SumFunctionOnSet(gained, Items) = SumFunctionOnSet(with, moved)
  <2>1. with \in [moved -> Int]
    BY <1>7
  <2>2. \A y \in moved : gained[copy[y]] = with[y]
    <3> SUFFICES ASSUME NEW y \in moved PROVE gained[copy[y]] = with[y]
      OBVIOUS
    <3>1. source(copy[y]) \in moved /\ copy[source(copy[y])] = copy[y]
      BY Zenon
    <3>2. source(copy[y]) = y
      BY <1>4, <3>1
    <3>3. copy[y] \in Items /\ \E s \in moved : copy[s] = copy[y]
      BY <1>5
    <3>4. gained[copy[y]] = with[source(copy[y])]
      BY <3>3
    <3> QED
      BY <3>2, <3>4
  <2>3. \A x \in Items : (\A y \in moved : copy[y] # x) => gained[x] = 0
    OBVIOUS
  <2> HIDE DEF gained, with, moved
  <2> QED
    BY <1>3, <1>4, <1>5, <2>1, <2>2, <2>3, SumInjected
<1>16. SumFunctionOnSet(Sent, Items) = SumFunctionOnSet(Sent', Items)
  <2> HIDE DEF lost, gained, with
  <2> DEFINE both == [i \in Items |-> Sent[i] + gained[i]]
  <2>1. \A i \in Items : Sent[i] \in Int /\ gained[i] \in Int /\ both[i] = Sent[i] + gained[i]
    BY <1>13
  <2>2. \A i \in Items : Sent'[i] \in Int /\ lost[i] \in Int /\ both[i] = Sent'[i] + lost[i]
    BY <1>13
  <2> HIDE DEF both
  <2>3. SumFunctionOnSet(both, Items) = SumFunctionOnSet(Sent, Items) + SumFunctionOnSet(gained, Items)
    BY <2>1, SumPlus
  <2>4. SumFunctionOnSet(both, Items) = SumFunctionOnSet(Sent', Items) + SumFunctionOnSet(lost, Items)
    BY <2>2, SumPlus
  <2>5. /\ SumFunctionOnSet(Sent, Items) \in Int /\ SumFunctionOnSet(Sent', Items) \in Int
        /\ SumFunctionOnSet(gained, Items) \in Int
    BY <2>1, <2>2, SumInt
  <2> QED
    BY <1>14, <1>15, <2>3, <2>4, <2>5
<1>17. SumFunctionOnSet(Fired', Kots) = SumFunctionOnSet(Fired, Kots)
  <2>1. kot' = kot
    BY DEF SplitOrder
  <2>2. \A k \in Kots : Fired'[k] = Fired[k]
    BY <2>1 DEF Fired, Dead
  <2> QED
    BY <2>2, SumSame
<1>18. SumFunctionOnSet(Fired', Kots) <= SumFunctionOnSet(Sent', Items)
  BY <1>16, <1>17 DEF FoodInv
<1> QED
  BY <1>12, <1>18 DEF FoodInv

\* Nothing happens to the lines and the tickets.
LEMMA FoodUntouched == ASSUME FoodInv, UNCHANGED <<item, kot>> PROVE FoodInv'
BY DEF FoodInv, LinesBounded, Fired, Sent, Dead

\* Handler by handler.
LEMMA FoodMerged ==
    ASSUME FoodInv, TicketsInv, NEW o \in Orders, NEW sources \in SUBSET Orders,
           MergeOrders(o, sources)
    PROVE  FoodInv'
<1> USE RestaurantAssumption
<1>1. ASSUME NEW i \in Items
      PROVE  item'[i] \in LineRows /\ Ordered(item'[i]) /\ item'[i].sent = item[i].sent
  <2>1. PICK w \in LineRows : w = item[i] /\ Ordered(w)
    BY DEF FoodInv, LinesBounded
  <2>2. item'[i] = IF w.order \in sources THEN [w EXCEPT !.order = o] ELSE w
    BY <2>1 DEF MergeOrders
  <2>3. LET v == [w EXCEPT !.order = o]
        IN v \in LineRows /\ v.order = o /\ v.quantity = w.quantity /\ v.sent = w.sent
    BY DEF LineRows
  <2> QED
    BY <2>1, <2>2, <2>3 DEF Ordered
<1>2. LinesBounded'
  <2>1. item' = [i \in Items |-> item'[i]]
    BY DEF MergeOrders
  <2> QED
    BY <1>1, <2>1 DEF LinesBounded
<1>3. ASSUME NEW k \in Kots PROVE (Dead(k)' <=> Dead(k)) /\ kot'[k].quantity = kot[k].quantity
  <2>1. PICK w \in KotRow : w = kot[k]
    BY DEF TicketsInv
  <2>2. kot'[k] = IF w.order \in sources THEN [w EXCEPT !.order = o] ELSE w
    BY <2>1 DEF MergeOrders, TicketsMoved
  <2>3. [w EXCEPT !.order = o].status = w.status /\ [w EXCEPT !.order = o].quantity = w.quantity
    BY DEF KotRow
  <2> QED
    BY <2>1, <2>2, <2>3 DEF Dead
<1> QED
  BY <1>1, <1>2, <1>3, FoodSteady

LEMMA FoodAdvanced ==
    ASSUME FoodInv, TicketsInv, NEW k \in Kots, NEW s \in {"preparing", "ready", "served"},
           SetKotStatus(k, s)
    PROVE  FoodInv'
<1>1. ASSUME NEW l \in Kots PROVE (Dead(l)' <=> Dead(l)) /\ kot'[l].quantity = kot[l].quantity
  <2>1. PICK w \in KotRow : w = kot[k]
    BY DEF TicketsInv
  <2>2. kot' = [kot EXCEPT ![k] = [w EXCEPT !.status = s]]
    BY <2>1 DEF SetKotStatus
  <2>3. [w EXCEPT !.status = s].status = s /\ [w EXCEPT !.status = s].quantity = w.quantity
    BY DEF KotRow
  <2>4. kot'[l] = IF l = k THEN [w EXCEPT !.status = s] ELSE kot[l]
    BY <2>2 DEF TicketsInv
  <2>5. w.status \notin {"none", "cancelled"}
    BY <2>1 DEF SetKotStatus, KOT_TRANSITIONS
  <2> QED
    BY <2>1, <2>3, <2>4, <2>5 DEF Dead
<1>2. item' = item
  BY DEF SetKotStatus
<1>3. LinesBounded'
  BY <1>2 DEF FoodInv, LinesBounded
<1> QED
  BY <1>1, <1>2, <1>3, FoodSteady

\* One line is written, and what was sent of it stays.
LEMMA FoodLine ==
    ASSUME FoodInv, TicketsInv, kot' = kot, NEW i \in Items, NEW r \in LineRows, Ordered(r),
           r.sent = item[i].sent, item' = [j \in Items |-> IF j = i THEN r ELSE item[j]]
    PROVE  FoodInv'
<1>1. \A j \in Items : item[j] \in LineRows /\ Ordered(item[j])
  BY DEF FoodInv, LinesBounded
<1>2. LinesBounded' /\ \A j \in Items : item'[j].sent = item[j].sent
  BY <1>1 DEF LinesBounded
<1>3. \A k \in Kots : (Dead(k)' <=> Dead(k)) /\ kot'[k].quantity = kot[k].quantity
  BY DEF Dead
<1> QED
  BY <1>2, <1>3, FoodSteady

LEMMA FoodAdded ==
    ASSUME FoodInv, TicketsInv, NEW o \in Orders, NEW i \in Fresh, AddItems(o, [x \in {i} |-> 1])
    PROVE  FoodInv'
<1> USE RestaurantAssumption
<1> DEFINE r == [order |-> o, quantity |-> 1, sent |-> 0]
<1>1. i \in Items /\ item[i].order = NoOrder
  BY DEF Fresh
<1>2. item[i].sent = 0
  BY <1>1 DEF FoodInv, LinesBounded, LineRows, Ordered
<1>3. r \in LineRows /\ Ordered(r) /\ r.sent = 0
  BY DEF LineRows, Ordered
<1>4. item' = [j \in Items |-> IF j = i THEN r ELSE item[j]] /\ kot' = kot
  BY DEF AddItems, Appended
<1> HIDE DEF r
<1> QED
  BY <1>1, <1>2, <1>3, <1>4, FoodLine

LEMMA FoodUpdated ==
    ASSUME FoodInv, TicketsInv, NEW i \in Items, NEW q \in 1..MaxQty, UpdateItem(i, q)
    PROVE  FoodInv'
<1> USE RestaurantAssumption
<1>1. PICK w \in LineRows : w = item[i] /\ Ordered(w)
  BY DEF FoodInv, LinesBounded
<1> DEFINE r == [w EXCEPT !.quantity = q]
<1>2. r \in LineRows /\ r.sent = w.sent /\ r.order = w.order /\ r.quantity = q
  BY DEF LineRows
<1>3. w.order # NoOrder /\ w.sent <= q
  BY <1>1 DEF UpdateItem
<1>4. item' = [j \in Items |-> IF j = i THEN r ELSE item[j]] /\ kot' = kot
  BY <1>1 DEF UpdateItem, FoodInv, LinesBounded
<1> HIDE DEF r
<1>5. Ordered(r)
  BY <1>2, <1>3 DEF Ordered
<1> QED
  BY <1>1, <1>2, <1>4, <1>5, FoodLine

LEMMA FoodRemoved ==
    ASSUME FoodInv, TicketsInv, NEW i \in Items, RemoveItem(i)
    PROVE  FoodInv'
<1> USE RestaurantAssumption
<1>1. NoItem \in LineRows /\ Ordered(NoItem) /\ NoItem.sent = item[i].sent
  BY DEF NoItem, LineRows, Ordered, RemoveItem
<1>2. item' = [j \in Items |-> IF j = i THEN NoItem ELSE item[j]] /\ kot' = kot
  BY DEF RemoveItem, FoodInv, LinesBounded
<1> QED
  BY <1>1, <1>2, FoodLine

LEMMA FoodOpened ==
    ASSUME FoodInv, NEW o \in Orders, NEW t, CreateOrder(o, t, << >>)
    PROVE  FoodInv'
<1>1. \A i \in Items : i \notin DOMAIN << >>
  OBVIOUS
<1>2. item' = [i \in Items |-> item[i]] /\ kot' = kot
  BY <1>1 DEF CreateOrder, Appended
<1>3. item' = item
  BY <1>2 DEF FoodInv, LinesBounded
<1> QED
  BY <1>2, <1>3, FoodUntouched

LEMMA FoodReleased ==
    ASSUME FoodInv, TicketsInv, TicketsInv', NEW t, NEW c, ReleaseTable(t, c)
    PROVE  FoodInv'
<1> DEFINE ks == UNION {kots_with_kitchen(o) : o \in OrdersAt(t)}
<1>1. PullKots(ks)
  BY DEF ReleaseTable
<1>2. ks \in SUBSET Kots /\ \A k \in ks : kot[k].status \in KOT_WITH_KITCHEN
  BY DEF kots_with_kitchen, KotsOf
<1> HIDE DEF ks
<1> QED
  BY <1>1, <1>2, FoodPulled

LEMMA FoodServed ==
    ASSUME FoodInv, TicketsInv, TicketsInv', PressInv, NEW r \in reqs, Serve(r)
    PROVE  FoodInv'
<1> USE RestaurantAssumption
<1>1. r \in Presses /\ Asks(r)
  BY DEF PressInv
<1>2. /\ r.kots \in SUBSET Kots /\ r.items \in SUBSET Items /\ r.orders \in SUBSET Orders
      /\ r.quantity \in [Items -> 0..MaxQty]
  BY <1>1 DEF Presses
<1> DEFINE Goal == FoodInv'
<1>3. CASE \/ CreateTable(r.table) \/ DeleteTable(r.table)
           \/ BillOrder(r.order) \/ TransferOrder(r.order, r.table)
  BY <1>3, FoodUntouched DEF CreateTable, DeleteTable, BillOrder, TransferOrder
<1>4. CASE \E o \in Orders : CreateOrder(o, r.table, << >>)
  BY <1>4, FoodOpened
<1>5. CASE ReleaseTable(r.table, r.cancel)
  BY <1>5, FoodReleased
<1>6. CASE r.kind = "add" /\ \E i \in Fresh : AddItems(r.order, [x \in {i} |-> 1])
  <2>1. r.order \in Orders
    BY <1>1, <1>6 DEF Asks
  <2> QED
    BY <1>6, <2>1, FoodAdded
<1>7. CASE r.kind = "quantity" /\ \E i \in r.items \cap ItemsOf(r.order) :
             UpdateItem(i, r.quantity[i])
  <2>1. PICK i \in r.items : UpdateItem(i, r.quantity[i])
    BY <1>7
  <2>2. i \in Items /\ r.quantity[i] > 0
    BY <1>1, <1>2, <1>7 DEF Asks
  <2>3. r.quantity[i] \in 1..MaxQty
    BY <1>2, <2>2
  <2> QED
    BY <2>1, <2>2, <2>3, FoodUpdated
<1>8. CASE \E i \in r.items \cap ItemsOf(r.order) : RemoveItem(i)
  BY <1>2, <1>8, FoodRemoved
<1>9. CASE r.kind = "kot" /\ \E k \in Kots : CreateKot(k, r.order, Unsent(r.order))
  <2>1. r.order \in Orders
    BY <1>1, <1>9 DEF Asks
  <2> QED
    BY <1>9, <2>1, FoodCooked
<1>10. CASE r.kind = "status" /\ \E k \in r.kots : SetKotStatus(k, r.to)
  <2>1. r.to \in {"preparing", "ready", "served"}
    BY <1>1, <1>10 DEF Asks
  <2> QED
    BY <1>2, <1>10, <2>1, FoodAdvanced
<1>11. CASE \E k \in r.kots : CancelKot(k)
  <2>1. PICK k \in Kots : CancelKot(k)
    BY <1>2, <1>11
  <2>2. PullKots({k}) /\ {k} \in SUBSET Kots /\ \A l \in {k} : kot[l].status \in KOT_WITH_KITCHEN
    BY <2>1 DEF CancelKot
  <2> QED
    BY <2>2, FoodPulled
<1>12. CASE r.kind = "merge" /\ MergeOrders(r.order, r.orders)
  <2>1. r.order \in Orders
    BY <1>1, <1>12 DEF Asks
  <2> QED
    BY <1>2, <1>12, <2>1, FoodMerged
<1>13. ASSUME NEW n \in Orders, r.kind = "split",
              NEW chosen, chosen = [i \in {x \in Items : r.quantity[x] > 0} |-> r.quantity[i]],
              NEW copy \in Injection(DOMAIN chosen, Fresh),
              SplitOrder(r.order, n, r.table, chosen, copy)
       PROVE  FoodInv'
  <2>1. r.order \in Orders
    BY <1>1, <1>13 DEF Asks
  <2>2. chosen \in [DOMAIN chosen -> 1..MaxQty]
    BY <1>2, <1>13
  <2> QED
    BY <1>13, <2>1, <2>2, FoodSplit
<1> QED
  BY <1>3, <1>4, <1>5, <1>6, <1>7, <1>8, <1>9, <1>10, <1>11, <1>12, <1>13 DEF Serve
-----------------------------------------------------------------------------
(***************************************************************************)
(* The presses under way.                                                  *)
(***************************************************************************)

\* Marks of ticket k that will count it as printed.
Marks(k) == {r \in reqs : r.kind = "mark" /\ r.to = "printed" /\ r.kots = {k}}

PrintInv ==
  /\ prints \in [Kots -> PrintRow]
  /\ \A k \in Kots : /\ prints[k].count + Cardinality(Marks(k)) <= prints[k].paper
                     /\ prints[k].status = "printed" => prints[k].paper > 0

\* One press is over, and perhaps another takes its place.
Replaced(r, q) ==
  /\ q \in Presses /\ Asks(q) /\ \A k \in q.kots : Issued(k)'
  /\ reqs' = Joined(reqs \ {r}, q)

LEMMA RoomLeft ==
    ASSUME PressInv, NEW r \in reqs
    PROVE  /\ IsFiniteSet(reqs \ {r}) /\ Cardinality(reqs \ {r}) = Cardinality(reqs) - 1
           /\ Cardinality(reqs) \in Nat /\ Cardinality(reqs) > 0
           /\ MaxInFlight \in Nat /\ MaxInFlight > 0
           /\ Cardinality(reqs \ {r}) < MaxInFlight
<1>1. IsFiniteSet(reqs \ {r}) /\ Cardinality(reqs \ {r}) = Cardinality(reqs) - 1
      /\ IsFiniteSet(reqs)
  BY FS_RemoveElement DEF PressInv
<1>2. Cardinality(reqs) \in Nat /\ Cardinality(reqs \ {r}) \in Nat
  BY <1>1, FS_CardinalityType
<1>3. Cardinality(reqs) <= MaxInFlight /\ MaxInFlight \in Nat
  BY OrderScreenAssumption DEF PressInv
<1> QED
  BY <1>1, <1>2, <1>3

\* A press joins those under way.
LEMMA JoinKeeps ==
    ASSUME NEW rs, IsFiniteSet(rs), Cardinality(rs) < MaxInFlight,
           \A p \in rs : p \in Presses /\ Asks(p) /\ \A k \in p.kots : Issued(k)',
           NEW r \in Presses, Asks(r), \A k \in r.kots : Issued(k)',
           reqs' = Joined(rs, r), calls' \in 0..MaxCalls
    PROVE  /\ PressInv'
           /\ \E q : /\ q \notin rs /\ reqs' = rs \cup {q}
                     /\ q.kind = r.kind /\ q.kots = r.kots /\ q.to = r.to
<1> USE OrderScreenAssumption
<1>1. PICK m \in 1..MaxInFlight : /\ Joined(rs, r) = rs \cup {[r EXCEPT !.n = m]}
                                  /\ [r EXCEPT !.n = m] \notin rs
  BY Joins
<1> DEFINE q == [r EXCEPT !.n = m]
<1>2. q \in Presses /\ Asks(q) /\ q.kots = r.kots /\ q.kind = r.kind /\ q.to = r.to
  BY Restamped, Zenon
<1>3. reqs' = rs \cup {q} /\ q \notin rs
  BY <1>1
<1> HIDE DEF q
<1>4. IsFiniteSet(rs \cup {q}) /\ Cardinality(rs \cup {q}) = Cardinality(rs) + 1
  BY <1>3, FS_AddElement
<1>5. Cardinality(rs) \in Nat
  BY FS_CardinalityType
<1>6. Cardinality(reqs') <= MaxInFlight /\ IsFiniteSet(reqs')
  BY <1>3, <1>4, <1>5
<1>7. \A p \in reqs' : p \in Presses /\ Asks(p) /\ \A k \in p.kots : Issued(k)'
  BY <1>2, <1>3
<1>8. PressInv'
  BY <1>6, <1>7 DEF PressInv
<1> QED
  BY <1>2, <1>3, <1>8

\* A press is sent, one is over, one takes the place of another.
LEMMA PressSent ==
    ASSUME PressInv, Sending
    PROVE  /\ PressInv' /\ UNCHANGED <<shop, prints>>
           /\ \E q : q \notin reqs /\ reqs' = reqs \cup {q} /\ q.kind # "mark"
<1> USE OrderScreenAssumption
<1>1. PICK r \in Presses : Asks(r) /\ r.kind # "mark" /\ (\A k \in r.kots : Issued(k)) /\ Send(r)
  BY DEF Sending
<1>2. /\ calls < MaxCalls /\ Cardinality(reqs) < MaxInFlight
      /\ calls' = calls + 1 /\ reqs' = Joined(reqs, r) /\ UNCHANGED <<shop, prints>>
  BY <1>1 DEF Send
<1>3. \A k \in Kots : Issued(k)' <=> Issued(k)
  BY <1>2 DEF Issued, shop
<1>4. \A k : Issued(k)' <=> Issued(k)
  BY <1>2 DEF Issued, shop
<1>5. calls' \in 0..MaxCalls
  BY <1>2 DEF PressInv
<1>6. /\ \A p \in reqs : p \in Presses /\ Asks(p) /\ \A k \in p.kots : Issued(k)'
      /\ \A k \in r.kots : Issued(k)'
  BY <1>1, <1>4 DEF PressInv
<1>7. /\ PressInv'
      /\ \E q : /\ q \notin reqs /\ reqs' = reqs \cup {q}
                /\ q.kind = r.kind /\ q.kots = r.kots /\ q.to = r.to
  <2>1. IsFiniteSet(reqs)
    BY DEF PressInv
  <2> QED
    BY <1>1, <1>2, <1>5, <1>6, <2>1, JoinKeeps
<1> QED
  BY <1>1, <1>2, <1>7

LEMMA PressGone ==
    ASSUME PressInv, NEW r \in reqs, Gone(r), calls' = calls,
           \A k \in Kots : Issued(k) => Issued(k)'
    PROVE  PressInv'
<1>1. reqs' = reqs \ {r}
  BY DEF Gone
<1>2. \A p \in reqs : p \in Presses /\ Asks(p) /\ \A k \in p.kots : Issued(k)'
  BY DEF PressInv, Presses
<1>3. IsFiniteSet(reqs') /\ Cardinality(reqs') <= MaxInFlight
  BY <1>1, RoomLeft
<1> QED
  BY <1>1, <1>2, <1>3 DEF PressInv

LEMMA PressReplaced ==
    ASSUME PressInv, NEW r \in reqs, NEW q, Replaced(r, q), calls' = calls,
           \A k \in Kots : Issued(k) => Issued(k)'
    PROVE  /\ PressInv'
           /\ \E p : /\ p \notin reqs \ {r} /\ reqs' = (reqs \ {r}) \cup {p}
                     /\ p.kind = q.kind /\ p.kots = q.kots /\ p.to = q.to
<1>1. \A p \in reqs \ {r} : p \in Presses /\ Asks(p) /\ \A k \in p.kots : Issued(k)'
  BY DEF PressInv, Presses
<1>2. IsFiniteSet(reqs \ {r}) /\ Cardinality(reqs \ {r}) < MaxInFlight
  BY RoomLeft
<1>3. calls' \in 0..MaxCalls
  BY DEF PressInv
<1> QED
  BY <1>1, <1>2, <1>3, JoinKeeps DEF Replaced

(***************************************************************************)
(* A press that is served or vanishes is over, or leaves one that is no    *)
(* mark.                                                                   *)
(***************************************************************************)
LEMMA ServedIsOver ==
    ASSUME PressInv, TicketsInv, NEW r \in reqs, Serve(r) \/ Vanish(r),
           \A k \in Kots : Issued(k) => Issued(k)'
    PROVE  /\ UNCHANGED <<calls, prints>>
           /\ Gone(r) \/ \E q : Replaced(r, q) /\ q.kind # "mark"
<1> DEFINE Goal == /\ UNCHANGED <<calls, prints>>
                   /\ Gone(r) \/ \E q : Replaced(r, q) /\ q.kind # "mark"
<1>1. r \in Presses /\ Asks(r) /\ \A k \in r.kots : Issued(k)'
  BY DEF PressInv, Presses
<1>2. ASSUME Done(r) PROVE Goal
  BY <1>2 DEF Done
<1>3. ASSUME NEW i, r.kind = "remove", Goes(r, [r EXCEPT !.items = @ \ {i}]),
             UNCHANGED <<calls, prints>>
      PROVE  Goal
  <2>1. PICK q : q = [r EXCEPT !.items = @ \ {i}]
    OBVIOUS
  <2>2. q \in Presses /\ q.kind = "remove" /\ q.kots = r.kots
    BY <1>1, <1>3, <2>1 DEF Presses
  <2>3. Asks(q)
    BY <2>2 DEF Asks
  <2>4. Replaced(r, q) /\ q.kind # "mark"
    BY <1>1, <1>3, <2>1, <2>2, <2>3 DEF Replaced, Goes
  <2> QED
    BY <1>3, <2>4
<1>4. ASSUME NEW k \in Kots, CreateKot(k, r.order, Unsent(r.order)),
             Then(r, [Press("print") EXCEPT !.kots = {k}, !.till = r.till])
      PROVE  Goal
  <2>1. PICK q : q = [Press("print") EXCEPT !.kots = {k}, !.till = r.till]
    OBVIOUS
  <2>2. Press("print") \in Presses /\ r.till \in BOOLEAN
    BY <1>1, PressIs, RoomLeft DEF Kinds, Presses
  <2>3. q \in Presses /\ q.kind = "print" /\ q.kots = {k}
    BY <2>1, <2>2 DEF Presses, Press
  <2>4. Asks(q)
    BY <2>3 DEF Asks
  <2>5. Issued(k)'
    BY <1>4 DEF CreateKot, Issued, TicketsInv
  <2>6. Gone(r) \/ Replaced(r, q)
    BY <1>4, <2>1, <2>3, <2>4, <2>5 DEF Then, Goes, Replaced
  <2> QED
    BY <1>4, <2>3, <2>6 DEF Then
<1>5. ASSUME Serve(r) PROVE Goal
  <2>1. \/ Done(r)
        \/ \E k \in Kots : /\ CreateKot(k, r.order, Unsent(r.order))
                           /\ Then(r, [Press("print") EXCEPT !.kots = {k}, !.till = r.till])
        \/ r.kind = "remove" /\ \E i \in r.items \cap ItemsOf(r.order) :
              /\ Goes(r, [r EXCEPT !.items = @ \ {i}])
              /\ UNCHANGED <<calls, prints>>
    BY <1>5, Zenon DEF Serve
  <2> HIDE DEF Goal
  <2>2. CASE \E k \in Kots : /\ CreateKot(k, r.order, Unsent(r.order))
                             /\ Then(r, [Press("print") EXCEPT !.kots = {k}, !.till = r.till])
    BY <1>4, <2>2
  <2>3. CASE r.kind = "remove" /\ \E i \in r.items \cap ItemsOf(r.order) :
               /\ Goes(r, [r EXCEPT !.items = @ \ {i}])
               /\ UNCHANGED <<calls, prints>>
    BY <1>3, <2>3
  <2> QED
    BY <1>2, <2>1, <2>2, <2>3
<1>6. ASSUME Vanish(r) PROVE Goal
  BY <1>2, <1>6 DEF Vanish
<1> QED
  BY <1>5, <1>6
-----------------------------------------------------------------------------
(***************************************************************************)
(* Printing and marking.                                                   *)
(***************************************************************************)
LEMMA MarksAreFinite ==
    ASSUME PressInv
    PROVE  \A k \in Kots : IsFiniteSet(Marks(k)) /\ Cardinality(Marks(k)) \in Nat
<1> SUFFICES ASSUME NEW k \in Kots
             PROVE  IsFiniteSet(Marks(k)) /\ Cardinality(Marks(k)) \in Nat
  OBVIOUS
<1>1. Marks(k) \subseteq reqs /\ IsFiniteSet(reqs)
  BY DEF Marks, PressInv
<1>2. IsFiniteSet(Marks(k))
  BY <1>1, FS_Subset
<1> QED
  BY <1>2, FS_CardinalityType

\* No new mark, and nothing was printed or recorded.
LEMMA PrintsSteady ==
    ASSUME PressInv, PrintInv, prints' = prints, \A k \in Kots : Marks(k)' \subseteq Marks(k)
    PROVE  PrintInv'
<1>1. ASSUME NEW k \in Kots
      PROVE  Cardinality(Marks(k)') \in Nat /\ Cardinality(Marks(k)') <= Cardinality(Marks(k))
             /\ Cardinality(Marks(k)) \in Nat
  <2>1. IsFiniteSet(Marks(k)) /\ Cardinality(Marks(k)) \in Nat
    BY MarksAreFinite
  <2>2. IsFiniteSet(Marks(k)') /\ Cardinality(Marks(k)') <= Cardinality(Marks(k))
    BY <2>1, FS_Subset
  <2> QED
    BY <2>1, <2>2, FS_CardinalityType
<1>2. \A k \in Kots : /\ prints[k].count \in Nat /\ prints[k].paper \in Nat
  BY DEF PrintInv, PrintRow
<1> QED
  BY <1>1, <1>2 DEF PrintInv

\* A print is over: it counts only if it left a sheet behind.
LEMMA PrintsResult ==
    ASSUME PressInv, PressInv', PrintInv, NEW r \in reqs, NEW k \in Kots, NEW ok \in BOOLEAN,
           NEW paper \in {0, 1}, ok => paper = 1, NEW left,
           left \in {"none", "ok", "failed"},
           prints' = [prints EXCEPT ![k].paper = @ + paper, ![k].last = left],
           \/ reqs' = reqs \ {r}
           \/ \E p : /\ p \notin reqs \ {r} /\ reqs' = (reqs \ {r}) \cup {p}
                     /\ p.kind = "mark" /\ p.kots = {k}
                     /\ p.to = IF ok THEN "printed" ELSE "failed"
    PROVE  PrintInv'
<1> DEFINE row == prints[k]
           up == row.paper + paper
<1>1. row \in PrintRow
  BY DEF PrintInv
<1>2. row.count \in Nat /\ row.paper \in Nat /\ up \in Nat
  BY <1>1 DEF PrintRow
<1>3. prints' = [prints EXCEPT ![k] = [row EXCEPT !.paper = up, !.last = left]]
  BY DEF PrintInv
<1>4. up = row.paper + paper
  OBVIOUS
<1> HIDE DEF up
<1>5. /\ [row EXCEPT !.paper = up, !.last = left] \in PrintRow
      /\ [row EXCEPT !.paper = up, !.last = left].count = row.count
      /\ [row EXCEPT !.paper = up, !.last = left].paper = up
      /\ [row EXCEPT !.paper = up, !.last = left].status = row.status
  BY <1>1, <1>2 DEF PrintRow
<1> HIDE DEF row
<1>6. /\ prints' \in [Kots -> PrintRow]
      /\ prints'[k].count = row.count /\ prints'[k].paper = up /\ prints'[k].status = row.status
      /\ \A l \in Kots \ {k} : prints'[l] = prints[l]
  <2>1. prints \in [Kots -> PrintRow]
    BY DEF PrintInv
  <2> DEFINE new == [row EXCEPT !.paper = up, !.last = left]
  <2>2. new \in PrintRow /\ new.count = row.count /\ new.paper = up /\ new.status = row.status
    BY <1>5
  <2>3. prints' = [prints EXCEPT ![k] = new]
    BY <1>3
  <2> HIDE DEF new
  <2> QED
    BY <2>1, <2>2, <2>3
<1>7. \A l \in Kots : /\ IsFiniteSet(Marks(l)) /\ Cardinality(Marks(l)) \in Nat
                      /\ IsFiniteSet(Marks(l)') /\ Cardinality(Marks(l)') \in Nat
  <2>1. \A l \in Kots : IsFiniteSet(Marks(l)) /\ Cardinality(Marks(l)) \in Nat
    BY MarksAreFinite
  <2>2. \A l \in Kots : Marks(l)' \subseteq reqs' /\ IsFiniteSet(reqs')
    BY DEF Marks, PressInv
  <2>3. \A l \in Kots : IsFiniteSet(Marks(l)')
    BY <2>2, FS_Subset
  <2> QED
    BY <2>1, <2>3, FS_CardinalityType
<1>8. ASSUME NEW l \in Kots \ {k} PROVE Cardinality(Marks(l)') <= Cardinality(Marks(l))
  <2>1. Marks(l)' \subseteq Marks(l)
    BY <1>8 DEF Marks
  <2> QED
    BY <1>7, <2>1, FS_Subset
<1>9. Cardinality(Marks(k)') <= Cardinality(Marks(k)) + paper
  <2>1. CASE Marks(k)' \subseteq Marks(k)
    <3>1. Cardinality(Marks(k)') <= Cardinality(Marks(k))
      BY <1>7, <2>1, FS_Subset
    <3> QED
      BY <1>7, <3>1
  <2>2. CASE ~(Marks(k)' \subseteq Marks(k))
    <3>1. PICK p : ok /\ Marks(k)' \subseteq Marks(k) \cup {p} /\ p \notin Marks(k)
      BY <2>2 DEF Marks
    <3>2. IsFiniteSet(Marks(k) \cup {p}) /\ Cardinality(Marks(k) \cup {p}) = Cardinality(Marks(k)) + 1
      BY <1>7, <3>1, FS_AddElement
    <3>3. Cardinality(Marks(k)') <= Cardinality(Marks(k) \cup {p})
      BY <3>1, <3>2, FS_Subset
    <3> QED
      BY <1>7, <3>1, <3>2, <3>3
  <2> QED
    BY <2>1, <2>2
<1>10. row.count + Cardinality(Marks(k)) <= row.paper /\ (row.status = "printed" => row.paper > 0)
  BY DEF PrintInv, row
<1>11. up >= row.paper /\ row.count + Cardinality(Marks(k)') <= up
  BY <1>2, <1>4, <1>7, <1>9, <1>10
<1>12. row.status = "printed" => up > 0
  BY <1>2, <1>10, <1>11
<1>13. \A l \in Kots \ {k} : prints[l].count \in Nat /\ prints[l].paper \in Nat
  BY DEF PrintInv, PrintRow
<1>14. ASSUME NEW l \in Kots
       PROVE  /\ prints'[l].count + Cardinality(Marks(l)') <= prints'[l].paper
              /\ prints'[l].status = "printed" => prints'[l].paper > 0
  <2>1. CASE l = k
    BY <1>6, <1>11, <1>12, <2>1
  <2>2. CASE l # k
    <3>1. prints[l].count + Cardinality(Marks(l)) <= prints[l].paper
          /\ (prints[l].status = "printed" => prints[l].paper > 0)
      BY DEF PrintInv
    <3> QED
      BY <1>6, <1>7, <1>8, <1>13, <2>2, <3>1
  <2> QED
    BY <2>1, <2>2
<1> QED
  BY <1>6, <1>14 DEF PrintInv

\* A mark is served: it is spent by counting.
LEMMA PrintsMarked ==
    ASSUME PressInv, PressInv', PrintInv, NEW r \in reqs, MarkKot(r)
    PROVE  PrintInv'
<1>1. r.kind = "mark" /\ r.to \in {"printed", "failed"} /\ reqs' = reqs \ {r}
  BY DEF MarkKot, PressInv, Asks, Gone
<1>2. PICK k \in Kots : r.kots = {k}
  BY <1>1 DEF PressInv, Asks
<1>3. prints' = [prints EXCEPT ![k].status = r.to,
                               ![k].count = IF r.to = "printed" THEN @ + 1 ELSE @]
  BY <1>2 DEF MarkKot
<1> DEFINE row == prints[k]
           more == IF r.to = "printed" THEN row.count + 1 ELSE row.count
<1>4. row \in PrintRow
  BY DEF PrintInv
<1>5. row.count \in Nat /\ row.paper \in Nat /\ more \in Nat
  BY <1>4 DEF PrintRow
<1>6. prints' = [prints EXCEPT ![k] = [row EXCEPT !.status = r.to, !.count = more]]
  BY <1>3 DEF PrintInv
<1>7. more = IF r.to = "printed" THEN row.count + 1 ELSE row.count
  OBVIOUS
<1> HIDE DEF more
<1> DEFINE new == [row EXCEPT !.status = r.to, !.count = more]
<1>8. new \in PrintRow /\ new.count = more /\ new.paper = row.paper /\ new.status = r.to
  BY <1>1, <1>4, <1>5 DEF PrintRow
<1>9. prints' = [prints EXCEPT ![k] = new]
  BY <1>6
<1> HIDE DEF new, row
<1>10. /\ prints' \in [Kots -> PrintRow] /\ prints'[k] = new
       /\ \A l \in Kots \ {k} : prints'[l] = prints[l]
  BY <1>8, <1>9 DEF PrintInv
<1>11. \A l \in Kots : /\ IsFiniteSet(Marks(l)) /\ Cardinality(Marks(l)) \in Nat
                       /\ Marks(l)' \subseteq Marks(l)
  BY <1>1, MarksAreFinite DEF Marks
<1>12. \A l \in Kots : /\ Cardinality(Marks(l)') <= Cardinality(Marks(l))
                       /\ Cardinality(Marks(l)') \in Nat
  <2>1. \A l \in Kots : /\ Cardinality(Marks(l)') <= Cardinality(Marks(l)) /\ IsFiniteSet(Marks(l)')
    BY <1>11, FS_Subset
  <2> QED
    BY <2>1, FS_CardinalityType
<1>13. r.to = "printed" => Cardinality(Marks(k)') = Cardinality(Marks(k)) - 1 /\ Cardinality(Marks(k)) > 0
  <2> SUFFICES ASSUME r.to = "printed"
               PROVE  Cardinality(Marks(k)') = Cardinality(Marks(k)) - 1 /\ Cardinality(Marks(k)) > 0
    OBVIOUS
  <2>1. r \in Marks(k) /\ Marks(k)' = Marks(k) \ {r}
    BY <1>1, <1>2 DEF Marks
  <2>2. Cardinality(Marks(k) \ {r}) = Cardinality(Marks(k)) - 1
    BY <1>11, <2>1, FS_RemoveElement
  <2>3. Cardinality(Marks(k)') = Cardinality(Marks(k)) - 1
    BY <2>1, <2>2
  <2> QED
    BY <1>11, <1>12, <2>3
<1>14. row.count + Cardinality(Marks(k)) <= row.paper
  BY DEF PrintInv, row
<1>15. ASSUME NEW l \in Kots
       PROVE  /\ prints'[l].count + Cardinality(Marks(l)') <= prints'[l].paper
              /\ prints'[l].status = "printed" => prints'[l].paper > 0
  <2>1. CASE l = k /\ r.to = "printed"
    <3>1. more + Cardinality(Marks(k)') <= row.paper /\ row.paper > 0
      BY <1>5, <1>7, <1>11, <1>12, <1>13, <1>14, <2>1
    <3> QED
      BY <1>8, <1>10, <2>1, <3>1
  <2>2. CASE l = k /\ r.to # "printed"
    <3>1. more + Cardinality(Marks(k)') <= row.paper
      BY <1>5, <1>7, <1>11, <1>12, <1>14, <2>2
    <3> QED
      BY <1>8, <1>10, <2>2, <3>1
  <2>3. CASE l # k
    <3>1. prints[l].count + Cardinality(Marks(l)) <= prints[l].paper
          /\ (prints[l].status = "printed" => prints[l].paper > 0)
      BY DEF PrintInv
    <3>2. prints[l].count \in Nat /\ prints[l].paper \in Nat
      BY DEF PrintInv, PrintRow
    <3> QED
      BY <1>10, <1>11, <1>12, <2>3, <3>1, <3>2
  <2> QED
    BY <2>1, <2>2, <2>3
<1> QED
  BY <1>10, <1>15 DEF PrintInv
-----------------------------------------------------------------------------
(***************************************************************************)
(* The inductive invariant of the screens.                                 *)
(***************************************************************************)
ScreenInv == RestaurantInv /\ FoodInv /\ PressInv /\ PrintInv

LEMMA ScreenInit == SInit => ScreenInv
<1> USE RestaurantAssumption, OrderScreenAssumption
<1> SUFFICES ASSUME SInit PROVE ScreenInv
  OBVIOUS
<1> DEFINE norow == [status |-> "none", table |-> NoTable, merged_into |-> NoOrder]
<1>1. norow \in OrderRow /\ norow.status = "none"
  BY DEF OrderRow
<1> HIDE DEF norow
<1>2. order = [o \in Orders |-> norow]
  BY DEF SInit, norow
<1>3. tables \in [Tables -> TableStatus] /\ \A t \in Tables : tables[t] # "occupied"
  BY DEF SInit, TableStatus
<1>4. FloorInv
  BY <1>1, <1>2, <1>3 DEF FloorInv, OneOpenOrderPerTable, BoardMatchesOrders, OrdersAt, Open
<1>5. item = [i \in Items |-> NoItem] /\ IsLine(NoItem)
  BY DEF SInit, NoItem, IsLine
<1>6. LinesInv
  BY <1>5 DEF LinesInv
<1> DEFINE nokot == [status |-> "none", order |-> NoOrder, quantity |-> [i \in Items |-> 0]]
<1>7. nokot \in KotRow /\ nokot.status = "none" /\ \A i \in Items : nokot.quantity[i] = 0
  BY DEF KotRow
<1> HIDE DEF nokot
<1>8. kot = [k \in Kots |-> nokot]
  BY DEF SInit, nokot
<1>9. TicketsInv
  BY <1>7, <1>8 DEF TicketsInv, KitchenFoodIsOnATab, TicketLinesResolve, KOT_WITH_KITCHEN
<1>10. MergedOrdersAreHistory
  BY <1>1, <1>2 DEF MergedOrdersAreHistory
<1>11. RestaurantInv
  BY <1>4, <1>6, <1>9, <1>10 DEF RestaurantInv
<1>12. NoItem \in LineRows /\ Ordered(NoItem) /\ NoItem.sent = 0
  BY DEF NoItem, LineRows, Ordered
<1>13. LinesBounded
  BY <1>5, <1>12 DEF LinesBounded
<1>14. \A k \in Kots : Fired[k] = 0
  BY <1>7, <1>8 DEF Fired, Dead
<1>15. SumFunctionOnSet(Fired, Kots) = 0
  BY <1>14, SumZero
<1>16. \A i \in Items : Sent[i] = 0
  BY <1>5, <1>12 DEF Sent
<1>17. SumFunctionOnSet(Sent, Items) = 0
  BY <1>16, SumZero
<1>18. FoodInv
  BY <1>13, <1>15, <1>17 DEF FoodInv
<1>19. reqs = {} /\ calls = 0
  BY DEF SInit
<1>20. IsFiniteSet({}) /\ Cardinality({}) = 0
  BY FS_EmptySet
<1>21. PressInv
  BY <1>19, <1>20 DEF PressInv
<1> DEFINE noprint == [status |-> "pending", count |-> 0, paper |-> 0, last |-> "none"]
<1>22. noprint \in PrintRow /\ noprint.count = 0 /\ noprint.paper = 0 /\ noprint.status = "pending"
  BY DEF PrintRow
<1> HIDE DEF noprint
<1>23. prints = [k \in Kots |-> noprint]
  BY DEF SInit, noprint
<1>24. \A k \in Kots : Cardinality(Marks(k)) = 0
  <2>1. \A k \in Kots : Marks(k) = {}
    BY <1>19 DEF Marks
  <2> QED
    BY <1>20, <2>1
<1>25. PrintInv
  BY <1>22, <1>23, <1>24 DEF PrintInv
<1> QED
  BY <1>11, <1>18, <1>21, <1>25 DEF ScreenInv

\* A step that leaves the rows alone.
LEMMA ShopUntouched ==
    ASSUME ScreenInv, UNCHANGED shop
    PROVE  RestaurantInv' /\ FoodInv' /\ [Next]_vars /\ \A k \in Kots : Issued(k)' <=> Issued(k)
<1>1. UNCHANGED vars
  BY DEF shop, vars
<1>2. RestaurantInv'
  BY <1>1, InvStep DEF ScreenInv
<1>3. FoodInv'
  BY FoodUntouched DEF shop, ScreenInv
<1> QED
  BY <1>1, <1>2, <1>3 DEF shop, Issued

\* Step by step of SNext.
LEMMA PressStep ==
    ASSUME ScreenInv, Sending
    PROVE  ScreenInv' /\ [Next]_vars
<1>1. /\ PressInv' /\ UNCHANGED <<shop, prints>>
      /\ \E q : q \notin reqs /\ reqs' = reqs \cup {q} /\ q.kind # "mark"
  BY PressSent DEF ScreenInv
<1>2. \A k \in Kots : Marks(k)' \subseteq Marks(k)
  BY <1>1 DEF Marks
<1>3. PrintInv'
  BY <1>1, <1>2, PrintsSteady DEF ScreenInv
<1> QED
  BY <1>1, <1>3, ShopUntouched DEF ScreenInv

\* A press was served, refused, or lost.
LEMMA OverStep ==
    ASSUME ScreenInv, NEW r \in reqs, Serve(r) \/ Vanish(r),
           RestaurantInv', FoodInv', \A k \in Kots : Issued(k) => Issued(k)'
    PROVE  ScreenInv'
<1>1. /\ UNCHANGED <<calls, prints>>
      /\ Gone(r) \/ \E q : Replaced(r, q) /\ q.kind # "mark"
  BY ServedIsOver DEF ScreenInv, RestaurantInv
<1>2. CASE Gone(r)
  <2>1. PressInv'
    BY <1>1, <1>2, PressGone DEF ScreenInv
  <2>2. \A k \in Kots : Marks(k)' \subseteq Marks(k)
    BY <1>2 DEF Marks, Gone
  <2>3. PrintInv'
    BY <1>1, <2>2, PrintsSteady DEF ScreenInv
  <2> QED
    BY <2>1, <2>3 DEF ScreenInv
<1>3. ASSUME NEW q, Replaced(r, q), q.kind # "mark" PROVE ScreenInv'
  <2>1. /\ PressInv'
        /\ \E p : /\ p \notin reqs \ {r} /\ reqs' = (reqs \ {r}) \cup {p}
                  /\ p.kind = q.kind /\ p.kots = q.kots /\ p.to = q.to
    BY <1>1, <1>3, PressReplaced DEF ScreenInv
  <2>2. \A k \in Kots : Marks(k)' \subseteq Marks(k)
    BY <1>3, <2>1 DEF Marks
  <2>3. PrintInv'
    BY <1>1, <2>2, PrintsSteady DEF ScreenInv
  <2> QED
    BY <2>1, <2>3 DEF ScreenInv
<1> QED
  BY <1>1, <1>2, <1>3

LEMMA PrintStep ==
    ASSUME ScreenInv, NEW r \in reqs, printAndRecord(r)
    PROVE  ScreenInv' /\ [Next]_vars
<1>1. r \in Presses /\ \A k \in r.kots : k \in Kots /\ Issued(k)
  BY DEF ScreenInv, PressInv, Presses
<1>2. PICK k \in r.kots, ok \in BOOLEAN, paper \in {0, 1} : Result(k, r, ok, paper) /\ (ok => paper = 1)
  BY DEF printAndRecord
<1>3. k \in Kots /\ Issued(k) /\ UNCHANGED <<shop, calls>>
  BY <1>1, <1>2 DEF Result
<1>4. RestaurantInv' /\ FoodInv' /\ [Next]_vars /\ \A l \in Kots : Issued(l)' <=> Issued(l)
  BY <1>3, ShopUntouched
<1> DEFINE to == IF ok THEN "printed" ELSE "failed"
           left == IF r.till THEN prints[k].last ELSE IF ok THEN "ok" ELSE "failed"
<1>5. prints' = [prints EXCEPT ![k].paper = @ + paper, ![k].last = left]
  BY <1>2, <1>3 DEF Result, ScreenInv, PrintInv
<1>6. left \in {"none", "ok", "failed"}
  BY <1>3 DEF ScreenInv, PrintInv, PrintRow
<1>7. Gone(r) \/ Goes(r, [Press("mark") EXCEPT !.kots = {k}, !.to = to])
  BY <1>2 DEF Result
<1>8. to \in {"printed", "failed"} /\ to = IF ok THEN "printed" ELSE "failed"
  OBVIOUS
<1> HIDE DEF to, left
<1>9. CASE Gone(r)
  <2>1. PressInv'
    BY <1>3, <1>4, <1>9, PressGone DEF ScreenInv
  <2>2. reqs' = reqs \ {r}
    BY <1>9 DEF Gone
  <2>3. PrintInv'
    BY <1>2, <1>3, <1>5, <1>6, <2>1, <2>2, PrintsResult DEF ScreenInv
  <2> QED
    BY <1>4, <2>1, <2>3 DEF ScreenInv
<1>10. CASE Goes(r, [Press("mark") EXCEPT !.kots = {k}, !.to = to])
  <2>1. PICK q : q = [Press("mark") EXCEPT !.kots = {k}, !.to = to]
    OBVIOUS
  <2>2. Press("mark") \in Presses
    BY PressIs, RoomLeft DEF Kinds, ScreenInv
  <2>3. q \in Presses /\ q.kind = "mark" /\ q.kots = {k} /\ q.to = to
    BY <1>3, <1>8, <2>1, <2>2 DEF Presses, Press
  <2>4. Asks(q)
    BY <1>3, <1>8, <2>3 DEF Asks
  <2>5. Issued(k)'
    BY <1>3, <1>4
  <2>6. Replaced(r, q)
    BY <1>10, <2>1, <2>3, <2>4, <2>5 DEF Replaced, Goes
  <2>7. /\ PressInv'
        /\ \E p : /\ p \notin reqs \ {r} /\ reqs' = (reqs \ {r}) \cup {p}
                  /\ p.kind = q.kind /\ p.kots = q.kots /\ p.to = q.to
    BY <1>3, <1>4, <2>6, PressReplaced DEF ScreenInv
  <2>8. \E p : /\ p \notin reqs \ {r} /\ reqs' = (reqs \ {r}) \cup {p}
               /\ p.kind = "mark" /\ p.kots = {k} /\ p.to = IF ok THEN "printed" ELSE "failed"
    BY <1>8, <2>3, <2>7
  <2>9. PrintInv'
    BY <1>2, <1>3, <1>5, <1>6, <2>7, <2>8, PrintsResult DEF ScreenInv
  <2> QED
    BY <1>4, <2>7, <2>9 DEF ScreenInv
<1> QED
  BY <1>4, <1>7, <1>9, <1>10

LEMMA MarkStep ==
    ASSUME ScreenInv, NEW r \in reqs, MarkKot(r)
    PROVE  ScreenInv' /\ [Next]_vars
<1>1. UNCHANGED <<shop, calls>> /\ Gone(r)
  BY DEF MarkKot
<1>2. RestaurantInv' /\ FoodInv' /\ [Next]_vars /\ \A l \in Kots : Issued(l)' <=> Issued(l)
  BY <1>1, ShopUntouched
<1>3. PressInv'
  BY <1>1, <1>2, PressGone DEF ScreenInv
<1>4. PrintInv'
  BY <1>3, PrintsMarked DEF ScreenInv
<1> QED
  BY <1>2, <1>3, <1>4 DEF ScreenInv

LEMMA ScreenStep == ScreenInv /\ [SNext]_svars => ScreenInv' /\ [Next]_vars
<1> SUFFICES ASSUME ScreenInv, [SNext]_svars PROVE ScreenInv' /\ [Next]_vars
  OBVIOUS
<1> DEFINE Goal == ScreenInv' /\ [Next]_vars
<1>c. Cardinality(reqs) \in Nat /\ MaxInFlight \in Nat
  BY FS_CardinalityType, OrderScreenAssumption DEF ScreenInv, PressInv
<1>0. ASSUME UNCHANGED svars PROVE Goal
  <2>1. UNCHANGED <<shop, reqs, calls, prints>>
    BY <1>0 DEF svars
  <2>2. RestaurantInv' /\ FoodInv' /\ [Next]_vars /\ \A l \in Kots : Issued(l)' <=> Issued(l)
    BY <2>1, ShopUntouched
  <2>3. PressInv'
    BY <2>1 DEF ScreenInv, PressInv, Issued, shop
  <2>4. PrintInv'
    BY <2>1 DEF ScreenInv, PrintInv, Marks
  <2> QED
    BY <2>2, <2>3, <2>4 DEF ScreenInv
<1>1. ASSUME NEW t \in Tables, addTable(t) \/ removeTable(t) \/ handleSelect(t) \/ releaseTable(t)
      PROVE  Goal
  <2>1. Cardinality(reqs) < MaxInFlight
    BY <1>1 DEF addTable, removeTable, handleSelect, releaseTable, Send
  <2>2. Sending
    BY <1>1, <1>c, <2>1, TablePressed
  <2> QED
    BY <2>2, PressStep
<1>2. ASSUME NEW o \in Orders,
             \/ addItem(o) \/ clearOrder(o) \/ sendKot(o) \/ billOrder(o)
             \/ transferOrder(o) \/ mergeOrders(o) \/ splitOrder(o)
      PROVE  Goal
  <2>1. Cardinality(reqs) < MaxInFlight
    BY <1>2 DEF addItem, clearOrder, sendKot, billOrder, transferOrder, mergeOrders, splitOrder, Send
  <2>2. Sending
    BY <1>2, <1>c, <2>1, OrderPressed
  <2> QED
    BY <2>2, PressStep
<1>3. ASSUME NEW i \in Items, removeItem(i) \/ changeQuantity(i) PROVE Goal
  <2>1. Cardinality(reqs) < MaxInFlight
    BY <1>3 DEF removeItem, changeQuantity, Send
  <2>2. item[i].order \in Orders \cup {NoOrder}
    BY DEF ScreenInv, RestaurantInv, LinesInv, IsLine
  <2>3. Sending
    BY <1>3, <1>c, <2>1, <2>2, LinePressed
  <2> QED
    BY <2>3, PressStep
<1>4. ASSUME NEW k \in Kots, reprintKot(k) \/ cancelKot(k) \/ advance(k) PROVE Goal
  <2>1. Cardinality(reqs) < MaxInFlight
    BY <1>4 DEF reprintKot, cancelKot, advance, Send
  <2>2. Sending
    BY <1>4, <1>c, <2>1, TicketPressed
  <2> QED
    BY <2>2, PressStep
<1>5. ASSUME NEW r \in reqs, Serve(r) PROVE Goal
  <2>1. Next
    BY <1>5, ServingIsService DEF ScreenInv, FoodInv
  <2>2. RestaurantInv'
    BY <2>1, InvStep DEF ScreenInv
  <2>3. FoodInv'
    BY <1>5, <2>2, FoodServed DEF ScreenInv, RestaurantInv
  <2>4. \A k \in Kots : Issued(k) => Issued(k)'
    BY <2>1, IssuedStay DEF ScreenInv, RestaurantInv
  <2> QED
    BY <1>5, <2>1, <2>2, <2>3, <2>4, OverStep
<1>6. ASSUME NEW r \in reqs, Vanish(r) PROVE Goal
  <2>1. UNCHANGED shop
    BY <1>6 DEF Vanish
  <2>2. RestaurantInv' /\ FoodInv' /\ [Next]_vars /\ \A l \in Kots : Issued(l)' <=> Issued(l)
    BY <2>1, ShopUntouched
  <2> QED
    BY <1>6, <2>2, OverStep
<1>7. ASSUME NEW r \in reqs, printAndRecord(r) \/ MarkKot(r) PROVE Goal
  BY <1>7, PrintStep, MarkStep
<1> HIDE DEF Goal
<1>8. Goal
  BY <1>0, <1>1, <1>2, <1>3, <1>4, <1>5, <1>6, <1>7 DEF SNext
<1> QED
  BY <1>8 DEF Goal

LEMMA ScreenInvHolds == SSpec => []ScreenInv
BY ScreenInit, ScreenStep, PTL DEF SSpec

(***************************************************************************)
(* Whatever is pressed on however old a screen, and however answers are    *)
(* lost, the service only ever takes its own steps: what is proved of      *)
(* module Restaurant holds of the rows behind the screens.                 *)
(***************************************************************************)
THEOREM ScreensUseTheService == SSpec => [][Next]_vars
BY ScreenInvHolds, ScreenStep, PTL DEF SSpec

(***************************************************************************)
(* Every variable of the screens and of the service keeps its type; no     *)
(* press is swallowed by an equal one, and none names a ticket that was    *)
(* never issued.                                                           *)
(***************************************************************************)
THEOREM ScreenTypeCorrect == SSpec => []ScreenTypeOK
<1>1. ScreenInv => ScreenTypeOK
  <2> SUFFICES ASSUME ScreenInv PROVE ScreenTypeOK
    OBVIOUS
  <2>1. LineRows \subseteq ItemRow
    BY RestaurantAssumption DEF LineRows, ItemRow
  <2>2. item \in [Items -> ItemRow]
    BY <2>1 DEF ScreenInv, FoodInv, LinesBounded
  <2>3. TypeOK
    BY <2>2 DEF TypeOK, ScreenInv, RestaurantInv, FloorInv, TicketsInv
  <2>4. ASSUME NEW i \in Items, item[i].order # NoOrder PROVE item[i].quantity > 0
    <3>1. item[i] \in LineRows /\ Ordered(item[i])
      BY DEF ScreenInv, FoodInv, LinesBounded
    <3>2. item[i].quantity \in 0..MaxQty
      BY <3>1 DEF LineRows
    <3> QED
      BY <2>4, <3>1, <3>2, RestaurantAssumption DEF Ordered
  <2>5. prints \in [Kots -> PrintRow] /\ calls \in 0..MaxCalls
    BY DEF ScreenInv, PrintInv, PressInv
  <2>6. ASSUME NEW r \in reqs
        PROVE  /\ r.kind \in Kinds /\ r.n \in 1..MaxInFlight
               /\ DOMAIN r = DOMAIN Press("open")
               /\ \A k \in r.kots : kot[k].status # "none"
               /\ \A i \in Items : r.quantity[i] \in Nat
    <3>1. r \in Presses /\ \A k \in r.kots : Issued(k)
      BY DEF ScreenInv, PressInv
    <3>2. r.quantity \in [Items -> 0..MaxQty] /\ r.kind \in Kinds /\ r.n \in 1..MaxInFlight
      BY <3>1 DEF Presses
    <3>3. DOMAIN r = DOMAIN Press("open")
      BY <3>1 DEF Presses, Press
    <3>4. \A i \in Items : r.quantity[i] \in Nat
      BY <3>2, RestaurantAssumption
    <3> QED
      BY <3>1, <3>2, <3>3, <3>4 DEF Issued
  <2> QED
    BY <2>3, <2>4, <2>5, <2>6 DEF ScreenTypeOK
<1> QED
  BY <1>1, ScreenInvHolds, PTL

(***************************************************************************)
(* print_count never runs ahead of the paper, whatever prints, marks and   *)
(* answers are lost or repeated: every mark that counts comes after a      *)
(* sheet of its own.                                                       *)
(***************************************************************************)
THEOREM PrintsAreOnPaper == SSpec => []CountedPrintsAreOnPaper
<1>1. ScreenInv => CountedPrintsAreOnPaper
  <2> SUFFICES ASSUME ScreenInv, NEW k \in Kots
               PROVE  /\ prints[k].count <= prints[k].paper
                      /\ prints[k].status = "printed" => prints[k].paper > 0
    BY DEF CountedPrintsAreOnPaper
  <2>1. Cardinality(Marks(k)) \in Nat
    BY MarksAreFinite DEF ScreenInv
  <2>2. prints[k].count \in Nat /\ prints[k].paper \in Nat
    BY DEF ScreenInv, PrintInv, PrintRow
  <2> QED
    BY <2>1, <2>2 DEF ScreenInv, PrintInv
<1> QED
  BY <1>1, ScreenInvHolds, PTL

(***************************************************************************)
(* However often a round is sent, moved, split and pulled, the tickets the *)
(* kitchen still has never hold more food than was ordered: sent_quantity  *)
(* covers them, and never exceeds the quantity of its line.                *)
(***************************************************************************)
THEOREM NoFoodTwice == SSpec => []FoodFiredOnce
<1>1. ScreenInv => FoodFiredOnce
  <2> SUFFICES ASSUME ScreenInv PROVE FoodFiredOnce
    OBVIOUS
  <2> USE RestaurantAssumption, OrderScreenAssumption
  <2> DEFINE live == {k \in Kots : kot[k].status \notin {"none", "cancelled"}}
             f == [k \in live |-> SumFunction(kot[k].quantity)]
             q == [i \in Items |-> item[i].quantity]
             F == Fired
             S == Sent
  <2>1. TicketsInv /\ LinesBounded /\ SumFunctionOnSet(F, Kots) <= SumFunctionOnSet(S, Items)
    BY DEF ScreenInv, RestaurantInv, FoodInv
  <2>2. \A k \in Kots : SumFunction(kot[k].quantity) = SumFunctionOnSet(kot[k].quantity, Items)
    <3>1. \A k \in Kots : DOMAIN kot[k].quantity = Items
      BY <2>1 DEF TicketsInv, KotRow
    <3> QED
      BY <3>1 DEF SumFunction
  <2>3. DOMAIN f = live /\ live \subseteq Kots
    OBVIOUS
  <2>4. \A k \in Kots : SumFunctionOnSet(kot[k].quantity, Items) \in Nat
    BY <2>1, FiredIsCounted
  <2>5. \A k \in DOMAIN f : f[k] \in Int
    BY <2>2, <2>3, <2>4
  <2>6. \A k \in Kots : F[k] = IF k \in DOMAIN f THEN f[k] ELSE 0
    BY <2>2 DEF Fired, Dead
  <2>7. \A i \in Items : S[i] \in Int /\ q[i] \in Int /\ S[i] <= q[i]
    <3> SUFFICES ASSUME NEW i \in Items PROVE S[i] \in Int /\ q[i] \in Int /\ S[i] <= q[i]
      OBVIOUS
    <3>1. item[i] \in LineRows /\ Ordered(item[i])
      BY <2>1 DEF LinesBounded
    <3>2. item[i].quantity \in 0..MaxQty /\ item[i].sent \in 0..MaxQty
      BY <3>1 DEF LineRows
    <3> QED
      BY <3>1, <3>2 DEF Sent, Ordered
  <2>8. DOMAIN q = Items
    OBVIOUS
  <2>9. SumFunction(f) <= SumFunction(q)
    <3> HIDE DEF f, q, F, S, live
    <3>1. SumFunction(f) = SumFunctionOnSet(F, Kots)
      BY <2>3, <2>5, <2>6, SumOfSome
    <3>2. SumFunction(q) = SumFunctionOnSet(q, Items)
      BY <2>8 DEF SumFunction
    <3>3. SumFunctionOnSet(S, Items) <= SumFunctionOnSet(q, Items)
      BY <2>7, SumAtMost
    <3>4. SumFunctionOnSet(S, Items) \in Int /\ SumFunctionOnSet(q, Items) \in Int
      BY <2>7, SumInt
    <3>5. \A k \in Kots : F[k] \in Int
      BY <2>1, FiredIsCounted DEF F
    <3>6. SumFunctionOnSet(F, Kots) \in Int
      BY <3>5, SumInt
    <3> QED
      BY <2>1, <3>1, <3>2, <3>3, <3>4, <3>6
  <2> QED
    BY <2>9 DEF FoodFiredOnce
<1> QED
  BY <1>1, ScreenInvHolds, PTL

(***************************************************************************)
(* Only the release of a table whose dialog showed items discards a tab    *)
(* that has items: a screen that showed an empty tab cannot discard one    *)
(* that was filled since.                                                  *)
(***************************************************************************)
THEOREM DiscardedKnowingly == SSpec => TabsAreDiscardedKnowingly
<1> DEFINE Knowingly ==
      \A o \in Orders :
        order[o].status = "open" /\ order'[o].status = "cancelled" /\ ItemsOf(o) # {} =>
          \E r \in reqs \ reqs' : r.kind = "release" /\ "items" \in r.says
<1>1. ScreenInv /\ [SNext]_svars => Knowingly
  <2> SUFFICES ASSUME ScreenInv, [SNext]_svars, NEW o \in Orders, order[o].status = "open",
                      order'[o].status = "cancelled", ItemsOf(o) # {}
               PROVE  \E r \in reqs \ reqs' : r.kind = "release" /\ "items" \in r.says
    OBVIOUS
  <2>1. order \in [Orders -> OrderRow]
    BY DEF ScreenInv, RestaurantInv, FloorInv
  <2>2. order' # order
    BY <2>1
  <2>3. PICK r \in reqs : Serve(r)
    <3>1. ~ \E s : Send(s)
      BY <2>2 DEF Send, shop
    <3>2. ~ \E r \in reqs : Vanish(r) \/ printAndRecord(r) \/ MarkKot(r)
      BY <2>2 DEF Vanish, printAndRecord, Result, MarkKot, shop
    <3>3. ~ \E t \in Tables : addTable(t) \/ removeTable(t) \/ handleSelect(t) \/ releaseTable(t)
      BY <3>1 DEF addTable, removeTable, handleSelect, releaseTable
    <3>4. ~ \E p \in Orders : \/ addItem(p) \/ clearOrder(p) \/ sendKot(p) \/ billOrder(p)
                              \/ transferOrder(p) \/ mergeOrders(p) \/ splitOrder(p)
      BY <3>1 DEF addItem, clearOrder, sendKot, billOrder, transferOrder, mergeOrders, splitOrder
    <3>5. ~ \E i \in Items : removeItem(i) \/ changeQuantity(i)
      BY <3>1 DEF removeItem, changeQuantity
    <3>6. ~ \E k \in Kots : reprintKot(k) \/ cancelKot(k) \/ advance(k)
      BY <3>1 DEF reprintKot, cancelKot, advance
    <3>7. ~ UNCHANGED svars
      BY <2>2 DEF svars, shop
    <3> QED
      BY <3>2, <3>3, <3>4, <3>5, <3>6, <3>7 DEF SNext
  <2>4. r \in Presses /\ Asks(r)
    BY DEF ScreenInv, PressInv
  <2>5. ASSUME NEW p, NEW t, order' = NewOrder(p, t) PROVE FALSE
    BY <2>1, <2>5 DEF NewOrder
  <2>6. ASSUME BillOrder(r.order) PROVE FALSE
    <3>1. PICK w \in OrderRow : w = order[r.order] \/ r.order \notin Orders
      BY <2>1
    <3>2. [w EXCEPT !.status = "billed"].status = "billed"
      BY DEF OrderRow
    <3>3. order' = [order EXCEPT ![r.order].status = "billed"]
      BY <2>6 DEF BillOrder
    <3>4. o = r.order => order'[o] = [w EXCEPT !.status = "billed"]
      BY <2>1, <3>1, <3>3
    <3>5. o # r.order => order'[o] = order[o]
      BY <2>1, <3>3
    <3> QED
      BY <3>2, <3>4, <3>5
  <2>7. ASSUME TransferOrder(r.order, r.table) PROVE FALSE
    <3>1. PICK w \in OrderRow : w = order[o]
      BY <2>1
    <3>2. [w EXCEPT !.table = r.table].status = w.status
      BY DEF OrderRow
    <3>3. order' = [order EXCEPT ![r.order].table = r.table]
      BY <2>7 DEF TransferOrder
    <3>4. o = r.order => order'[o] = [w EXCEPT !.table = r.table]
      BY <2>1, <3>1, <3>3
    <3>5. o # r.order => order'[o] = order[o]
      BY <2>1, <3>3
    <3> QED
      BY <3>1, <3>2, <3>4, <3>5
  <2>8. ASSUME MergeOrders(r.order, r.orders) PROVE FALSE
    <3>1. PICK w \in OrderRow : w = order[o]
      BY <2>1
    <3>2. order'[o] = IF o \in r.orders
                      THEN [w EXCEPT !.status = "merged", !.merged_into = r.order] ELSE w
      BY <2>8, <3>1 DEF MergeOrders
    <3>3. [w EXCEPT !.status = "merged", !.merged_into = r.order].status = "merged"
      BY DEF OrderRow
    <3> QED
      BY <3>1, <3>2, <3>3
  <2>9. r.kind = "release" /\ Done(r) /\ ReleaseTable(r.table, r.cancel)
    <3>1. ~ \E p \in Orders : CreateOrder(p, r.table, << >>)
      BY <2>5 DEF CreateOrder
    <3>2. ASSUME NEW n, NEW chosen, NEW copy, SplitOrder(r.order, n, r.table, chosen, copy)
          PROVE  FALSE
      <4>1. order' = NewOrder(n, r.table)
        BY <3>2 DEF SplitOrder
      <4> QED
        BY <2>5, <4>1
    <3>3. ~ \E i, q : AddItems(r.order, [x \in {i} |-> 1]) \/ UpdateItem(i, q) \/ RemoveItem(i)
      BY <2>2 DEF AddItems, UpdateItem, RemoveItem
    <3>4. ~ \E k, q, s : CreateKot(k, r.order, q) \/ SetKotStatus(k, s) \/ CancelKot(k)
      BY <2>2 DEF CreateKot, SetKotStatus, CancelKot
    <3>5. ~ CreateTable(r.table) /\ ~ DeleteTable(r.table)
      BY <2>2 DEF CreateTable, DeleteTable
    <3> QED
      BY <2>3, <2>6, <2>7, <2>8, <3>1, <3>2, <3>3, <3>4, <3>5 DEF Serve
  <2>10. r \notin reqs'
    BY <2>9 DEF Done, Gone
  <2>11. o \in OrdersAt(r.table)
    BY <2>9 DEF ReleaseTable
  <2>12. r.cancel
    BY <2>9, <2>11 DEF ReleaseTable
  <2>13. "items" \in r.says
    BY <2>4, <2>9, <2>12 DEF Asks
  <2> QED
    BY <2>9, <2>10, <2>13
<1>2. SSpec => [][Knowingly]_svars
  BY <1>1, ScreenInvHolds, PTL DEF SSpec
<1> QED
  BY <1>2 DEF TabsAreDiscardedKnowingly
=============================================================================
