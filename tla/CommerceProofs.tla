--------------------------- MODULE CommerceProofs ---------------------------
(***************************************************************************)
(* Theorems about module Commerce: any number of orders, SKUs, requests at *)
(* a time and open pages.                                                  *)
(***************************************************************************)
EXTENDS Commerce, TLAPS

Stages == {"idle", "insert", "check", "bill", "error", "note"}
View == [order : Orders \cup {NoOrder}, seen : Nat, retrying : BOOLEAN]

(***************************************************************************)
(* What a request can be at: only a webhook inserts an order or notes an   *)
(* error, and a request about to name an invoice has committed it.         *)
(***************************************************************************)
JobsOK ==
  \A r \in Requests :
    /\ stage[r] = "idle" => job[r].order = NoOrder
    /\ stage[r] \in {"insert", "error"} => ~job[r].retry
    /\ stage[r] = "note" => job[r].invoice \in InvoicesOf(job[r].order)

(***************************************************************************)
(* The strengthening of BilledOnceUnlessRaced: while an order is neither   *)
(* raced nor left by a handler that died, one request at most bills it,    *)
(* and up to its commit there is no invoice.                               *)
(***************************************************************************)
Clean(o) == marks[o] \cap {"raced", "died"} = {}

Unbilled(o) == InvoicesOf(o) = {} /\ orders[o].invoice_id = 0

OrderOK(o) ==
  /\ InvoicesOf(o) # {} => orders[o] # NoRow
  /\ Clean(o) =>
       /\ BilledOnce(o)
       /\ \A r, q \in Billing(o) : r = q
       /\ \A r \in Billing(o) : stage[r] = "bill" => Unbilled(o)

OrdersOK == \A o \in Orders : OrderOK(o)

\* UnbilledSaysWhy, order by order.
Excuses(r, o) == job[r].order = o /\ ~job[r].retry /\ stage[r] # "insert"

Excused(o) ==
  \/ marks[o] \cap {"by hand", "died"} # {}
  \/ \E r \in Requests : Excuses(r, o)

Says(o) == orders[o].invoice_id # 0 \/ orders[o].sync_error

Why(o) == orders[o] # NoRow /\ ~Excused(o) => Says(o)

CommerceInv == TypeOK /\ JobsOK /\ OrdersOK /\ UnbilledSaysWhy

(***************************************************************************)
(* A request goes to its next stage.                                       *)
(***************************************************************************)
LEMMA Moved ==
    ASSUME TypeOK, NEW r \in Requests, NEW at \in Stages, NEW what \in Job, Begin(r, at, what)
    PROVE  /\ stage' \in [Requests -> Stages] /\ job' \in [Requests -> Job]
           /\ stage'[r] = at /\ job'[r] = what
           /\ \A q \in Requests \ {r} : stage'[q] = stage[q] /\ job'[q] = job[q]
BY DEF TypeOK, Begin, Stages

\* The invoice a request commits.
Committed(r) == [order |-> job[r].order, lines |-> orders[job[r].order].mapped]

LEMMA AppendType ==
    ASSUME NEW S, NEW q \in Seq(S), NEW e \in S
    PROVE  /\ Append(q, e) \in Seq(S)
           /\ Len(q) \in Nat /\ Len(Append(q, e)) = Len(q) + 1
           /\ Append(q, e)[Len(q) + 1] = e
           /\ \A i \in 1..Len(q) : Append(q, e)[i] = q[i]
OBVIOUS

LEMMA JobEdits ==
    ASSUME NEW j \in Job
    PROVE  /\ \A n \in Nat : /\ [j EXCEPT !.invoice = n] \in Job
                            /\ [j EXCEPT !.invoice = n].order = j.order
                            /\ [j EXCEPT !.invoice = n].retry = j.retry
                            /\ [j EXCEPT !.invoice = n].invoice = n
           /\ [j EXCEPT !.screen = NoScreen] \in Job
           /\ [j EXCEPT !.screen = NoScreen].order = j.order
           /\ [j EXCEPT !.screen = NoScreen].retry = j.retry
           /\ [j EXCEPT !.screen = NoScreen].invoice = j.invoice
BY DEF Job

LEMMA NoJobOK == NoJob \in Job /\ NoJob.order = NoOrder
<1>1. NoOrder \in Orders \cup {NoOrder} /\ NoScreen \in Screens \cup {NoScreen} /\ 0 \in Nat
      /\ {} \in SUBSET Skus /\ FALSE \in BOOLEAN
  OBVIOUS
<1> QED
  BY <1>1, Zenon DEF NoJob, Job

LEMMA Ended ==
    ASSUME TypeOK, NEW r \in Requests, End(r)
    PROVE  /\ stage' \in [Requests -> Stages] /\ job' \in [Requests -> Job]
           /\ stage'[r] = "idle" /\ job'[r] = NoJob
           /\ \A q \in Requests \ {r} : stage'[q] = stage[q] /\ job'[q] = job[q]
           /\ screens' \in [Screens -> View]
           /\ \A s \in Screens : screens'[s].order = screens[s].order
<1>1. Begin(r, "idle", NoJob)
  BY DEF End
<1>2. screens' \in [Screens -> View] /\ \A s \in Screens : screens'[s].order = screens[s].order
  <2>1. screens \in [Screens -> View]
    BY DEF TypeOK, View
  <2>2. \A s \in Screens : /\ [screens[s] EXCEPT !.retrying = FALSE] \in View
                           /\ [screens[s] EXCEPT !.retrying = FALSE].order = screens[s].order
    BY <2>1 DEF View
  <2> QED
    BY <2>1, <2>2 DEF End
<1> QED
  BY <1>1, <1>2, NoJobOK, Moved DEF Stages

LEMMA RowEdits ==
    ASSUME NEW w \in Row
    PROVE  /\ \A b \in BOOLEAN : [w EXCEPT !.sync_error = b] \in Row
           /\ \A m \in SUBSET Skus : [w EXCEPT !.mapped = m] \in Row
           /\ w # NoRow => [w EXCEPT !.sync_error = TRUE].invoice_id = w.invoice_id
           /\ [w EXCEPT !.sync_error = TRUE].sync_error = TRUE
BY DEF Row

(***************************************************************************)
(* Types are kept.                                                         *)
(***************************************************************************)
RequestsOK ==
  /\ \A r \in Requests :
       /\ stage[r] # "idle" => job[r].order \in Orders
       /\ stage[r] \notin {"idle", "insert"} => orders[job[r].order] # NoRow
  /\ \A s \in Screens : screens[s].order # NoOrder => orders[screens[s].order] # NoRow

LEMMA TypeStep == ASSUME TypeOK, [Next]_vars PROVE TypeOK'
<1> USE CommerceAssumption, NoRowAssumption
<1>t. /\ config \in Config
      /\ mappings \subseteq Skus /\ backfilling \subseteq mappings
      /\ orders \in [Orders -> Row \cup {NoRow}]
      /\ invoices \in Seq([order : Orders, lines : SUBSET Skus])
      /\ stage \in [Requests -> Stages] /\ job \in [Requests -> Job]
      /\ screens \in [Screens -> View]
      /\ marks \in [Orders -> SUBSET {"by hand", "raced", "died"}]
      /\ RequestsOK
  BY DEF TypeOK, Stages, View, RequestsOK
<1>q. /\ config' \in Config
      /\ mappings' \subseteq Skus /\ backfilling' \subseteq mappings'
      /\ orders' \in [Orders -> Row \cup {NoRow}]
      /\ invoices' \in Seq([order : Orders, lines : SUBSET Skus])
      /\ stage' \in [Requests -> Stages] /\ job' \in [Requests -> Job]
      /\ screens' \in [Screens -> View]
      /\ marks' \in [Orders -> SUBSET {"by hand", "raced", "died"}]
      /\ RequestsOK'
      => TypeOK'
  BY DEF TypeOK, Stages, View, RequestsOK
<1>0. CASE UNCHANGED vars
  BY <1>0, <1>t, <1>q DEF vars, RequestsOK
<1>1. CASE Settings
  <2>1. config' \in Config
    <3>1. ASSUME NEW a \in BOOLEAN, NEW b \in BOOLEAN, update_config(a, b)
          PROVE  config' \in Config
      <4>1. config.known \in BOOLEAN
        BY <1>t DEF Config
      <4> QED
        BY <3>1, <4>1, Zenon DEF update_config, Config
    <3>2. \A b \in BOOLEAN : [config EXCEPT !.known = b] \in Config
      BY <1>t DEF Config
    <3>3. TRUE \in BOOLEAN /\ FALSE \in BOOLEAN
      OBVIOUS
    <3> QED
      BY <1>1, <3>1, <3>2, <3>3 DEF Settings, regenerate_webhook_token, PlatformLearnsToken
  <2>2. UNCHANGED <<mappings, backfilling, server>>
    BY <1>1 DEF Settings, update_config, regenerate_webhook_token, PlatformLearnsToken
  <2> QED
    BY <2>1, <2>2, <1>t, <1>q DEF server, RequestsOK
<1>2. CASE Mapping
  <2>1. ASSUME NEW sku \in Skus, create_mapping(sku) \/ DieBeforeBackfill(sku)
        PROVE  TypeOK'
    BY <2>1, <1>t, <1>q DEF create_mapping, DieBeforeBackfill, server, RequestsOK
  <2>2. ASSUME NEW sku \in Skus, Backfill(sku)
        PROVE  TypeOK'
    <3>1. ASSUME NEW o \in Orders
          PROVE  /\ orders'[o] \in Row \cup {NoRow}
                 /\ orders[o] # NoRow => orders'[o] # NoRow
      <4>1. CASE orders[o] = NoRow
        BY <2>2, <4>1 DEF Backfill
      <4>2. CASE orders[o] # NoRow
        <5>1. orders[o] \in Row
          BY <4>2, <1>t
        <5>2. orders[o].mapped \in SUBSET Skus
          BY <5>1 DEF Row
        <5>3. orders[o].mapped \cup ({sku} \cap Contents[o]) \in SUBSET Skus
          BY <5>2
        <5> DEFINE m == orders[o].mapped \cup ({sku} \cap Contents[o])
        <5>4. orders'[o] = [orders[o] EXCEPT !.mapped = m]
          BY <2>2, <4>2 DEF Backfill
        <5> HIDE DEF m
        <5> QED
          BY <5>1, <5>3, <5>4, RowEdits DEF m
      <4> QED
        BY <4>1, <4>2
    <3>2. orders' \in [Orders -> Row \cup {NoRow}]
      BY <3>1, <2>2 DEF Backfill
    <3>3. UNCHANGED <<config, mappings, invoices, stage, job, screens, marks>>
          /\ backfilling' \subseteq mappings
      BY <2>2, <1>t DEF Backfill
    <3>4. RequestsOK'
      <4>1. \A s \in Screens : screens[s].order \in Orders \cup {NoOrder}
        BY <1>t DEF View
      <4>2. \A p \in Orders : orders[p] # NoRow => orders'[p] # NoRow
        BY <3>1
      <4> QED
        BY <3>3, <4>1, <4>2, <1>t DEF RequestsOK
    <3> QED
      BY <3>2, <3>3, <3>4, <1>t, <1>q
  <2> QED
    BY <1>2, <2>1, <2>2 DEF Mapping
<1>3. CASE Arrival
  <2>1. PICK r \in Requests, o \in Orders, c \in BOOLEAN : Lookup(r, o, c)
    <3>1. FALSE \in BOOLEAN
      OBVIOUS
    <3> QED
      BY <1>3, <3>1 DEF Arrival, receive_webhook, trigger_mock_order
  <2> DEFINE j == [order |-> o, screen |-> NoScreen, retry |-> FALSE,
                   cancelled |-> c, mapped |-> mappings, invoice |-> 0]
  <2>2. j \in Job /\ j.order = o
    <3>1. /\ o \in Orders \cup {NoOrder} /\ NoScreen \in Screens \cup {NoScreen}
          /\ FALSE \in BOOLEAN /\ mappings \in SUBSET Skus /\ 0 \in Nat
      BY <1>t
    <3> QED
      BY <3>1, Zenon DEF Job
  <2>3. UNCHANGED <<config, mappings, backfilling, orders, invoices, screens, marks>>
    BY <2>1 DEF Lookup
  <2>4. CASE UNCHANGED <<stage, job>>
    BY <2>3, <2>4, <1>t, <1>q DEF RequestsOK
  <2>5. CASE Begin(r, "insert", j)
    <3> HIDE DEF j
    <3>1. /\ stage' \in [Requests -> Stages] /\ job' \in [Requests -> Job]
          /\ stage'[r] = "insert" /\ job'[r] = j
          /\ \A q \in Requests \ {r} : stage'[q] = stage[q] /\ job'[q] = job[q]
      BY <2>2, <2>5, Moved DEF Stages
    <3>2. RequestsOK'
      BY <3>1, <2>2, <2>3, <1>t DEF RequestsOK
    <3> QED
      BY <3>1, <3>2, <2>3, <1>t, <1>q
  <2> QED
    BY <2>1, <2>4, <2>5 DEF Lookup, ReturnExisting
<1>4. CASE Page
  <2>1. ASSUME NEW s \in Screens, NEW o \in Orders, OpenOrder(s, o)
        PROVE  TypeOK'
    <3>1. screens' \in [Screens -> View]
      <4>1. orders[o].invoice_id \in Nat
        BY <2>1, <1>t DEF OpenOrder, Row
      <4>2. [order |-> o, seen |-> orders[o].invoice_id, retrying |-> FALSE] \in View
        <5>1. o \in Orders \cup {NoOrder} /\ FALSE \in BOOLEAN
          OBVIOUS
        <5> QED
          BY <4>1, <5>1, Zenon DEF View
      <4> QED
        BY <2>1, <4>2, <1>t DEF OpenOrder
    <3>2. orders[o] # NoRow /\ screens'[s].order = o
          /\ \A t \in Screens \ {s} : screens'[t] = screens[t]
      BY <2>1, <1>t DEF OpenOrder
    <3>3. UNCHANGED <<config, mappings, backfilling, orders, invoices, stage, job, marks>>
      BY <2>1 DEF OpenOrder
    <3>4. RequestsOK'
      BY <3>2, <3>3, <1>t DEF RequestsOK
    <3> QED
      BY <3>1, <3>3, <3>4, <1>t, <1>q
  <2>2. ASSUME NEW s \in Screens, NEW r \in Requests, PressRetry(s, r)
        PROVE  TypeOK'
    <3> DEFINE o == screens[s].order
               j == [order |-> o, screen |-> s, retry |-> TRUE,
                     cancelled |-> FALSE, mapped |-> {}, invoice |-> 0]
    <3>1. o \in Orders
      BY <2>2, <1>t DEF PressRetry, View
    <3>2. j \in Job /\ j.order = o
      <4>1. /\ o \in Orders \cup {NoOrder} /\ s \in Screens \cup {NoScreen}
            /\ FALSE \in BOOLEAN /\ TRUE \in BOOLEAN /\ {} \in SUBSET Skus /\ 0 \in Nat
        BY <3>1
      <4> HIDE DEF o
      <4> QED
        BY <4>1, Zenon DEF Job
    <3>3. screens' \in [Screens -> View]
      <4>1. [order |-> o, seen |-> 0, retrying |-> TRUE] \in View
        <5>1. o \in Orders \cup {NoOrder} /\ TRUE \in BOOLEAN /\ 0 \in Nat
          BY <3>1
        <5> HIDE DEF o
        <5> QED
          BY <5>1, Zenon DEF View
      <4> QED
        BY <2>2, <4>1, <1>t DEF PressRetry
    <3>4. /\ Begin(r, "check", j) /\ stage[r] = "idle" /\ orders' = orders
          /\ UNCHANGED <<config, mappings, backfilling, invoices, marks>>
      BY <2>2 DEF PressRetry
    <3>5. orders[o] # NoRow
      BY <2>2, <1>t DEF PressRetry, RequestsOK
    <3> HIDE DEF j, o
    <3>6. /\ stage' \in [Requests -> Stages] /\ job' \in [Requests -> Job]
          /\ stage'[r] = "check" /\ job'[r] = j
          /\ \A q \in Requests \ {r} : stage'[q] = stage[q] /\ job'[q] = job[q]
      BY <3>2, <3>4, Moved DEF Stages
    <3>7. RequestsOK'
      <4>1. \A t \in Screens : screens'[t].order = screens[t].order
        BY <2>2, <1>t DEF PressRetry
      <4> QED
        BY <3>1, <3>2, <3>4, <3>5, <3>6, <4>1, <1>t DEF RequestsOK
    <3> QED
      BY <3>3, <3>4, <3>6, <3>7, <1>t, <1>q
  <2> QED
    BY <1>4, <2>1, <2>2 DEF Page
<1>5. ASSUME NEW r \in Requests, Handler(r) \/ LoseAnswer(r) \/ Die(r)
      PROVE  TypeOK'
  <2> DEFINE o == job[r].order
  <2>0. job[r] \in Job /\ (stage[r] # "idle" => o \in Orders)
    BY <1>t DEF RequestsOK
  <2>1. ASSUME End(r), UNCHANGED <<config, mappings, backfilling, invoices>>,
               orders' \in [Orders -> Row \cup {NoRow}],
               \A p \in Orders : orders[p] # NoRow => orders'[p] # NoRow,
               marks' \in [Orders -> SUBSET {"by hand", "raced", "died"}]
        PROVE  TypeOK'
    <3>1. /\ stage' \in [Requests -> Stages] /\ job' \in [Requests -> Job]
          /\ stage'[r] = "idle" /\ job'[r] = NoJob
          /\ \A q \in Requests \ {r} : stage'[q] = stage[q] /\ job'[q] = job[q]
          /\ screens' \in [Screens -> View]
          /\ \A s \in Screens : screens'[s].order = screens[s].order
      BY <2>1, Ended
    <3>2. RequestsOK'
      <4>1. \A s \in Screens : screens[s].order \in Orders \cup {NoOrder}
        BY <1>t DEF View
      <4> QED
        BY <2>1, <3>1, <4>1, <1>t DEF RequestsOK
    <3> QED
      BY <2>1, <3>1, <3>2, <1>t, <1>q
  <2>2. ASSUME NEW at \in Stages, NEW what \in Job, Begin(r, at, what),
               at # "idle", what.order = o, stage[r] # "idle",
               UNCHANGED <<config, mappings, backfilling, screens>>,
               invoices' \in Seq([order : Orders, lines : SUBSET Skus]),
               orders' \in [Orders -> Row \cup {NoRow}], orders'[o] # NoRow,
               \A p \in Orders : orders[p] # NoRow => orders'[p] # NoRow,
               marks' \in [Orders -> SUBSET {"by hand", "raced", "died"}]
        PROVE  TypeOK'
    <3>1. /\ stage' \in [Requests -> Stages] /\ job' \in [Requests -> Job]
          /\ stage'[r] = at /\ job'[r] = what
          /\ \A q \in Requests \ {r} : stage'[q] = stage[q] /\ job'[q] = job[q]
      BY <2>2, Moved
    <3>2. RequestsOK'
      <4>1. \A s \in Screens : screens[s].order \in Orders \cup {NoOrder}
        BY <1>t DEF View
      <4> QED
        BY <2>0, <2>2, <3>1, <4>1, <1>t DEF RequestsOK
    <3> QED
      BY <2>2, <3>1, <3>2, <1>t, <1>q
  <2>3. CASE InsertOrder(r)
    <3>1. stage[r] = "insert" /\ o \in Orders
          /\ UNCHANGED <<config, mappings, backfilling, invoices, marks>>
      BY <2>0, <2>3 DEF InsertOrder
    <3>2. CASE orders[o] # NoRow
      BY <2>1, <2>3, <3>1, <3>2, <1>t DEF InsertOrder
    <3>3. CASE orders[o] = NoRow
      <4> DEFINE w == [cancelled |-> job[r].cancelled, mapped |-> job[r].mapped \cap Contents[o],
                       invoice_id |-> 0, sync_error |-> FALSE]
      <4>1. w \in Row
        <5>1. /\ job[r].cancelled \in BOOLEAN /\ job[r].mapped \cap Contents[o] \in SUBSET Skus
              /\ 0 \in Nat /\ FALSE \in BOOLEAN
          BY <2>0 DEF Job
        <5> QED
          BY <5>1, Zenon DEF Row
      <4>2. orders' = [orders EXCEPT ![o] = w] /\ Begin(r, "bill", job[r]) /\ screens' = screens
        BY <2>3, <3>3 DEF InsertOrder
      <4> HIDE DEF w, o
      <4>3. orders' \in [Orders -> Row \cup {NoRow}] /\ orders'[o] # NoRow
            /\ \A p \in Orders : orders[p] # NoRow => orders'[p] # NoRow
        BY <3>1, <4>1, <4>2, <1>t
      <4> USE DEF o
      <4> QED
        BY <2>0, <2>2, <3>1, <4>2, <4>3, <1>t DEF Stages
    <3> QED
      BY <3>2, <3>3
  <2>4. CASE LeaveUnbilled(r)
    BY <2>0, <2>1, <2>4, <1>t DEF LeaveUnbilled
  <2>5. CASE CreateInvoice(r)
    <3>1. stage[r] = "bill" /\ o \in Orders /\ orders[o] # NoRow
      BY <2>0, <2>5, <1>t DEF CreateInvoice, ToBill, RequestsOK
    <3>2. orders[o].mapped \in SUBSET Skus
      BY <3>1, <1>t DEF Row
    <3>3. invoices' \in Seq([order : Orders, lines : SUBSET Skus])
      <4>1. Committed(r) \in [order : Orders, lines : SUBSET Skus]
        BY <3>1, <3>2 DEF Committed
      <4>2. invoices' = Append(invoices, Committed(r))
        BY <2>5 DEF CreateInvoice, Committed
      <4> QED
        BY <4>1, <4>2, <1>t, Zenon, AppendType
    <3>4. [job[r] EXCEPT !.invoice = Len(invoices) + 1] \in Job
          /\ [job[r] EXCEPT !.invoice = Len(invoices) + 1].order = o
      <4>1. Len(invoices) + 1 \in Nat
        <5>1. Len(invoices) \in Nat
          <6> DEFINE S == [order : Orders, lines : SUBSET Skus]
          <6>1. invoices \in Seq(S)
            BY <1>t
          <6> HIDE DEF S
          <6> QED
            BY <6>1
        <5> QED
          BY <5>1
      <4> DEFINE n == Len(invoices) + 1
      <4> HIDE DEF n
      <4>2. n \in Nat
        BY <4>1 DEF n
      <4>3. [job[r] EXCEPT !.invoice = n] \in Job /\ [job[r] EXCEPT !.invoice = n].order = o
        BY <2>0, <4>2, JobEdits
      <4> QED
        BY <4>3 DEF n
    <3> QED
      BY <2>2, <2>5, <3>1, <3>3, <3>4, <1>t DEF CreateInvoice, Stages
  <2>6. CASE RefuseInvoice(r)
    <3>1. stage[r] = "bill" /\ o \in Orders /\ orders[o] # NoRow
      BY <2>0, <2>6, <1>t DEF RefuseInvoice, ToBill, RequestsOK
    <3>2. CASE End(r)
      BY <2>1, <2>6, <3>2, <1>t DEF RefuseInvoice
    <3>3. CASE Begin(r, "error", job[r]) /\ UNCHANGED screens
      BY <2>0, <2>2, <2>6, <3>1, <3>3, <1>t DEF RefuseInvoice, Stages
    <3> QED
      BY <2>6, <3>2, <3>3 DEF RefuseInvoice
  <2>7. CASE NoteError(r)
    <3>1. o \in Orders /\ orders[o] # NoRow
      BY <2>0, <2>7, <1>t DEF NoteError, RequestsOK
    <3>2. WithError(o) \in Row
      <4>1. orders[o] \in Row /\ TRUE \in BOOLEAN
        BY <3>1, <1>t
      <4> QED
        BY <4>1, RowEdits DEF WithError
    <3>3. orders' = [orders EXCEPT ![o] = WithError(o)]
      BY <2>7 DEF NoteError
    <3> QED
      BY <2>1, <2>7, <3>1, <3>2, <3>3, <1>t DEF NoteError
  <2>8. CASE NoteInvoice(r)
    <3>1. o \in Orders /\ orders[o] # NoRow
      BY <2>0, <2>8, <1>t DEF NoteInvoice, RequestsOK
    <3> DEFINE w == [cancelled |-> orders[o].cancelled, mapped |-> orders[o].mapped,
                     invoice_id |-> job[r].invoice, sync_error |-> FALSE]
    <3>2. w \in Row
      <4>1. /\ orders[o].cancelled \in BOOLEAN /\ orders[o].mapped \in SUBSET Skus
            /\ job[r].invoice \in Nat /\ FALSE \in BOOLEAN
        BY <2>0, <3>1, <1>t DEF Row, Job
      <4> QED
        BY <4>1, Zenon DEF Row
    <3>3. orders' = [orders EXCEPT ![o] = w] /\ End(r)
          /\ UNCHANGED <<config, mappings, backfilling, invoices, marks>>
      BY <2>8 DEF NoteInvoice
    <3> HIDE DEF w
    <3> QED
      BY <2>1, <3>1, <3>2, <3>3, <1>t
  <2>9. CASE retry_billing(r)
    <3>1. stage[r] = "check" /\ o \in Orders /\ orders[o] # NoRow
      BY <2>0, <2>9, <1>t DEF retry_billing, RequestsOK
    <3>2. CASE End(r) /\ UNCHANGED marks
      BY <2>1, <2>9, <3>2, <1>t DEF retry_billing
    <3>3. CASE ~(End(r) /\ UNCHANGED marks)
      <4>1. marks' \in [Orders -> SUBSET {"by hand", "raced", "died"}]
        <5>1. marks[o] \cup {"raced"} \in SUBSET {"by hand", "raced", "died"}
              /\ marks[o] \in SUBSET {"by hand", "raced", "died"}
          BY <3>1, <1>t
        <5>2. marks' = [marks EXCEPT ![o] = marks[o]]
              \/ marks' = [marks EXCEPT ![o] = marks[o] \cup {"raced"}]
          BY <2>9, <3>3 DEF retry_billing
        <5> QED
          BY <3>1, <5>1, <5>2, <1>t
      <4> QED
        BY <2>0, <2>2, <2>9, <3>1, <3>3, <4>1, <1>t DEF retry_billing, Stages
    <3> QED
      BY <3>2, <3>3
  <2>10. CASE LoseAnswer(r)
    <3> DEFINE s == job[r].screen
    <3>1. s \in Screens /\ s # NoScreen
      BY <2>0, <2>10 DEF LoseAnswer, Job
    <3>2. [job[r] EXCEPT !.screen = NoScreen] \in Job
          /\ [job[r] EXCEPT !.screen = NoScreen].order = o
      BY <2>0, JobEdits
    <3>3. [screens[s] EXCEPT !.retrying = FALSE] \in View
          /\ [screens[s] EXCEPT !.retrying = FALSE].order = screens[s].order
      <4> HIDE DEF s
      <4>1. screens[s] \in View /\ FALSE \in BOOLEAN
        BY <3>1, <1>t
      <4> QED
        BY <4>1 DEF View
    <3>4. job' = [job EXCEPT ![r] = [job[r] EXCEPT !.screen = NoScreen]]
          /\ screens' = [screens EXCEPT ![s] = [screens[s] EXCEPT !.retrying = FALSE]]
          /\ UNCHANGED <<config, mappings, backfilling, orders, invoices, stage, marks>>
      BY <2>10 DEF LoseAnswer
    <3> HIDE DEF s
    <3>5. job' \in [Requests -> Job] /\ screens' \in [Screens -> View]
          /\ (\A q \in Requests : job'[q].order = job[q].order)
          /\ (\A t \in Screens : screens'[t].order = screens[t].order)
      BY <3>1, <3>2, <3>3, <3>4, <1>t
    <3>6. RequestsOK'
      BY <3>4, <3>5, <1>t DEF RequestsOK
    <3> QED
      BY <3>4, <3>5, <3>6, <1>t, <1>q
  <2>11. CASE Die(r)
    BY <2>0, <2>1, <2>11, <1>t DEF Die
  <2> QED
    BY <1>5, <2>3, <2>4, <2>5, <2>6, <2>7, <2>8, <2>9, <2>10, <2>11 DEF Handler
<1> QED
  BY <1>0, <1>1, <1>2, <1>3, <1>4, <1>5 DEF Next

(***************************************************************************)
(* What one step of a request leaves alone.                                *)
(***************************************************************************)
Others(r) == \A q \in Requests \ {r} : stage'[q] = stage[q] /\ job'[q] = job[q]

\* No row is lost and none names another invoice; no history is lost.
RowsKept ==
  \A o \in Orders : /\ orders[o] # NoRow => orders'[o] # NoRow
                    /\ orders'[o].invoice_id = orders[o].invoice_id
                    /\ marks[o] \subseteq marks'[o]

ErrorsKept ==
  \A o \in Orders : /\ orders'[o] # NoRow => orders[o] # NoRow
                    /\ orders'[o].sync_error = orders[o].sync_error

\* The requests are at the same stages of the same billings.
RequestsKept ==
  /\ stage' = stage
  /\ \A q \in Requests : /\ job'[q].order = job[q].order /\ job'[q].retry = job[q].retry
                         /\ job'[q].invoice = job[q].invoice

Quiet == RequestsKept /\ RowsKept /\ ErrorsKept /\ UNCHANGED invoices

LEMMA EndedBriefly ==
    ASSUME TypeOK, NEW r \in Requests, End(r)
    PROVE  Others(r) /\ stage'[r] = "idle" /\ job'[r].order = NoOrder
BY Ended, NoJobOK DEF Others

LEMMA InvoicesSame == ASSUME UNCHANGED invoices PROVE \A o : InvoicesOf(o)' = InvoicesOf(o)
BY DEF InvoicesOf

LEMMA WhyForAll == UnbilledSaysWhy <=> \A o \in Orders : Why(o)
BY DEF UnbilledSaysWhy, Why, Excused, Excuses, Says

(***************************************************************************)
(* The steps of the owner and of the pages, except a press of "Retry        *)
(* billing", are quiet, and so is the loss of an answer.                   *)
(***************************************************************************)
LEMMA QuietSteps ==
    ASSUME TypeOK
    PROVE  /\ UNCHANGED vars => Quiet
           /\ Settings => Quiet
           /\ Mapping => Quiet
           /\ \A s \in Screens, o \in Orders : OpenOrder(s, o) => Quiet
           /\ \A r \in Requests : LoseAnswer(r) => Quiet
<1> USE CommerceAssumption
<1>1. UNCHANGED <<orders, invoices, stage, job, marks>> => Quiet
  BY DEF Quiet, RequestsKept, RowsKept, ErrorsKept
<1>2. ASSUME NEW sku \in Skus, Backfill(sku)
      PROVE  Quiet
  <2>1. ASSUME NEW o \in Orders
        PROVE  /\ orders'[o] # NoRow <=> orders[o] # NoRow
               /\ orders'[o].invoice_id = orders[o].invoice_id
               /\ orders'[o].sync_error = orders[o].sync_error
    <3>1. CASE orders[o] = NoRow
      BY <1>2, <3>1 DEF Backfill
    <3>2. CASE orders[o] # NoRow
      <4>1. orders[o] \in Row
        BY <3>2 DEF TypeOK
      <4> DEFINE m == orders[o].mapped \cup ({sku} \cap Contents[o])
      <4>2. orders'[o] = [orders[o] EXCEPT !.mapped = m]
        BY <1>2, <3>2 DEF Backfill
      <4>3. orders[o].mapped \in SUBSET Skus
        BY <4>1 DEF Row
      <4>4. m \in SUBSET Skus
        BY <4>3
      <4> HIDE DEF m
      <4>5. orders'[o] \in Row
        BY <4>1, <4>2, <4>4, RowEdits
      <4>6. orders'[o] # NoRow
        BY <4>5, NoRowAssumption
      <4> QED
        BY <3>2, <4>1, <4>2, <4>6 DEF Row
    <3> QED
      BY <3>1, <3>2
  <2> QED
    BY <1>2, <2>1 DEF Backfill, Quiet, RequestsKept, RowsKept, ErrorsKept
<1>3. ASSUME NEW r \in Requests, LoseAnswer(r)
      PROVE  Quiet
  <2>1. job[r] \in Job /\ job \in [Requests -> Job]
    BY DEF TypeOK
  <2>2. job' = [job EXCEPT ![r] = [job[r] EXCEPT !.screen = NoScreen]]
        /\ UNCHANGED <<orders, invoices, stage, marks>>
    BY <1>3 DEF LoseAnswer
  <2>3. RequestsKept
    BY <2>1, <2>2, JobEdits DEF RequestsKept
  <2> QED
    BY <2>2, <2>3 DEF Quiet, RowsKept, ErrorsKept
<1> QED
  BY <1>1, <1>2, <1>3 DEF vars, server, Settings, Mapping, OpenOrder, update_config,
     regenerate_webhook_token, PlatformLearnsToken, create_mapping, DieBeforeBackfill

(***************************************************************************)
(* The commit of an invoice adds one to its order and none to any other.   *)
(***************************************************************************)
LEMMA OneMore ==
    ASSUME TypeOK, NEW r \in Requests, CreateInvoice(r)
    PROVE  /\ job[r].order \in Orders /\ Len(invoices) \in Nat
           /\ \A o \in Orders : InvoicesOf(o)' =
                IF o = job[r].order THEN InvoicesOf(o) \cup {Len(invoices) + 1} ELSE InvoicesOf(o)
           /\ Others(r) /\ stage[r] = "bill" /\ stage'[r] = "note"
           /\ job'[r].order = job[r].order /\ job'[r].retry = job[r].retry
           /\ job'[r].invoice = Len(invoices) + 1
<1> DEFINE S == [order : Orders, lines : SUBSET Skus]
           e == Committed(r)
           n == Len(invoices) + 1
<1>1. stage[r] = "bill" /\ job[r].order \in Orders /\ orders[job[r].order] \in Row
  BY DEF TypeOK, CreateInvoice, ToBill
<1>2. e \in S /\ e.order = job[r].order
  BY <1>1 DEF Committed, Row
<1>3. invoices \in Seq(S) /\ invoices' = Append(invoices, e)
  BY DEF TypeOK, CreateInvoice, Committed
<1>4. job[r] \in Job /\ Begin(r, "note", [job[r] EXCEPT !.invoice = n])
  BY DEF TypeOK, CreateInvoice
<1> HIDE DEF S, e
<1>5. /\ Len(invoices) \in Nat /\ Len(invoices') = Len(invoices) + 1
      /\ invoices'[Len(invoices) + 1] = e
      /\ \A i \in 1..Len(invoices) : invoices'[i] = invoices[i]
  BY <1>2, <1>3, AppendType
<1>6. ASSUME NEW o \in Orders
      PROVE  InvoicesOf(o)' = IF o = job[r].order THEN InvoicesOf(o) \cup {Len(invoices) + 1}
                              ELSE InvoicesOf(o)
  <2>1. 1..Len(invoices') = 1..Len(invoices) \cup {Len(invoices) + 1}
    BY <1>5
  <2>2. InvoicesOf(o)' = {i \in 1..Len(invoices') : invoices'[i].order = o}
    BY DEF InvoicesOf
  <2>3. InvoicesOf(o) = {i \in 1..Len(invoices) : invoices[i].order = o}
    BY DEF InvoicesOf
  <2> QED
    BY <1>2, <1>5, <2>1, <2>2, <2>3
<1>7. n \in Nat
  BY <1>5
<1> HIDE DEF n
<1>8. /\ [job[r] EXCEPT !.invoice = n] \in Job
      /\ [job[r] EXCEPT !.invoice = n].order = job[r].order
      /\ [job[r] EXCEPT !.invoice = n].retry = job[r].retry
      /\ [job[r] EXCEPT !.invoice = n].invoice = n
  BY <1>4, <1>7, JobEdits
<1>9. Others(r) /\ stage'[r] = "note" /\ job'[r] = [job[r] EXCEPT !.invoice = n]
  BY <1>4, <1>8, Moved DEF Others, Stages
<1> QED
  BY <1>1, <1>5, <1>6, <1>8, <1>9 DEF n

(***************************************************************************)
(* A request goes on or ends without a new invoice.                        *)
(***************************************************************************)
LEMMA JobsKept ==
    ASSUME JobsOK, NEW r \in Requests, Others(r), UNCHANGED invoices,
           stage'[r] = "idle" => job'[r].order = NoOrder,
           stage'[r] \in {"insert", "error"} => ~job'[r].retry,
           stage'[r] # "note"
    PROVE  JobsOK'
BY InvoicesSame DEF JobsOK, Others

LEMMA JobsStep == ASSUME TypeOK, JobsOK, [Next]_vars PROVE JobsOK'
<1>0. ASSUME Quiet PROVE JobsOK'
  BY <1>0, InvoicesSame DEF Quiet, RequestsKept, JobsOK
<1>1. CASE UNCHANGED vars \/ Settings \/ Mapping
  BY <1>0, <1>1, QuietSteps
<1>2. CASE Arrival
  <2>1. PICK r \in Requests, o \in Orders, c \in BOOLEAN : Lookup(r, o, c)
    <3>1. FALSE \in BOOLEAN
      OBVIOUS
    <3> QED
      BY <1>2, <3>1 DEF Arrival, receive_webhook, trigger_mock_order
  <2>2. PICK w : UNCHANGED <<stage, job>> \/ (Begin(r, "insert", w) /\ ~w.retry)
    BY <2>1 DEF Lookup, ReturnExisting
  <2>3. UNCHANGED invoices
    BY <2>1 DEF Lookup
  <2>4. CASE UNCHANGED <<stage, job>>
    BY <2>3, <2>4, InvoicesSame DEF JobsOK
  <2>5. CASE Begin(r, "insert", w) /\ ~w.retry
    <3>1. Others(r) /\ stage'[r] = "insert" /\ job'[r] = w
      BY <2>5 DEF Begin, TypeOK, Others
    <3> QED
      BY <2>3, <2>5, <3>1, JobsKept
  <2> QED
    BY <2>2, <2>4, <2>5
<1>3. CASE Page
  <2>1. ASSUME NEW s \in Screens, NEW r \in Requests, PressRetry(s, r)
        PROVE  JobsOK'
    <3>1. Others(r) /\ stage'[r] = "check" /\ UNCHANGED invoices
      BY <2>1 DEF PressRetry, Begin, TypeOK, Others
    <3> QED
      BY <3>1, JobsKept
  <2> QED
    BY <1>0, <1>3, <2>1, QuietSteps DEF Page
<1>4. ASSUME NEW r \in Requests, Handler(r) \/ LoseAnswer(r) \/ Die(r)
      PROVE  JobsOK'
  <2>1. ASSUME End(r), UNCHANGED invoices
        PROVE  JobsOK'
    BY <2>1, EndedBriefly, JobsKept
  <2>2. ASSUME NEW at \in {"bill", "error"}, Begin(r, at, job[r]), UNCHANGED invoices,
               at = "error" => ~job[r].retry
        PROVE  JobsOK'
    <3>1. Others(r) /\ stage'[r] = at /\ job'[r] = job[r]
      BY <2>2 DEF Begin, TypeOK, Others
    <3> QED
      BY <2>2, <3>1, JobsKept
  <2>3. CASE CreateInvoice(r)
    <3>1. ASSUME NEW q \in Requests
          PROVE  /\ stage'[q] = "idle" => job'[q].order = NoOrder
                 /\ stage'[q] \in {"insert", "error"} => ~job'[q].retry
                 /\ stage'[q] = "note" => job'[q].invoice \in InvoicesOf(job[q].order)'
      <4>1. CASE q = r
        BY <2>3, <4>1, OneMore
      <4>2. CASE q # r
        <5>1. stage'[q] = stage[q] /\ job'[q] = job[q]
          BY <2>3, <4>2, OneMore DEF Others
        <5>2. stage[q] = "note" => job[q].order \in Orders
          BY DEF TypeOK
        <5> QED
          BY <2>3, <5>1, <5>2, OneMore DEF JobsOK
      <4> QED
        BY <4>1, <4>2
    <3> QED
      BY <3>1 DEF JobsOK
  <2>4. CASE InsertOrder(r) \/ LeaveUnbilled(r) \/ NoteError(r) \/ NoteInvoice(r) \/ Die(r)
    BY <2>1, <2>2, <2>4 DEF InsertOrder, LeaveUnbilled, NoteError, NoteInvoice, Die
  <2>5. CASE RefuseInvoice(r) \/ retry_billing(r)
    BY <2>1, <2>2, <2>5 DEF RefuseInvoice, retry_billing
  <2>6. CASE LoseAnswer(r)
    BY <1>0, <2>6, QuietSteps
  <2> QED
    BY <1>4, <2>3, <2>4, <2>5, <2>6 DEF Handler
<1> QED
  BY <1>1, <1>2, <1>3, <1>4 DEF Next

(***************************************************************************)
(* What the three commits of an order's row do to the rows.                *)
(***************************************************************************)
LEMMA InsertsRow ==
    ASSUME TypeOK, NEW r \in Requests, InsertOrder(r), orders[job[r].order] = NoRow
    PROVE  /\ job[r].order \in Orders /\ Others(r) /\ stage'[r] = "bill" /\ job'[r] = job[r]
           /\ orders'[job[r].order].invoice_id = 0 /\ orders'[job[r].order] # NoRow
           /\ \A p \in Orders \ {job[r].order} : orders'[p] = orders[p]
<1> DEFINE w == [cancelled |-> job[r].cancelled, mapped |-> job[r].mapped \cap Contents[job[r].order],
                 invoice_id |-> 0, sync_error |-> FALSE]
<1>1. w \in Row /\ w.invoice_id = 0
  <2>1. job[r] \in Job
    BY DEF TypeOK
  <2>2. /\ job[r].cancelled \in BOOLEAN /\ 0 \in Nat /\ FALSE \in BOOLEAN
        /\ job[r].mapped \cap Contents[job[r].order] \in SUBSET Skus
    BY <2>1 DEF Job
  <2>3. w \in Row
    BY <2>2, Zenon DEF Row
  <2> QED
    BY <2>3
<1>2. Begin(r, "bill", job[r]) /\ orders' = [orders EXCEPT ![job[r].order] = w]
  BY DEF InsertOrder
<1>3. job[r].order \in Orders
  BY DEF InsertOrder, TypeOK
<1>4. Others(r) /\ stage'[r] = "bill" /\ job'[r] = job[r]
  BY <1>2 DEF Begin, TypeOK, Others
<1> HIDE DEF w
<1> QED
  BY <1>1, <1>2, <1>3, <1>4, NoRowAssumption DEF TypeOK

LEMMA NotesError ==
    ASSUME TypeOK, NEW r \in Requests, NoteError(r)
    PROVE  /\ job[r].order \in Orders /\ RowsKept
           /\ orders'[job[r].order].sync_error = TRUE
           /\ \A p \in Orders \ {job[r].order} : orders'[p] = orders[p]
<1> DEFINE o == job[r].order
<1>1. o \in Orders /\ orders[o] \in Row /\ UNCHANGED marks
      /\ orders' = [orders EXCEPT ![o] = WithError(o)]
  BY DEF TypeOK, NoteError
<1>2. /\ WithError(o) \in Row /\ WithError(o).invoice_id = orders[o].invoice_id
      /\ WithError(o).sync_error = TRUE
  BY <1>1, NoRowAssumption, RowEdits DEF WithError
<1>3. orders'[o] = WithError(o) /\ \A p \in Orders \ {o} : orders'[p] = orders[p]
  BY <1>1 DEF TypeOK
<1> QED
  BY <1>1, <1>2, <1>3, NoRowAssumption DEF RowsKept

LEMMA NotesInvoice ==
    ASSUME TypeOK, NEW r \in Requests, NoteInvoice(r)
    PROVE  /\ job[r].order \in Orders /\ orders'[job[r].order] # NoRow
           /\ orders'[job[r].order].invoice_id = job[r].invoice
           /\ \A p \in Orders \ {job[r].order} : orders'[p] = orders[p]
<1> DEFINE o == job[r].order
           w == [cancelled |-> orders[o].cancelled, mapped |-> orders[o].mapped,
                 invoice_id |-> job[r].invoice, sync_error |-> FALSE]
<1>1. o \in Orders /\ orders[o] \in Row /\ job[r] \in Job
  BY DEF TypeOK, NoteInvoice
<1>2. w \in Row /\ w.invoice_id = job[r].invoice
  <2>1. /\ orders[o].cancelled \in BOOLEAN /\ orders[o].mapped \in SUBSET Skus
        /\ job[r].invoice \in Nat /\ FALSE \in BOOLEAN
    BY <1>1 DEF Row, Job
  <2>2. w \in Row
    BY <2>1, Zenon DEF Row
  <2> QED
    BY <2>2
<1>3. orders' = [orders EXCEPT ![o] = w]
  BY DEF NoteInvoice
<1> HIDE DEF w
<1> QED
  BY <1>1, <1>2, <1>3, NoRowAssumption DEF TypeOK

(***************************************************************************)
(* A request that no longer bills: it had committed no invoice that the    *)
(* row does not name, unless it died.                                      *)
(***************************************************************************)
LEMMA Leaves ==
    ASSUME OrdersOK, NEW r \in Requests, Others(r), RowsKept, UNCHANGED invoices,
           stage'[r] \notin {"bill", "note"},
           stage[r] = "note" => "died" \in marks'[job[r].order]
    PROVE  OrdersOK'
<1>1. ASSUME NEW o \in Orders
      PROVE  OrderOK(o)'
  <2>1. InvoicesOf(o)' = InvoicesOf(o) /\ Billing(o)' = Billing(o) \ {r}
    BY InvoicesSame DEF Billing, Others
  <2>2. /\ orders[o] # NoRow => orders'[o] # NoRow
        /\ orders'[o].invoice_id = orders[o].invoice_id
        /\ marks[o] \subseteq marks'[o]
    BY DEF RowsKept
  <2>3. OrderOK(o)
    BY DEF OrdersOK
  <2>4. ASSUME Clean(o)'
        PROVE  /\ BilledOnce(o)'
               /\ \A p, q \in Billing(o)' : p = q
               /\ \A q \in Billing(o)' : stage'[q] = "bill" => Unbilled(o)'
    <3>1. Clean(o)
      BY <2>2, <2>4 DEF Clean
    <3>2. \A q \in Billing(o)' : stage'[q] = "bill" => Unbilled(o)'
      BY <2>1, <2>2, <2>3, <3>1 DEF OrderOK, Unbilled, Others, Billing
    <3>3. \A i, j \in InvoicesOf(o)' : i = j
      BY <2>1, <2>3, <3>1 DEF OrderOK, BilledOnce
    <3>4. ASSUME Billing(o)' = {}
          PROVE  \A i \in InvoicesOf(o)' : orders'[o].invoice_id = i
      <4>1. CASE r \notin Billing(o)
        BY <2>1, <2>2, <2>3, <3>1, <3>4, <4>1 DEF OrderOK, BilledOnce
      <4>2. CASE r \in Billing(o)
        <5>1. stage[r] = "bill"
          BY <2>4, <4>2 DEF Billing, Clean
        <5> QED
          BY <2>1, <2>3, <3>1, <4>2, <5>1 DEF OrderOK, Unbilled
      <4> QED
        BY <4>1, <4>2
    <3> QED
      BY <2>1, <2>3, <3>1, <3>2, <3>3, <3>4 DEF OrderOK, BilledOnce
  <2> QED
    BY <2>1, <2>2, <2>3, <2>4 DEF OrderOK
<1> QED
  BY <1>1 DEF OrdersOK

LEMMA OrdersStep == ASSUME TypeOK, JobsOK, OrdersOK, [Next]_vars PROVE OrdersOK'
<1>0. ASSUME Quiet PROVE OrdersOK'
  <2>1. ASSUME NEW o \in Orders
        PROVE  OrderOK(o)'
    <3>1. InvoicesOf(o)' = InvoicesOf(o) /\ Billing(o)' = Billing(o) /\ stage' = stage
      BY <1>0, InvoicesSame DEF Quiet, RequestsKept, Billing
    <3>2. /\ orders[o] # NoRow => orders'[o] # NoRow
          /\ orders'[o].invoice_id = orders[o].invoice_id
          /\ marks[o] \subseteq marks'[o]
      BY <1>0 DEF Quiet, RowsKept
    <3>3. OrderOK(o)
      BY DEF OrdersOK
    <3> QED
      BY <3>1, <3>2, <3>3 DEF OrderOK, Clean, BilledOnce, Unbilled
  <2> QED
    BY <2>1 DEF OrdersOK
<1>1. CASE UNCHANGED vars \/ Settings \/ Mapping
  BY <1>0, <1>1, QuietSteps
<1>2. CASE Arrival
  <2>1. PICK r \in Requests, o \in Orders, c \in BOOLEAN : Lookup(r, o, c)
    <3>1. FALSE \in BOOLEAN
      OBVIOUS
    <3> QED
      BY <1>2, <3>1 DEF Arrival, receive_webhook, trigger_mock_order
  <2>2. PICK w : UNCHANGED <<stage, job>> \/ Begin(r, "insert", w)
    BY <2>1 DEF Lookup, ReturnExisting
  <2>3. Others(r) /\ stage[r] = "idle" /\ stage'[r] \in {"idle", "insert"}
    BY <2>1, <2>2 DEF Begin, TypeOK, Others, Lookup
  <2>4. RowsKept /\ UNCHANGED invoices
    BY <2>1 DEF Lookup, RowsKept
  <2> QED
    BY <2>3, <2>4, Leaves
<1>3. CASE Page
  <2>1. ASSUME NEW s \in Screens, NEW r \in Requests, PressRetry(s, r)
        PROVE  OrdersOK'
    <3>1. Others(r) /\ stage[r] = "idle" /\ stage'[r] = "check" /\ UNCHANGED invoices /\ RowsKept
      BY <2>1 DEF PressRetry, Begin, TypeOK, Others, RowsKept
    <3> QED
      BY <3>1, Leaves
  <2> QED
    BY <1>0, <1>3, <2>1, QuietSteps DEF Page
<1>4. ASSUME NEW r \in Requests, Handler(r) \/ LoseAnswer(r) \/ Die(r)
      PROVE  OrdersOK'
  <2>o. PICK o : o = job[r].order
    OBVIOUS
  <2> USE <2>o
  <2>0. stage[r] # "idle" => o \in Orders
    BY DEF TypeOK
  <2>1. ASSUME End(r), UNCHANGED invoices, RowsKept, stage[r] = "note" => "died" \in marks'[o]
        PROVE  OrdersOK'
    BY <2>1, EndedBriefly, Leaves
  <2>2. CASE InsertOrder(r)
    <3>1. stage[r] = "insert" /\ o \in Orders /\ UNCHANGED <<invoices, marks>>
      BY <2>0, <2>2 DEF InsertOrder
    <3>2. CASE orders[o] # NoRow
      <4>1. End(r) /\ orders' = orders
        BY <2>2, <3>2 DEF InsertOrder
      <4> QED
        BY <2>1, <3>1, <4>1 DEF RowsKept
    <3>3. CASE orders[o] = NoRow
      <4>1. /\ Others(r) /\ stage'[r] = "bill" /\ job'[r] = job[r]
            /\ orders'[o].invoice_id = 0 /\ orders'[o] # NoRow
            /\ \A p \in Orders \ {o} : orders'[p] = orders[p]
        BY <2>2, <3>3, InsertsRow
      <4>3. InvoicesOf(o) = {} /\ Billing(o) = {}
        BY <3>1, <3>3 DEF OrdersOK, OrderOK, Billing, TypeOK
      <4>4. OrderOK(o)'
        <5>1. InvoicesOf(o)' = {} /\ Billing(o)' = {r}
          BY <3>1, <4>1, <4>3, InvoicesSame DEF Billing, Others
        <5> QED
          BY <4>1, <5>1 DEF OrderOK, BilledOnce, Unbilled
      <4>5. ASSUME NEW p \in Orders, p # o
            PROVE  OrderOK(p)'
        <5>1. /\ InvoicesOf(p)' = InvoicesOf(p) /\ Billing(p)' = Billing(p)
              /\ \A q \in Billing(p) : stage'[q] = stage[q]
          BY <3>1, <4>1, <4>5, InvoicesSame DEF Billing, Others
        <5>2. orders'[p] = orders[p] /\ marks'[p] = marks[p] /\ OrderOK(p)
          BY <3>1, <4>1, <4>5 DEF OrdersOK
        <5> QED
          BY <5>1, <5>2 DEF OrderOK, BilledOnce, Unbilled, Clean
      <4> QED
        BY <4>4, <4>5 DEF OrdersOK
    <3> QED
      BY <3>2, <3>3
  <2>3. CASE LeaveUnbilled(r)
    <3>1. RowsKept
      BY <2>0, <2>3 DEF LeaveUnbilled, RowsKept, TypeOK
    <3> QED
      BY <2>1, <2>3, <3>1 DEF LeaveUnbilled
  <2>4. CASE CreateInvoice(r)
    <3>1. UNCHANGED <<orders, marks>> /\ orders[o] # NoRow
      BY <2>4 DEF CreateInvoice, ToBill, TypeOK
    <3>2. OrderOK(o)'
      <4>1. Billing(o)' = Billing(o) /\ r \in Billing(o) /\ OrderOK(o)
        BY <2>4, OneMore DEF Billing, Others, OrdersOK
      <4>2. ASSUME Clean(o)'
            PROVE  BilledOnce(o)' /\ Billing(o)' = {r} /\ stage'[r] = "note"
        <5>1. Clean(o)
          BY <3>1, <4>2 DEF Clean
        <5>2. Billing(o) = {r} /\ InvoicesOf(o) = {}
          BY <2>4, <4>1, <5>1, OneMore DEF OrderOK, Unbilled
        <5>3. InvoicesOf(o)' = {Len(invoices) + 1}
          BY <2>4, <5>2, OneMore
        <5> QED
          BY <2>4, <4>1, <5>2, <5>3, OneMore DEF BilledOnce
      <4> QED
        BY <3>1, <4>2 DEF OrderOK
    <3>3. ASSUME NEW p \in Orders, p # o
          PROVE  OrderOK(p)'
      <4>1. /\ InvoicesOf(p)' = InvoicesOf(p) /\ Billing(p)' = Billing(p)
            /\ \A q \in Billing(p) : stage'[q] = stage[q]
        BY <2>4, <3>3, OneMore DEF Billing, Others
      <4> QED
        BY <3>1, <4>1 DEF OrdersOK, OrderOK, BilledOnce, Unbilled, Clean
    <3> QED
      BY <3>2, <3>3 DEF OrdersOK
  <2>5. CASE RefuseInvoice(r)
    <3>1. UNCHANGED invoices /\ stage[r] = "bill" /\ RowsKept
      BY <2>5 DEF RefuseInvoice, ToBill, RowsKept
    <3>2. CASE End(r)
      BY <2>1, <3>1, <3>2
    <3>3. CASE Begin(r, "error", job[r])
      <4>1. Others(r) /\ stage'[r] = "error"
        BY <3>3 DEF Begin, TypeOK, Others
      <4> QED
        BY <3>1, <4>1, Leaves
    <3> QED
      BY <2>5, <3>2, <3>3 DEF RefuseInvoice
  <2>6. CASE NoteError(r)
    <3>1. stage[r] = "error" /\ UNCHANGED invoices /\ End(r)
      BY <2>6 DEF NoteError
    <3> QED
      BY <2>1, <2>6, <3>1, NotesError
  <2>7. CASE NoteInvoice(r)
    <3>1. stage[r] = "note" /\ o \in Orders /\ End(r) /\ UNCHANGED <<invoices, marks>>
      BY <2>0, <2>7 DEF NoteInvoice
    <3>2. /\ orders'[o].invoice_id = job[r].invoice /\ orders'[o] # NoRow
          /\ \A p \in Orders \ {o} : orders'[p] = orders[p]
      BY <2>7, NotesInvoice
    <3>3. Others(r) /\ stage'[r] = "idle" /\ job[r].invoice \in InvoicesOf(o)
      BY <3>1, EndedBriefly DEF JobsOK
    <3>5. ASSUME NEW p \in Orders
          PROVE  OrderOK(p)'
      <4>1. InvoicesOf(p)' = InvoicesOf(p) /\ Billing(p)' = Billing(p) \ {r} /\ OrderOK(p)
        BY <3>1, <3>3, InvoicesSame DEF Billing, Others, OrdersOK
      <4>2. marks'[p] = marks[p]
        BY <3>1
      <4>3. CASE p = o
        <5>1. r \in Billing(o)
          BY <3>1 DEF Billing
        <5>2. ASSUME Clean(o)
              PROVE  Billing(o)' = {} /\ InvoicesOf(o)' = {job[r].invoice}
          <6>1. \A q \in Billing(o) : q = r
            BY <4>1, <4>3, <5>1, <5>2 DEF OrderOK
          <6>2. \A i \in InvoicesOf(o) : i = job[r].invoice
            BY <3>3, <4>1, <4>3, <5>2 DEF OrderOK, BilledOnce
          <6> QED
            BY <3>3, <4>1, <4>3, <6>1, <6>2
        <5> QED
          BY <3>2, <4>2, <4>3, <5>2 DEF OrderOK, BilledOnce, Clean
      <4>4. CASE p # o
        <5>1. Billing(p)' = Billing(p) /\ orders'[p] = orders[p]
              /\ \A q \in Billing(p) : stage'[q] = stage[q]
          BY <3>2, <3>3, <4>1, <4>4 DEF Billing, Others
        <5> QED
          BY <4>1, <4>2, <5>1 DEF OrderOK, BilledOnce, Unbilled, Clean
      <4> QED
        BY <4>3, <4>4
    <3> QED
      BY <3>5 DEF OrdersOK
  <2>8. CASE retry_billing(r)
    <3>1. stage[r] = "check" /\ o \in Orders /\ UNCHANGED <<invoices, orders>>
      BY <2>0, <2>8 DEF retry_billing
    <3>2. CASE AlreadyBilled(o)
      <4>1. End(r) /\ RowsKept
        BY <2>8, <3>1, <3>2 DEF retry_billing, RowsKept
      <4> QED
        BY <2>1, <3>1, <4>1
    <3>3. CASE ~AlreadyBilled(o)
      <4>1. Begin(r, "bill", job[r]) /\ marks' = [marks EXCEPT ![o] =
                  IF Billing(o) = {} THEN marks[o] ELSE marks[o] \cup {"raced"}]
        BY <2>8, <3>3 DEF retry_billing
      <4>2. Others(r) /\ stage'[r] = "bill" /\ job'[r] = job[r]
        BY <4>1 DEF Begin, TypeOK, Others
      <4>3. ASSUME NEW p \in Orders
            PROVE  OrderOK(p)'
        <5>1. InvoicesOf(p)' = InvoicesOf(p) /\ orders'[p] = orders[p] /\ OrderOK(p)
          BY <3>1, InvoicesSame DEF OrdersOK
        <5>2. CASE p = o
          <6>1. ASSUME Clean(o)'
                PROVE  Billing(o)' = {r} /\ InvoicesOf(o)' = {} /\ Unbilled(o)'
            <7>1. Billing(o) = {} /\ marks'[o] = marks[o]
              BY <3>1, <4>1, <6>1 DEF Clean, TypeOK
            <7>2. orders[o].invoice_id = 0 /\ Clean(o)
              BY <3>3, <6>1, <7>1 DEF AlreadyBilled, Clean
            <7>3. \A i \in InvoicesOf(o) : i = 0
              BY <5>1, <5>2, <7>1, <7>2 DEF OrderOK, BilledOnce
            <7>4. InvoicesOf(o) = {}
              BY <7>3 DEF InvoicesOf
            <7> QED
              BY <4>2, <5>1, <5>2, <7>1, <7>2, <7>4 DEF Billing, Others, Unbilled
          <6> QED
            BY <5>1, <5>2, <6>1 DEF OrderOK, BilledOnce
        <5>3. CASE p # o
          <6>1. r \notin Billing(p) /\ r \notin Billing(p)'
            BY <4>2, <5>3 DEF Billing
          <6>2. Billing(p)' = Billing(p) /\ \A q \in Billing(p) : stage'[q] = stage[q]
            BY <4>2, <6>1 DEF Billing, Others
          <6>3. marks'[p] = marks[p]
            BY <4>1, <5>3 DEF TypeOK
          <6> QED
            BY <5>1, <6>2, <6>3 DEF OrderOK, BilledOnce, Unbilled, Clean
        <5> QED
          BY <5>2, <5>3
      <4> QED
        BY <4>3 DEF OrdersOK
    <3> QED
      BY <3>2, <3>3
  <2>9. CASE LoseAnswer(r)
    BY <1>0, <2>9, QuietSteps
  <2>10. CASE Die(r)
    <3>1. RowsKept /\ "died" \in marks'[o]
      BY <2>0, <2>10 DEF Die, RowsKept, TypeOK
    <3> QED
      BY <2>1, <2>10, <3>1 DEF Die
  <2> QED
    BY <1>4, <2>2, <2>3, <2>4, <2>5, <2>6, <2>7, <2>8, <2>9, <2>10 DEF Handler
<1> QED
  BY <1>1, <1>2, <1>3, <1>4 DEF Next

(***************************************************************************)
(* An order keeps its excuse, or its answer.                               *)
(***************************************************************************)
LEMMA WhyKept ==
    ASSUME NEW o \in Orders, Why(o), NEW r \in Requests, Others(r),
           orders'[o] # NoRow => orders[o] # NoRow,
           Says(o) => Says(o)', marks[o] \subseteq marks'[o],
           Excuses(r, o) => Excuses(r, o)'
    PROVE  Why(o)'
<1>1. ASSUME NEW q \in Requests, Excuses(q, o)
      PROVE  Excuses(q, o)'
  BY <1>1 DEF Others, Excuses
<1>2. Excused(o) => Excused(o)'
  BY <1>1 DEF Excused
<1> QED
  BY <1>2 DEF Why

LEMMA WhyStep == ASSUME TypeOK, JobsOK, UnbilledSaysWhy, [Next]_vars PROVE UnbilledSaysWhy'
<1> USE CommerceAssumption
<1>w. \A o \in Orders : Why(o)
  BY WhyForAll
<1>q. (\A o \in Orders : Why(o)') => UnbilledSaysWhy'
  BY DEF UnbilledSaysWhy, Why, Excused, Excuses, Says
<1>0. ASSUME Quiet PROVE UnbilledSaysWhy'
  <2>1. ASSUME NEW o \in Orders
        PROVE  Why(o)'
    <3>1. /\ orders'[o] # NoRow => orders[o] # NoRow
          /\ orders'[o].invoice_id = orders[o].invoice_id
          /\ orders'[o].sync_error = orders[o].sync_error
          /\ marks[o] \subseteq marks'[o]
      BY <1>0 DEF Quiet, RowsKept, ErrorsKept
    <3>2. \A q \in Requests : Excuses(q, o) => Excuses(q, o)'
      BY <1>0 DEF Quiet, RequestsKept, Excuses
    <3> QED
      BY <1>w, <3>1, <3>2 DEF Why, Excused, Says
  <2> QED
    BY <1>q, <2>1
<1>1. CASE UNCHANGED vars \/ Settings \/ Mapping
  BY <1>0, <1>1, QuietSteps
<1>2. ASSUME NEW r \in Requests, Others(r), stage[r] = "idle", UNCHANGED <<orders, marks>>
      PROVE  UnbilledSaysWhy'
  <2>1. \A o \in Orders : ~Excuses(r, o)
    BY <1>2 DEF JobsOK, Excuses
  <2>2. \A o \in Orders : Why(o)'
    BY <1>w, <1>2, <2>1, WhyKept DEF Says
  <2> QED
    BY <1>q, <2>2
<1>3. CASE Arrival
  <2>1. PICK r \in Requests, o \in Orders, c \in BOOLEAN : Lookup(r, o, c)
    <3>1. FALSE \in BOOLEAN
      OBVIOUS
    <3> QED
      BY <1>3, <3>1 DEF Arrival, receive_webhook, trigger_mock_order
  <2>2. PICK w : UNCHANGED <<stage, job>> \/ Begin(r, "insert", w)
    BY <2>1 DEF Lookup, ReturnExisting
  <2>3. Others(r) /\ stage[r] = "idle" /\ UNCHANGED <<orders, marks>>
    BY <2>1, <2>2 DEF Begin, TypeOK, Others, Lookup
  <2> QED
    BY <1>2, <2>3
<1>4. CASE Page
  <2>1. ASSUME NEW s \in Screens, NEW r \in Requests, PressRetry(s, r)
        PROVE  UnbilledSaysWhy'
    <3>1. Others(r) /\ stage[r] = "idle" /\ UNCHANGED <<orders, marks>>
      BY <2>1 DEF PressRetry, Begin, TypeOK, Others
    <3> QED
      BY <1>2, <3>1
  <2> QED
    BY <1>0, <1>4, <2>1, QuietSteps DEF Page
<1>5. ASSUME NEW r \in Requests, Handler(r) \/ LoseAnswer(r) \/ Die(r)
      PROVE  UnbilledSaysWhy'
  <2>o. PICK o : o = job[r].order
    OBVIOUS
  <2> USE <2>o
  <2>0. stage[r] # "idle" => o \in Orders
    BY DEF TypeOK
  \* Another order: this request was never its excuse.
  <2>1. ASSUME Others(r), NEW p \in Orders, p # o,
               orders'[p] = orders[p], marks'[p] = marks[p]
        PROVE  Why(p)'
    <3>1. ~Excuses(r, p) /\ (Says(p) => Says(p)')
      BY <2>1 DEF Excuses, Says
    <3> QED
      BY <1>w, <2>1, <3>1, WhyKept
  <2>2. ASSUME Others(r), UNCHANGED <<orders, marks>>,
               Excuses(r, o) => Excuses(r, o)'
        PROVE  UnbilledSaysWhy'
    <3>1. o \in Orders => Why(o)'
      BY <1>w, <2>2, WhyKept DEF Says
    <3>2. \A p \in Orders : p # o => Why(p)'
      BY <2>1, <2>2
    <3> QED
      BY <1>q, <3>1, <3>2
  \* A stage after another, of the same billing.
  <2>3. ASSUME NEW at \in {"bill", "error"}, Begin(r, at, job[r]), UNCHANGED <<orders, marks>>
        PROVE  UnbilledSaysWhy'
    <3>1. Others(r) /\ stage'[r] = at /\ job'[r] = job[r]
      BY <2>3 DEF Begin, TypeOK, Others
    <3>2. Excuses(r, o) => Excuses(r, o)'
      BY <3>1 DEF Excuses
    <3> QED
      BY <2>2, <2>3, <3>1, <3>2
  \* It leaves nothing to say of its order.
  <2>4. ASSUME Others(r), o \in Orders, Why(o)',
               \A p \in Orders \ {o} : orders'[p] = orders[p] /\ marks'[p] = marks[p]
        PROVE  UnbilledSaysWhy'
    <3>1. \A p \in Orders : p # o => Why(p)'
      BY <2>1, <2>4
    <3> QED
      BY <1>q, <2>4, <3>1
  <2>5. CASE InsertOrder(r)
    <3>1. stage[r] = "insert" /\ o \in Orders /\ UNCHANGED marks
      BY <2>0, <2>5 DEF InsertOrder
    <3>2. CASE orders[o] # NoRow
      <4>1. End(r) /\ orders' = orders
        BY <2>5, <3>2 DEF InsertOrder
      <4>2. ~Excuses(r, o)
        BY <3>1 DEF Excuses
      <4> QED
        BY <2>2, <3>1, <4>1, <4>2, EndedBriefly
    <3>3. CASE orders[o] = NoRow
      <4>1. /\ Others(r) /\ stage'[r] = "bill" /\ job'[r] = job[r]
            /\ \A p \in Orders \ {o} : orders'[p] = orders[p]
        BY <2>5, <3>3, InsertsRow
      <4>2. Excuses(r, o)'
        BY <3>1, <4>1 DEF Excuses, JobsOK
      <4>3. Why(o)'
        BY <4>2 DEF Why, Excused
      <4> QED
        BY <2>4, <3>1, <4>1, <4>3
    <3> QED
      BY <3>2, <3>3
  <2>6. CASE LeaveUnbilled(r) \/ Die(r)
    <3>1. o \in Orders /\ End(r) /\ orders' = orders
      BY <2>0, <2>6 DEF LeaveUnbilled, Die
    <3>2. PICK m \in {"by hand", "died"} : marks' = [marks EXCEPT ![o] = marks[o] \cup {m}]
      BY <2>6 DEF LeaveUnbilled, Die
    <3>3. m \in marks'[o] /\ \A p \in Orders \ {o} : marks'[p] = marks[p]
      BY <3>1, <3>2 DEF TypeOK
    <3>4. Why(o)'
      BY <3>2, <3>3 DEF Why, Excused
    <3> QED
      BY <2>4, <3>1, <3>3, <3>4, EndedBriefly
  <2>7. CASE CreateInvoice(r)
    <3>1. UNCHANGED <<orders, marks>>
      BY <2>7 DEF CreateInvoice
    <3>2. Others(r) /\ (Excuses(r, o) => Excuses(r, o)')
      BY <2>7, OneMore DEF Excuses
    <3> QED
      BY <2>2, <3>1, <3>2
  <2>8. CASE RefuseInvoice(r)
    <3>1. UNCHANGED <<orders, marks>>
      BY <2>8 DEF RefuseInvoice
    <3>2. CASE job[r].retry
      <4>1. End(r) /\ ~Excuses(r, o)
        BY <2>8, <3>2 DEF RefuseInvoice, Excuses
      <4> QED
        BY <2>2, <3>1, <4>1, EndedBriefly
    <3>3. CASE ~job[r].retry
      BY <2>3, <2>8, <3>1, <3>3 DEF RefuseInvoice
    <3> QED
      BY <3>2, <3>3
  <2>9. CASE NoteError(r)
    <3>1. End(r) /\ UNCHANGED marks
      BY <2>9 DEF NoteError
    <3>2. /\ o \in Orders /\ orders'[o].sync_error = TRUE
          /\ \A p \in Orders \ {o} : orders'[p] = orders[p]
      BY <2>9, NotesError
    <3>3. Why(o)'
      BY <3>2 DEF Why, Says
    <3> QED
      BY <2>4, <3>1, <3>2, <3>3, EndedBriefly
  <2>10. CASE NoteInvoice(r)
    <3>1. End(r) /\ UNCHANGED marks /\ job[r].invoice # 0
      BY <2>10 DEF NoteInvoice, JobsOK, InvoicesOf
    <3>2. /\ o \in Orders /\ orders'[o].invoice_id = job[r].invoice
          /\ \A p \in Orders \ {o} : orders'[p] = orders[p]
      BY <2>10, NotesInvoice
    <3>3. Why(o)'
      BY <3>1, <3>2 DEF Why, Says
    <3> QED
      BY <2>4, <3>1, <3>2, <3>3, EndedBriefly
  <2>11. CASE retry_billing(r)
    <3>1. stage[r] = "check" /\ o \in Orders /\ orders' = orders
      BY <2>0, <2>11 DEF retry_billing
    <3>2. CASE AlreadyBilled(o)
      <4>1. End(r) /\ UNCHANGED marks
        BY <2>11, <3>2 DEF retry_billing
      <4>2. Why(o)'
        BY <3>1, <3>2 DEF AlreadyBilled, Why, Says
      <4> QED
        BY <2>4, <3>1, <4>1, <4>2, EndedBriefly
    <3>3. CASE ~AlreadyBilled(o)
      <4>1. Begin(r, "bill", job[r]) /\ marks' = [marks EXCEPT ![o] =
                  IF Billing(o) = {} THEN marks[o] ELSE marks[o] \cup {"raced"}]
        BY <2>11, <3>3 DEF retry_billing
      <4>2. Others(r) /\ stage'[r] = "bill" /\ job'[r] = job[r]
        BY <4>1 DEF Begin, TypeOK, Others
      <4>3. marks[o] \subseteq marks'[o] /\ \A p \in Orders \ {o} : marks'[p] = marks[p]
        BY <3>1, <4>1 DEF TypeOK
      <4>4. Excuses(r, o) => Excuses(r, o)'
        BY <4>2 DEF Excuses
      <4>5. Why(o)'
        BY <1>w, <3>1, <4>2, <4>3, <4>4, WhyKept DEF Says
      <4> QED
        BY <2>4, <3>1, <4>2, <4>3, <4>5
    <3> QED
      BY <3>2, <3>3
  <2>12. CASE LoseAnswer(r)
    BY <1>0, <2>12, QuietSteps
  <2> QED
    BY <1>5, <2>5, <2>6, <2>7, <2>8, <2>9, <2>10, <2>11, <2>12 DEF Handler
<1> QED
  BY <1>1, <1>3, <1>4, <1>5 DEF Next

(***************************************************************************)
(* A request that is not, and does not become, a billing of the order.     *)
(***************************************************************************)
LEMMA StaysSettled ==
    ASSUME NEW o \in Orders, Settled(o), NEW r \in Requests, Others(r),
           orders'[o] # NoRow, orders'[o].invoice_id = orders[o].invoice_id,
           InvoicesOf(o)' = InvoicesOf(o),
           job'[r].order = o => stage'[r] \notin {"bill", "note"}
    PROVE  Settled(o)' /\ orders'[o].invoice_id = orders[o].invoice_id
           /\ InvoicesOf(o)' = InvoicesOf(o)
<1>1. Billing(o)' = {}
  BY DEF Settled, Billing, Others
<1> QED
  BY <1>1 DEF Settled

LEMMA SettledStep ==
    ASSUME TypeOK, Next, NEW o \in Orders, Settled(o)
    PROVE  Settled(o)' /\ orders'[o].invoice_id = orders[o].invoice_id
           /\ InvoicesOf(o)' = InvoicesOf(o)
<1> USE CommerceAssumption
<1> DEFINE Keeps == Settled(o)' /\ orders'[o].invoice_id = orders[o].invoice_id
                    /\ InvoicesOf(o)' = InvoicesOf(o)
<1>0. ASSUME Quiet PROVE Keeps
  <2>1. InvoicesOf(o)' = InvoicesOf(o) /\ Billing(o)' = Billing(o)
    BY <1>0, InvoicesSame DEF Quiet, RequestsKept, Billing
  <2>2. orders'[o] # NoRow /\ orders'[o].invoice_id = orders[o].invoice_id
    BY <1>0 DEF Quiet, RowsKept, Settled
  <2> QED
    BY <2>1, <2>2 DEF Settled
<1>1. ASSUME NEW r \in Requests, Others(r), RowsKept, UNCHANGED invoices,
             stage'[r] \notin {"bill", "note"}
      PROVE  Keeps
  <2>1. orders'[o] # NoRow /\ orders'[o].invoice_id = orders[o].invoice_id
    BY <1>1 DEF RowsKept, Settled
  <2> QED
    BY <1>1, <2>1, InvoicesSame, StaysSettled
<1>2. CASE Settings \/ Mapping
  BY <1>0, <1>2, QuietSteps
<1>3. CASE Arrival
  <2>1. PICK r \in Requests, p \in Orders, c \in BOOLEAN : Lookup(r, p, c)
    <3>1. FALSE \in BOOLEAN
      OBVIOUS
    <3> QED
      BY <1>3, <3>1 DEF Arrival, receive_webhook, trigger_mock_order
  <2>2. PICK w : UNCHANGED <<stage, job>> \/ Begin(r, "insert", w)
    BY <2>1 DEF Lookup, ReturnExisting
  <2>3. Others(r) /\ stage'[r] \in {"idle", "insert"}
    BY <2>1, <2>2 DEF Begin, TypeOK, Others, Lookup
  <2>4. RowsKept /\ UNCHANGED invoices
    BY <2>1 DEF Lookup, RowsKept
  <2> QED
    BY <1>1, <2>3, <2>4
<1>4. CASE Page
  <2>1. ASSUME NEW s \in Screens, NEW r \in Requests, PressRetry(s, r)
        PROVE  Keeps
    <3>1. Others(r) /\ stage'[r] = "check" /\ RowsKept /\ UNCHANGED invoices
      BY <2>1 DEF PressRetry, Begin, TypeOK, Others, RowsKept
    <3> QED
      BY <1>1, <3>1
  <2> QED
    BY <1>0, <1>4, <2>1, QuietSteps DEF Page
<1>5. ASSUME NEW r \in Requests, Handler(r) \/ LoseAnswer(r) \/ Die(r)
      PROVE  Keeps
  \* The request is at work on another order.
  <2>1. ASSUME Others(r), job'[r].order # o, orders'[o] = orders[o], InvoicesOf(o)' = InvoicesOf(o)
        PROVE  Keeps
    BY <2>1, StaysSettled DEF Settled
  <2>2. ASSUME End(r), RowsKept, UNCHANGED invoices
        PROVE  Keeps
    BY <1>1, <2>2, EndedBriefly
  <2>3. stage[r] \in {"bill", "note"} => job[r].order # o
    BY DEF Settled, Billing
  <2>4. CASE InsertOrder(r)
    <3>1. UNCHANGED <<invoices, marks>>
      BY <2>4 DEF InsertOrder
    <3>2. CASE orders[job[r].order] # NoRow
      BY <2>2, <2>4, <3>1, <3>2 DEF InsertOrder, RowsKept
    <3>3. CASE orders[job[r].order] = NoRow
      <4>1. job[r].order # o
        BY <3>3 DEF Settled
      <4> QED
        BY <2>1, <2>4, <3>1, <3>3, <4>1, InsertsRow, InvoicesSame
    <3> QED
      BY <3>2, <3>3
  <2>5. CASE LeaveUnbilled(r) \/ Die(r)
    <3>1. PICK m : marks' = [marks EXCEPT ![job[r].order] = marks[job[r].order] \cup {m}]
      BY <2>5 DEF LeaveUnbilled, Die
    <3>2. orders' = orders /\ UNCHANGED invoices /\ End(r)
      BY <2>5 DEF LeaveUnbilled, Die
    <3>3. RowsKept
      BY <3>1, <3>2 DEF RowsKept, TypeOK
    <3> QED
      BY <2>2, <3>2, <3>3
  <2>6. CASE CreateInvoice(r)
    <3>1. orders' = orders
      BY <2>6 DEF CreateInvoice
    <3> QED
      BY <2>1, <2>3, <2>6, <3>1, OneMore
  <2>7. CASE RefuseInvoice(r)
    <3>1. UNCHANGED <<orders, invoices, marks>>
      BY <2>7 DEF RefuseInvoice
    <3>2. RowsKept
      BY <3>1 DEF RowsKept
    <3>3. CASE End(r)
      BY <2>2, <3>1, <3>2, <3>3
    <3>4. CASE Begin(r, "error", job[r])
      <4>1. Others(r) /\ stage'[r] = "error"
        BY <3>4 DEF Begin, TypeOK, Others
      <4> QED
        BY <1>1, <3>1, <3>2, <4>1
    <3> QED
      BY <2>7, <3>3, <3>4 DEF RefuseInvoice
  <2>8. CASE NoteError(r)
    <3>1. End(r) /\ UNCHANGED invoices
      BY <2>8 DEF NoteError
    <3> QED
      BY <2>2, <2>8, <3>1, NotesError
  <2>9. CASE NoteInvoice(r)
    <3>1. End(r) /\ UNCHANGED invoices /\ stage[r] = "note"
      BY <2>9 DEF NoteInvoice
    <3>2. job[r].order # o
      BY <2>3, <3>1
    <3>3. Others(r) /\ job'[r].order = NoOrder
      BY <3>1, EndedBriefly
    <3> QED
      BY <2>1, <2>9, <3>1, <3>2, <3>3, NotesInvoice, InvoicesSame
  <2>10. CASE retry_billing(r)
    <3>1. UNCHANGED <<orders, invoices>>
      BY <2>10 DEF retry_billing
    <3>2. CASE AlreadyBilled(job[r].order)
      <4>1. End(r) /\ UNCHANGED marks
        BY <2>10, <3>2 DEF retry_billing
      <4> QED
        BY <2>2, <3>1, <4>1 DEF RowsKept
    <3>3. CASE ~AlreadyBilled(job[r].order)
      <4>1. Begin(r, "bill", job[r])
        BY <2>10, <3>3 DEF retry_billing
      <4>2. Others(r) /\ job'[r] = job[r]
        BY <4>1 DEF Begin, TypeOK, Others
      <4>3. job[r].order # o
        BY <3>3 DEF AlreadyBilled, Settled
      <4> QED
        BY <2>1, <3>1, <4>2, <4>3, InvoicesSame
    <3> QED
      BY <3>2, <3>3
  <2>11. CASE LoseAnswer(r)
    BY <1>0, <2>11, QuietSteps
  <2> QED
    BY <1>5, <2>4, <2>5, <2>6, <2>7, <2>8, <2>9, <2>10, <2>11 DEF Handler
<1> QED
  BY <1>2, <1>3, <1>4, <1>5 DEF Next

LEMMA InitInv == Init => CommerceInv
<1> SUFFICES ASSUME Init PROVE CommerceInv
  OBVIOUS
<1> USE CommerceAssumption, NoRowAssumption
<1>1. TypeOK
  <2>1. config \in Config
    <3>1. TRUE \in BOOLEAN /\ FALSE \in BOOLEAN
      OBVIOUS
    <3> QED
      BY <3>1, Zenon DEF Init, Config
  <2>2. job \in [Requests -> Job] /\ stage \in [Requests -> Stages]
    BY NoJobOK DEF Init, Stages
  <2>3. screens \in [Screens -> View]
    <3>1. NoOrder \in Orders \cup {NoOrder} /\ 0 \in Nat /\ FALSE \in BOOLEAN
      OBVIOUS
    <3>2. Closed \in View
      BY <3>1, Zenon DEF Closed, View
    <3> QED
      BY <3>2 DEF Init
  <2>4. invoices \in Seq([order : Orders, lines : SUBSET Skus])
    BY DEF Init
  <2>5. /\ orders \in [Orders -> Row \cup {NoRow}]
        /\ marks \in [Orders -> SUBSET {"by hand", "raced", "died"}]
        /\ mappings \subseteq Skus /\ backfilling \subseteq mappings
    BY DEF Init
  <2>6. \A r \in Requests : stage[r] = "idle"
    BY DEF Init
  <2>7. \A s \in Screens : screens[s].order = NoOrder
    BY DEF Init, Closed
  <2> QED
    BY <2>1, <2>2, <2>3, <2>4, <2>5, <2>6, <2>7 DEF TypeOK, View, Stages
<1>2. JobsOK
  BY NoJobOK DEF Init, JobsOK
<1>3. \A o \in Orders : InvoicesOf(o) = {} /\ Billing(o) = {} /\ orders[o] = NoRow
  BY DEF Init, InvoicesOf, Billing
<1>4. OrdersOK
  BY <1>3 DEF OrdersOK, OrderOK, BilledOnce
<1>5. UnbilledSaysWhy
  BY <1>3 DEF UnbilledSaysWhy
<1> QED
  BY <1>1, <1>2, <1>4, <1>5 DEF CommerceInv

LEMMA NextInv == CommerceInv /\ [Next]_vars => CommerceInv'
  BY TypeStep, JobsStep, OrdersStep, WhyStep DEF CommerceInv

(***************************************************************************)
(* Every variable keeps its type, and a request that bills, retries or     *)
(* notes something has an order whose row is committed: no handler of      *)
(* orders_service.py loads a row that is not there.                        *)
(***************************************************************************)
THEOREM CommerceTypeCorrect == Spec => []TypeOK
<1>1. CommerceInv => TypeOK
  BY DEF CommerceInv
<1> QED
  BY <1>1, InitInv, NextInv, PTL DEF Spec

(***************************************************************************)
(* Redelivered, retried and raced by its own twin, a platform's order is   *)
(* billed once, unless two billings of it overlap or one dies between the  *)
(* two commits: the unique constraint on the order and retry_billing's     *)
(* look at invoice_id are enough for everything else.                      *)
(***************************************************************************)
THEOREM OrdersBilledOnce == Spec => []BilledOnceUnlessRaced
<1>1. CommerceInv => BilledOnceUnlessRaced
  BY DEF CommerceInv, OrdersOK, OrderOK, BilledOnceUnlessRaced, Clean
<1> QED
  BY <1>1, InitInv, NextInv, PTL DEF Spec

(***************************************************************************)
(* An order that should have been billed on arrival and was not says so,   *)
(* unless its handler died.                                                *)
(***************************************************************************)
THEOREM UnbilledIsExplained == Spec => []UnbilledSaysWhy
<1>1. CommerceInv => UnbilledSaysWhy
  BY DEF CommerceInv
<1> QED
  BY <1>1, InitInv, NextInv, PTL DEF Spec

(***************************************************************************)
(* Whatever was lost, repeated or raced, an order whose row names an       *)
(* invoice and that nobody is billing is never billed again.               *)
(***************************************************************************)
THEOREM BilledIsFinal == Spec => BilledStaysBilled
<1> DEFINE Stays == \A o \in Orders : Settled(o) =>
                      /\ Settled(o)' /\ orders'[o].invoice_id = orders[o].invoice_id
                      /\ InvoicesOf(o)' = InvoicesOf(o)
<1>1. CommerceInv /\ [Next]_vars => [Stays]_vars
  BY SettledStep DEF CommerceInv
<1> QED
  BY <1>1, InitInv, NextInv, PTL DEF Spec, BilledStaysBilled
=============================================================================
