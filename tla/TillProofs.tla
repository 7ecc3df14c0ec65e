----------------------------- MODULE TillProofs -----------------------------
(***************************************************************************)
(* Theorems about what happens at the till: module Till (carts, held bills *)
(* and the orders of tables, for any number of products, tables, sales and *)
(* requests under way), and modules Printing and PrintAgent (any number of *)
(* prints, connections, crashes, repeated and cancelled requests, any      *)
(* printer).                                                               *)
(***************************************************************************)
EXTENDS Till, Printing, FiniteSetTheorems, TLAPS

-----------------------------------------------------------------------------
(***************************************************************************)
(* Module Till.                                                            *)
(***************************************************************************)
Charged(k) == \E i \in 1..Len(invoices) : invoices[i].key = k
WasOnTable(p, t) == \E o \in 1..Len(orders) : <<p, t>> \in orders[o].was

\* A request whose answer this visit of the page acts on.
Asked(r, kind) == r.kind = kind /\ r.heard /\ r.visit = visit

(***************************************************************************)
(* What TillTypeOK leaves out: a request names an order and a held bill    *)
(* that exist, was sent during this visit or an earlier one, and is        *)
(* answered only for a page that listens.                                  *)
(***************************************************************************)
RequestOK(r) ==
  /\ r.order <= Len(orders) /\ r.held <= Len(held) /\ r.visit <= visit
  /\ r.kind = "delete" => r.held # 0
  /\ r.kind \in {"open", "move"} => r.table # NoTable
  /\ r.status # "sent" => r.heard
TillShape ==
  /\ TillTypeOK
  /\ IsFiniteSet(reqs)
  /\ visit <= key
  /\ \A r \in reqs : RequestOK(r)

(***************************************************************************)
(* The records that carry an idempotency key.  One sale rung up during one *)
(* visit always has the same key, and so far as it is under way it is the  *)
(* key the page has now.                                                   *)
(***************************************************************************)
Stamps == {r \in reqs : r.kind \in {"checkout", "bill"}}
            \union {invoices[i] : i \in {j \in 1..Len(invoices) : invoices[j].sale # 0}}
Stamped(x) ==
  /\ x.key \in 1..key /\ x.sale <= sale /\ x.visit <= visit
  /\ x.sale = sale /\ x.visit = visit => x.key = key
SameSale(x, y) == x.sale = y.sale /\ x.visit = y.visit => x.key = y.key
OneKey ==
  /\ \A x \in Stamps : Stamped(x)
  /\ \A x, y \in Stamps : SameSale(x, y)
  /\ \A i, j \in 1..Len(invoices) :
       invoices[i].key # 0 /\ invoices[i].key = invoices[j].key => i = j

(***************************************************************************)
(* A held bill is asked to go for a key that has an invoice.               *)
(***************************************************************************)
HeldInv ==
  /\ \A r \in reqs : r.kind = "delete" /\ r.key # 0 => Charged(r.key)
  /\ \A r \in reqs : r.kind = "checkout" /\ r.status = "ok" => Charged(r.key)
  /\ HeldBillsOutliveFailures

(***************************************************************************)
(* The local cart is empty while a table is shown.  A cart on its way to a *)
(* table holds every line but those marked late; one that arrived is on    *)
(* the table's order.  One transfer is under way at a time, behind the     *)
(* question that asked for it.                                             *)
(***************************************************************************)
CarryInv ==
  /\ tableId # NoTable => local = {}
  /\ \A r \in reqs : Asked(r, "move") => local \ late \subseteq r.items
  /\ \A r \in reqs : r.kind = "move" /\ r.status = "ok" =>
       \A p \in r.items : WasOnTable(p, r.table)
  /\ \A r \in reqs : Asked(r, "transfer") => pendingTableChange # NoTable /\ local = {}
  /\ \A r, s \in reqs : Asked(r, "transfer") /\ Asked(s, "transfer") => r = s

TillInv == TillShape /\ OneKey /\ HeldInv /\ CarryInv

-----------------------------------------------------------------------------
(***************************************************************************)
(* Requests in flight.  What an action makes of those in flight before it  *)
(* sends one more: each comes from one that was there, with the same       *)
(* fields but for how it was answered and who listens, and only a removal  *)
(* may have fewer items left.                                              *)
(***************************************************************************)
ComesFrom(q, r) ==
  /\ q.kind = r.kind /\ q.order = r.order /\ q.held = r.held /\ q.table = r.table
  /\ q.key = r.key /\ q.sale = r.sale /\ q.visit = r.visit
  /\ q.kind # "remove" => q.items = r.items
  /\ q.heard => r.heard
Left(rs) ==
  /\ IsFiniteSet(rs) /\ Cardinality(rs) <= Cardinality(reqs) /\ rs \subseteq Request
  /\ \A q \in rs : q.status # "sent" => q.heard
  /\ \A q, s \in rs : Asked(q, "transfer") /\ Asked(s, "transfer") => q = s
  /\ \A q \in rs : \E r \in reqs : ComesFrom(q, r) /\ q.status = r.status

(***************************************************************************)
(* What a request is when the page sends it.                               *)
(***************************************************************************)
Fresh(q) ==
  /\ q \in Request /\ q.status = "sent" /\ q.sale = sale /\ q.visit = visit
  /\ q.order <= Len(orders) /\ q.held <= Len(held)
  /\ q.kind = "delete" => q.held # 0 /\ (q.key # 0 => Charged(q.key))
  /\ q.kind \in {"open", "move"} => q.table # NoTable
  /\ q.kind \in {"checkout", "bill"} => q.key = key
  /\ q.kind = "move" => q.items = local
  /\ q.kind = "transfer" => tableId # NoTable /\ pendingTableChange # NoTable
                            /\ ~Pending("transfer")

\* Two requests that differ in their number at most.
Copy(q, x) ==
  /\ q.kind = x.kind /\ q.items = x.items /\ q.order = x.order /\ q.held = x.held
  /\ q.table = x.table /\ q.key = x.key /\ q.live = x.live /\ q.sale = x.sale
  /\ q.visit = x.visit /\ q.status = x.status /\ q.heard = x.heard

(***************************************************************************)
(* There is a number left for one request more.                            *)
(***************************************************************************)
LEMMA NumberLeft ==
  ASSUME NEW rs \in SUBSET Request, IsFiniteSet(rs), Cardinality(rs) < MaxInFlight, NEW kind
  PROVE  \E i \in 1..MaxInFlight : \A q \in rs : q.kind = kind => q.n # i
<1> SUFFICES ASSUME \A i \in 1..MaxInFlight : \E q \in rs : q.kind = kind /\ q.n = i
             PROVE  FALSE
  OBVIOUS
<1> DEFINE f == [q \in rs |-> q.n]
           taken == {q.n : q \in rs}
<1>1. f \in Surjection(rs, taken)
  BY DEF Surjection
<1>2. IsFiniteSet(taken) /\ Cardinality(taken) <= Cardinality(rs)
  BY <1>1, FS_Surjection
<1>3. 1..MaxInFlight \subseteq taken
  OBVIOUS
<1> HIDE DEF taken
<1>4. Cardinality(1..MaxInFlight) <= Cardinality(taken)
  BY <1>2, <1>3, FS_Subset
<1>5. MaxInFlight \in Nat /\ Cardinality(1..MaxInFlight) = MaxInFlight
  BY TillAssumption, FS_Interval DEF TillAssumption
<1>6. Cardinality(rs) \in Nat /\ Cardinality(taken) \in Nat
  BY <1>2, FS_CardinalityType
<1> QED
  BY <1>2, <1>4, <1>5, <1>6

(***************************************************************************)
(* Sending adds one request, numbered, within the bounds.                  *)
(***************************************************************************)
LEMMA SendAdds ==
  ASSUME NEW rs \in SUBSET Request, IsFiniteSet(rs), NEW x \in Request, Send(rs, x)
  PROVE  /\ \E q \in Request : Copy(q, x) /\ reqs' = rs \union {q}
         /\ IsFiniteSet(reqs') /\ Cardinality(reqs') <= MaxInFlight
         /\ calls < MaxCalls /\ calls' = calls + 1
<1> DEFINE n == CHOOSE i \in 1..MaxInFlight : \A q \in rs : q.kind = x.kind => q.n # i
           q == [x EXCEPT !.n = n]
<1>1. Cardinality(rs) < MaxInFlight /\ reqs' = rs \union {q} /\ calls < MaxCalls /\ calls' = calls + 1
  BY DEF Send, With
<1>2. n \in 1..MaxInFlight
  BY <1>1, NumberLeft
<1> HIDE DEF n
<1>3. q \in Request /\ Copy(q, x)
  BY <1>2 DEF Request, Copy
<1> HIDE DEF q
<1>4. /\ IsFiniteSet(reqs')
      /\ Cardinality(reqs') = Cardinality(rs) \/ Cardinality(reqs') = Cardinality(rs) + 1
  BY <1>1, FS_AddElement
<1>5. Cardinality(rs) \in Nat /\ MaxInFlight \in Nat
  BY FS_CardinalityType, TillAssumption DEF TillAssumption
<1> QED
  BY <1>1, <1>3, <1>4, <1>5

(***************************************************************************)
(* A request can only be sent where one may be in flight.                  *)
(***************************************************************************)
LEMMA RoomForOne ==
  ASSUME NEW rs, IsFiniteSet(rs), NEW x, Send(rs, x)
  PROVE  1 \in 1..MaxInFlight
<1>1. Cardinality(rs) \in Nat /\ MaxInFlight \in Nat /\ Cardinality(rs) < MaxInFlight
  BY FS_CardinalityType, TillAssumption DEF TillAssumption, Send
<1> QED
  BY <1>1

(***************************************************************************)
(* A blank request, where one may be in flight.                            *)
(***************************************************************************)
LEMMA BlankType ==
  ASSUME TillShape, 1 \in 1..MaxInFlight
  PROVE  /\ Blank \in Request /\ Blank.status = "sent" /\ Blank.sale = sale
         /\ Blank.visit = visit /\ Blank.order = 0 /\ Blank.held = 0 /\ Blank.key = 0
         /\ Blank.table = NoTable /\ Blank.items = {} /\ Blank.kind = "open"
         /\ Blank.heard = FALSE
<1>1. /\ sale \in Nat /\ visit \in Nat
      /\ 0 \in 0..MaxOrders /\ 0 \in 0..MaxHeld /\ 0 \in 0..MaxKeys
  BY TillAssumption DEF TillAssumption, TillShape, TillTypeOK
<1> QED
  BY <1>1 DEF Blank, Request, Kinds

(***************************************************************************)
(* A request sent now; asking for a move or a transfer changes nothing     *)
(* else that the answer will rely on.                                      *)
(***************************************************************************)
SentNow(q) ==
  /\ Fresh(q)
  /\ q.kind = "move" => UNCHANGED <<local, late>>
  /\ q.kind = "transfer" => UNCHANGED <<local, pendingTableChange>>
NetStep(rs) ==
  \/ reqs' = rs /\ calls' = calls
  \/ /\ \E q : SentNow(q) /\ reqs' = rs \union {q}
     /\ IsFiniteSet(reqs') /\ Cardinality(reqs') <= MaxInFlight
     /\ calls < MaxCalls /\ calls' = calls + 1

LEMMA SendStep ==
  ASSUME NEW rs, Left(rs), NEW x, SentNow(x), Send(rs, x)
  PROVE  NetStep(rs)
<1>1. x \in Request /\ rs \in SUBSET Request /\ IsFiniteSet(rs)
  BY DEF SentNow, Fresh, Left
<1>2. PICK q \in Request : Copy(q, x) /\ reqs' = rs \union {q}
  BY <1>1, SendAdds
<1>3. SentNow(q)
  BY <1>2 DEF SentNow, Fresh, Copy
<1>4. /\ IsFiniteSet(reqs') /\ Cardinality(reqs') <= MaxInFlight
      /\ calls < MaxCalls /\ calls' = calls + 1
  BY <1>1, SendAdds
<1> QED
  BY <1>2, <1>3, <1>4 DEF NetStep

(***************************************************************************)
(* Some of the requests in flight, unchanged.                              *)
(***************************************************************************)
LEMMA SomeLeft ==
  ASSUME TillInv, NEW rs \in SUBSET reqs
  PROVE  Left(rs)
<1>1. IsFiniteSet(rs) /\ Cardinality(rs) <= Cardinality(reqs) /\ rs \subseteq Request
  BY FS_Subset DEF TillInv, TillShape, TillTypeOK
<1>2. \A q \in rs : (q.status # "sent" => q.heard)
  BY DEF TillInv, TillShape, RequestOK
<1>3. \A q, s \in rs : Asked(q, "transfer") /\ Asked(s, "transfer") => q = s
  BY DEF TillInv, CarryInv
<1>4. \A q \in rs : ComesFrom(q, q)
  BY DEF ComesFrom
<1> QED
  BY <1>1, <1>2, <1>3, <1>4 DEF Left

(***************************************************************************)
(* The requests in flight, each changed in who listens to its answer.      *)
(***************************************************************************)
LEMMA ChangedLeft ==
  ASSUME TillInv, NEW S \in SUBSET reqs, NEW f \in [S -> Request],
         \A r \in S : ComesFrom(f[r], r) /\ f[r].status = r.status,
         \A r \in S : f[r].status # "sent" => f[r].heard,
         \A r \in S : Asked(f[r], "transfer") => f[r] = r
  PROVE  Left({f[r] : r \in S})
<1> DEFINE rs == {f[r] : r \in S}
<1>1. f \in Surjection(S, rs)
  BY DEF Surjection
<1>2. IsFiniteSet(S) /\ Cardinality(S) <= Cardinality(reqs)
  BY FS_Subset DEF TillInv, TillShape
<1>3. IsFiniteSet(rs) /\ Cardinality(rs) <= Cardinality(S)
  BY <1>1, <1>2, FS_Surjection
<1>4. Cardinality(rs) \in Nat /\ Cardinality(S) \in Nat /\ Cardinality(reqs) \in Nat
  BY <1>2, <1>3, FS_CardinalityType DEF TillInv, TillShape
<1>5. rs \subseteq Request /\ \A q \in rs : (q.status # "sent" => q.heard)
  OBVIOUS
<1>6. \A q \in rs : \E r \in S : q = f[r] /\ ComesFrom(q, r) /\ q.status = r.status
  OBVIOUS
<1> HIDE DEF rs
<1>7. \A q \in rs : Asked(q, "transfer") => q \in reqs
  BY <1>6
<1>8. \A q, s \in rs : Asked(q, "transfer") /\ Asked(s, "transfer") => q = s
  BY <1>7 DEF TillInv, CarryInv
<1>9. Left(rs)
  BY <1>2, <1>3, <1>4, <1>5, <1>6, <1>8 DEF Left
<1> QED
  BY <1>9 DEF rs

-----------------------------------------------------------------------------
(***************************************************************************)
(* Steps of the page.  Its types; its clock, in which a new key means a    *)
(* new sale or a new visit; and what a step may do to a cart on its way.   *)
(***************************************************************************)
PageTyped ==
  /\ tableId \in Tables \union {NoTable}
  /\ pendingTableChange \in Tables \union {NoTable}
  /\ seen \in [Tables -> [order : 0..Len(orders), items : SUBSET Products]]
  /\ local \subseteq Products /\ late \subseteq Products
  /\ resumed \in 0..Len(held)
  /\ completed \in BOOLEAN
Clock ==
  \/ UNCHANGED <<key, visit>> /\ sale' \in {sale, sale + 1}
  \/ key < MaxKeys /\ key' = key + 1 /\ UNCHANGED visit /\ sale' = sale + 1
  \/ key < MaxKeys /\ key' = key + 1 /\ visit' = visit + 1 /\ sale' \in {sale, sale + 1}
Carries(rs) ==
  /\ tableId' # NoTable => local' = {}
  /\ visit' = visit /\ (\E r \in reqs : Asked(r, "move")) => local' \ late' \subseteq local \ late
  /\ visit' = visit /\ (\E r \in rs : Asked(r, "transfer")) =>
       pendingTableChange' # NoTable /\ local' = {}
PageStep(rs) ==
  UNCHANGED backend /\ Left(rs) /\ NetStep(rs) /\ PageTyped' /\ Clock /\ Carries(rs)

(***************************************************************************)
(* The clock goes forward.                                                 *)
(***************************************************************************)
LEMMA ClockForward ==
  ASSUME TillShape, Clock
  PROVE  /\ key \in 1..MaxKeys /\ visit \in 1..MaxKeys /\ sale \in Nat /\ MaxKeys \in Nat
         /\ key' \in 1..MaxKeys /\ visit' \in 1..MaxKeys /\ sale' \in Nat
         /\ key <= key' /\ visit <= visit' /\ sale <= sale' /\ visit' <= key'
         /\ sale' = sale /\ visit' = visit => key' = key
         /\ visit' = visit \/ visit' > visit
<1>1. /\ key \in 1..MaxKeys /\ visit \in 1..MaxKeys /\ sale \in Nat /\ MaxKeys \in Nat
      /\ visit <= key
  BY TillAssumption DEF TillAssumption, TillShape, TillTypeOK
<1> QED
  BY <1>1 DEF Clock

(***************************************************************************)
(* Every request in flight after the step came from one, or is new.        *)
(***************************************************************************)
LEMMA InFlightAfter ==
  ASSUME NEW rs, Left(rs), NetStep(rs), NEW q \in reqs'
  PROVE  \/ q \in rs /\ \E r \in reqs : ComesFrom(q, r) /\ q.status = r.status
         \/ SentNow(q)
BY DEF Left, NetStep

LEMMA PageShape ==
  ASSUME TillInv, NEW rs, PageStep(rs)
  PROVE  TillShape'
<1>1. /\ key' \in 1..MaxKeys /\ visit' \in 1..MaxKeys /\ sale' \in Nat
      /\ visit \in Nat /\ visit <= visit' /\ visit' <= key'
  BY ClockForward DEF TillInv, PageStep
<1>2. /\ reqs' \subseteq Request /\ IsFiniteSet(reqs') /\ Cardinality(reqs') <= MaxInFlight
      /\ calls' \in 0..MaxCalls
  <2>1. /\ calls \in 0..MaxCalls /\ MaxCalls \in Nat /\ MaxInFlight \in Nat
        /\ Cardinality(reqs) <= MaxInFlight /\ Cardinality(reqs) \in Nat
    BY TillAssumption, FS_CardinalityType DEF TillAssumption, TillInv, TillShape, TillTypeOK
  <2>2. /\ IsFiniteSet(rs) /\ Cardinality(rs) <= Cardinality(reqs) /\ rs \subseteq Request
        /\ Cardinality(rs) \in Nat
    BY FS_CardinalityType DEF PageStep, Left
  <2>3. CASE reqs' = rs /\ calls' = calls
    BY <2>1, <2>2, <2>3
  <2>4. CASE ~(reqs' = rs /\ calls' = calls)
    <3>1. /\ \E q \in Request : reqs' = rs \union {q}
          /\ IsFiniteSet(reqs') /\ Cardinality(reqs') <= MaxInFlight
          /\ calls < MaxCalls /\ calls' = calls + 1
      BY <2>4 DEF PageStep, NetStep, SentNow, Fresh
    <3> QED
      BY <3>1, <2>1, <2>2
  <2> QED
    BY <2>3, <2>4
<1>3. ASSUME NEW q \in reqs'
      PROVE  RequestOK(q)'
  <2>1. UNCHANGED <<orders, held>>
    BY DEF PageStep, backend
  <2>2. CASE q \in rs /\ \E r \in reqs : ComesFrom(q, r) /\ q.status = r.status
    <3>1. PICK r \in reqs : ComesFrom(q, r) /\ q.status = r.status
      BY <2>2
    <3>2. RequestOK(r) /\ (q.status # "sent" => q.heard)
      BY <2>2 DEF TillInv, TillShape, PageStep, Left
    <3>3. q.visit \in Nat
      BY <1>2 DEF Request
    <3> QED
      BY <1>1, <2>1, <3>1, <3>2, <3>3 DEF RequestOK, ComesFrom
  <2>3. CASE SentNow(q)
    BY <1>1, <2>1, <2>3 DEF SentNow, Fresh, RequestOK
  <2> QED
    BY <2>2, <2>3, InFlightAfter DEF PageStep
<1>4. TillTypeOK'
  BY <1>1, <1>2 DEF PageStep, PageTyped, backend, TillInv, TillShape, TillTypeOK
<1> QED
  BY <1>1, <1>2, <1>3, <1>4 DEF TillShape

(***************************************************************************)
(* What carries a key after the step carried it before, or was sent with   *)
(* the key of the page.                                                    *)
(***************************************************************************)
SameStamp(x, y) == x.key = y.key /\ x.sale = y.sale /\ x.visit = y.visit
LEMMA KeysStay ==
  ASSUME TillInv, Clock,
         \A x \in Stamps' : \/ \E y \in Stamps : SameStamp(x, y)
                            \/ x.key = key /\ x.sale = sale /\ x.visit = visit
  PROVE  /\ \A x \in Stamps' : Stamped(x)'
         /\ \A x, y \in Stamps' : SameSale(x, y)
<1>1. /\ key \in 1..MaxKeys /\ visit \in 1..MaxKeys /\ sale \in Nat /\ MaxKeys \in Nat
      /\ key' \in 1..MaxKeys /\ visit' \in 1..MaxKeys /\ sale' \in Nat
      /\ key <= key' /\ visit <= visit' /\ sale <= sale'
      /\ sale' = sale /\ visit' = visit => key' = key
  BY ClockForward DEF TillInv
<1>2. \A y \in Stamps : y.sale \in Nat /\ y.visit \in Nat
  <2>1. invoices \in Seq(Invoice) /\ reqs \subseteq Request
    BY DEF TillInv, TillShape, TillTypeOK
  <2>2. \A i \in 1..Len(invoices) : invoices[i] \in Invoice
    BY <2>1
  <2>3. \A y \in Stamps : y \in Request \/ y \in Invoice
    BY <2>1, <2>2 DEF Stamps
  <2> QED
    BY <2>3 DEF Request, Invoice
<1>3. /\ \A y \in Stamps : Stamped(y)
      /\ \A x, y \in Stamps : SameSale(x, y)
  BY DEF TillInv, OneKey
<1>4. ASSUME NEW x \in Stamps'
      PROVE  Stamped(x)'
  <2>1. CASE x.key = key /\ x.sale = sale /\ x.visit = visit
    BY <1>1, <2>1 DEF Stamped
  <2>2. CASE \E y \in Stamps : SameStamp(x, y)
    <3>1. PICK y \in Stamps : SameStamp(x, y)
      BY <2>2
    <3> QED
      BY <1>1, <1>2, <1>3, <3>1 DEF Stamped, SameStamp
  <2> QED
    BY <2>1, <2>2
<1>5. ASSUME NEW x \in Stamps', NEW y \in Stamps'
      PROVE  SameSale(x, y)
  BY <1>3 DEF Stamped, SameStamp, SameSale
<1> QED
  BY <1>4, <1>5

LEMMA PageKeys ==
  ASSUME TillInv, NEW rs, PageStep(rs)
  PROVE  OneKey'
<1>1. UNCHANGED invoices /\ Clock /\ Left(rs) /\ NetStep(rs)
  BY DEF PageStep, backend
<1>2. ASSUME NEW x \in Stamps'
      PROVE  \/ \E y \in Stamps : SameStamp(x, y)
             \/ x.key = key /\ x.sale = sale /\ x.visit = visit
  <2>1. CASE x \in Stamps
    BY <2>1 DEF SameStamp
  <2>2. CASE x \notin Stamps
    <3>1. x \in reqs' /\ x.kind \in {"checkout", "bill"}
      BY <1>1, <1>2, <2>2 DEF Stamps
    <3>2. CASE SentNow(x)
      BY <3>1, <3>2 DEF SentNow, Fresh
    <3>3. CASE \E r \in reqs : ComesFrom(x, r) /\ x.status = r.status
      BY <3>1, <3>3 DEF ComesFrom, Stamps, SameStamp
    <3> QED
      BY <1>1, <3>1, <3>2, <3>3, InFlightAfter
  <2> QED
    BY <2>1, <2>2
<1>3. /\ \A x \in Stamps' : Stamped(x)'
      /\ \A x, y \in Stamps' : SameSale(x, y)
  BY <1>1, <1>2, KeysStay
<1> QED
  BY <1>1, <1>3 DEF OneKey, TillInv, SameSale

LEMMA PageHeld ==
  ASSUME TillInv, NEW rs, PageStep(rs)
  PROVE  HeldInv'
<1>1. UNCHANGED <<invoices, held>> /\ Left(rs) /\ NetStep(rs)
  BY DEF PageStep, backend
<1>2. \A k : Charged(k)' = Charged(k)
  BY <1>1 DEF Charged
<1>3. ASSUME NEW q \in reqs'
      PROVE  /\ q.kind = "delete" /\ q.key # 0 => Charged(q.key)
             /\ q.kind = "checkout" /\ q.status = "ok" => Charged(q.key)
  <2>1. CASE SentNow(q)
    BY <2>1 DEF SentNow, Fresh
  <2>2. CASE \E r \in reqs : ComesFrom(q, r) /\ q.status = r.status
    BY <2>2 DEF ComesFrom, TillInv, HeldInv
  <2> QED
    BY <1>1, <2>1, <2>2, InFlightAfter
<1>4. HeldBillsOutliveFailures'
  BY <1>1 DEF TillInv, HeldInv, HeldBillsOutliveFailures
<1> QED
  BY <1>2, <1>3, <1>4 DEF HeldInv

LEMMA PageCarry ==
  ASSUME TillInv, NEW rs, PageStep(rs)
  PROVE  CarryInv'
<1>1. UNCHANGED orders /\ Left(rs) /\ NetStep(rs) /\ Carries(rs)
  BY DEF PageStep, backend
<1>2. /\ visit \in Nat /\ visit' \in Nat /\ visit <= visit' /\ (visit' = visit \/ visit' > visit)
  BY ClockForward DEF PageStep, TillInv
<1>3. \A r \in reqs : r.visit \in Nat /\ r.visit <= visit
  BY DEF TillInv, TillShape, RequestOK, TillTypeOK, Request
<1>4. ASSUME NEW q \in reqs', q.visit = visit'
      PROVE  visit' = visit
  <2>1. q.visit <= visit
    <3>1. CASE SentNow(q)
      BY <1>2, <3>1 DEF SentNow, Fresh
    <3>2. CASE \E r \in reqs : ComesFrom(q, r) /\ q.status = r.status
      BY <1>3, <3>2 DEF ComesFrom
    <3> QED
      BY <1>1, <3>1, <3>2, InFlightAfter
  <2> QED
    BY <1>2, <1>4, <2>1
<1>5. \A p, t : WasOnTable(p, t)' = WasOnTable(p, t)
  BY <1>1 DEF WasOnTable
<1>6. ASSUME NEW q \in reqs', Asked(q, "move")'
      PROVE  local' \ late' \subseteq q.items
  <2>1. visit' = visit /\ q.kind = "move" /\ q.heard /\ q.visit = visit
    BY <1>4, <1>6 DEF Asked
  <2>2. CASE SentNow(q)
    BY <2>1, <2>2 DEF SentNow, Fresh
  <2>3. CASE \E r \in reqs : ComesFrom(q, r) /\ q.status = r.status
    <3>1. PICK r \in reqs : ComesFrom(q, r)
      BY <2>3
    <3>2. Asked(r, "move") /\ q.items = r.items
      BY <2>1, <3>1 DEF ComesFrom, Asked
    <3> QED
      BY <1>1, <2>1, <3>2 DEF Carries, TillInv, CarryInv
  <2> QED
    BY <1>1, <2>2, <2>3, InFlightAfter
<1>7. ASSUME NEW q \in reqs', q.kind = "move", q.status = "ok"
      PROVE  \A p \in q.items : WasOnTable(p, q.table)
  <2>1. CASE SentNow(q)
    BY <1>7, <2>1 DEF SentNow, Fresh
  <2>2. CASE \E r \in reqs : ComesFrom(q, r) /\ q.status = r.status
    BY <1>7, <2>2 DEF ComesFrom, TillInv, CarryInv
  <2> QED
    BY <1>1, <2>1, <2>2, InFlightAfter
<1>8. ASSUME NEW q \in reqs', Asked(q, "transfer")'
      PROVE  pendingTableChange' # NoTable /\ local' = {}
  <2>1. visit' = visit /\ Asked(q, "transfer")
    BY <1>4, <1>8 DEF Asked
  <2>2. CASE SentNow(q)
    BY <2>1, <2>2 DEF SentNow, Fresh, Asked, TillInv, CarryInv
  <2>3. CASE q \in rs
    BY <1>1, <2>1, <2>3 DEF Carries
  <2> QED
    BY <1>1, <2>2, <2>3, InFlightAfter
<1>9. ASSUME NEW q \in reqs', NEW s \in reqs', Asked(q, "transfer")', Asked(s, "transfer")'
      PROVE  q = s
  <2>1. visit' = visit /\ Asked(q, "transfer") /\ Asked(s, "transfer")
    BY <1>4, <1>9 DEF Asked
  <2>2. CASE q \in rs /\ s \in rs
    BY <1>1, <2>1, <2>2 DEF Left
  <2>3. CASE ~(q \in rs /\ s \in rs)
    <3>1. PICK x : SentNow(x) /\ reqs' = rs \union {x}
      BY <1>1, <2>3 DEF NetStep
    <3>2. x = q \/ x = s
      BY <2>3, <3>1
    <3>3. ~\E r \in reqs : Asked(r, "transfer")
      BY <2>1, <3>1, <3>2 DEF SentNow, Fresh, Pending, Asked
    <3>4. \A y \in rs : ~Asked(y, "transfer")
      BY <1>1, <3>3 DEF Left, ComesFrom, Asked
    <3> QED
      BY <2>1, <3>1, <3>4
  <2> QED
    BY <2>2, <2>3
<1> QED
  BY <1>1, <1>5, <1>6, <1>7, <1>8, <1>9 DEF CarryInv, Carries

LEMMA PageKeepsInv ==
  ASSUME TillInv, NEW rs, PageStep(rs)
  PROVE  TillInv'
BY PageShape, PageKeys, PageHeld, PageCarry DEF TillInv

-----------------------------------------------------------------------------
(***************************************************************************)
(* What the page shows, and the requests it can send.                      *)
(***************************************************************************)
LEMMA ViewType ==
  ASSUME TillShape
  PROVE  /\ tableId # NoTable =>
              /\ tableId \in Tables /\ View.order \in 0..MaxOrders
              /\ View.order <= Len(orders) /\ View.items \subseteq Products
         /\ Lines \subseteq Products /\ local \subseteq Products
         /\ key \in 1..MaxKeys /\ key \in 0..MaxKeys /\ key # 0 /\ NoTable \notin Tables
         /\ Len(orders) \in Nat /\ Len(held) \in Nat /\ Len(held) <= MaxHeld /\ MaxHeld \in Nat
<1>1. /\ orders \in Seq(Order) /\ Len(orders) <= MaxOrders /\ held \in Seq(HeldBill)
      /\ Len(held) <= MaxHeld
      /\ seen \in [Tables -> [order : 0..Len(orders), items : SUBSET Products]]
      /\ tableId \in Tables \union {NoTable} /\ local \subseteq Products /\ key \in 1..MaxKeys
  BY DEF TillShape, TillTypeOK
<1>2. MaxOrders \in Nat /\ MaxHeld \in Nat /\ Len(orders) \in Nat /\ Len(held) \in Nat
      /\ MaxKeys \in Nat /\ NoTable \notin Tables
  BY <1>1, TillAssumption DEF TillAssumption
<1>3. tableId # NoTable =>
        View.order \in 0..Len(orders) /\ View.items \subseteq Products /\ tableId \in Tables
  BY <1>1 DEF View
<1> QED
  BY <1>1, <1>2, <1>3 DEF Lines

LEMMA SentToOrder ==
  ASSUME TillShape, 1 \in 1..MaxInFlight, tableId # NoTable, NEW S \in SUBSET Products
  PROVE  /\ SentNow([Blank EXCEPT !.table = tableId, !.items = S])
         /\ SentNow([Blank EXCEPT !.kind = "remove", !.order = View.order, !.items = S])
         /\ SentNow([Blank EXCEPT !.kind = "kot", !.heard = TRUE, !.order = View.order])
         /\ SentNow([Blank EXCEPT !.kind = "bill", !.heard = TRUE, !.order = View.order,
                                  !.key = key])
<1> DEFINE o == View.order
<1>1. /\ tableId \in Tables /\ o \in 0..MaxOrders /\ o <= Len(orders)
      /\ key \in 0..MaxKeys /\ Len(orders) \in Nat /\ Len(held) \in Nat /\ NoTable \notin Tables
  BY ViewType
<1> HIDE DEF o
<1>2. /\ Blank \in Request /\ Blank.status = "sent" /\ Blank.sale = sale
      /\ Blank.visit = visit /\ Blank.order = 0 /\ Blank.held = 0 /\ Blank.kind = "open"
  BY BlankType
<1>3. SentNow([Blank EXCEPT !.table = tableId, !.items = S])
  <2> DEFINE x == [Blank EXCEPT !.table = tableId, !.items = S]
  <2>1. /\ x \in Request /\ x.kind = "open" /\ x.table = tableId /\ x.order = 0 /\ x.held = 0
        /\ x.status = "sent" /\ x.sale = sale /\ x.visit = visit
    BY <1>1, <1>2 DEF Request
  <2> QED
    BY <1>1, <2>1 DEF SentNow, Fresh
<1>4. SentNow([Blank EXCEPT !.kind = "remove", !.order = o, !.items = S])
  <2> DEFINE x == [Blank EXCEPT !.kind = "remove", !.order = o, !.items = S]
  <2>1. /\ x \in Request /\ x.kind = "remove" /\ x.order = o /\ x.held = 0
        /\ x.status = "sent" /\ x.sale = sale /\ x.visit = visit
    BY <1>1, <1>2 DEF Request, Kinds
  <2> QED
    BY <1>1, <2>1 DEF SentNow, Fresh
<1>5. SentNow([Blank EXCEPT !.kind = "kot", !.heard = TRUE, !.order = o])
  <2> DEFINE x == [Blank EXCEPT !.kind = "kot", !.heard = TRUE, !.order = o]
  <2>1. /\ x \in Request /\ x.kind = "kot" /\ x.order = o /\ x.held = 0
        /\ x.status = "sent" /\ x.sale = sale /\ x.visit = visit
    BY <1>1, <1>2 DEF Request, Kinds
  <2> QED
    BY <1>1, <2>1 DEF SentNow, Fresh
<1>6. SentNow([Blank EXCEPT !.kind = "bill", !.heard = TRUE, !.order = o, !.key = key])
  <2> DEFINE x == [Blank EXCEPT !.kind = "bill", !.heard = TRUE, !.order = o, !.key = key]
  <2>1. /\ x \in Request /\ x.kind = "bill" /\ x.order = o /\ x.held = 0 /\ x.key = key
        /\ x.status = "sent" /\ x.sale = sale /\ x.visit = visit
    BY <1>1, <1>2 DEF Request, Kinds
  <2> QED
    BY <1>1, <2>1 DEF SentNow, Fresh
<1> QED
  BY <1>3, <1>4, <1>5, <1>6 DEF o

LEMMA SentFromCounter ==
  ASSUME TillShape, 1 \in 1..MaxInFlight, NEW h \in 0..Len(held)
  PROVE  /\ SentNow([Blank EXCEPT !.kind = "hold", !.heard = TRUE, !.items = local])
         /\ SentNow([Blank EXCEPT !.kind = "checkout", !.heard = TRUE, !.items = local,
                                  !.key = key, !.held = h])
<1>1. /\ local \subseteq Products /\ h \in 0..MaxHeld /\ h <= Len(held)
      /\ key \in 0..MaxKeys /\ Len(orders) \in Nat /\ Len(held) \in Nat
  BY ViewType
<1>2. /\ Blank \in Request /\ Blank.status = "sent" /\ Blank.sale = sale
      /\ Blank.visit = visit /\ Blank.order = 0 /\ Blank.held = 0 /\ Blank.kind = "open"
  BY BlankType
<1>3. SentNow([Blank EXCEPT !.kind = "hold", !.heard = TRUE, !.items = local])
  <2> DEFINE x == [Blank EXCEPT !.kind = "hold", !.heard = TRUE, !.items = local]
  <2>1. /\ x \in Request /\ x.kind = "hold" /\ x.order = 0 /\ x.held = 0
        /\ x.status = "sent" /\ x.sale = sale /\ x.visit = visit
    BY <1>1, <1>2 DEF Request, Kinds
  <2> QED
    BY <1>1, <2>1 DEF SentNow, Fresh
<1>4. SentNow([Blank EXCEPT !.kind = "checkout", !.heard = TRUE, !.items = local,
                            !.key = key, !.held = h])
  <2> DEFINE x == [Blank EXCEPT !.kind = "checkout", !.heard = TRUE, !.items = local,
                                !.key = key, !.held = h]
  <2>1. /\ x \in Request /\ x.kind = "checkout" /\ x.order = 0 /\ x.held = h /\ x.key = key
        /\ x.status = "sent" /\ x.sale = sale /\ x.visit = visit
    BY <1>1, <1>2 DEF Request, Kinds
  <2> QED
    BY <1>1, <2>1 DEF SentNow, Fresh
<1> QED
  BY <1>3, <1>4

LEMMA SentDelete ==
  ASSUME TillShape, 1 \in 1..MaxInFlight, NEW h \in 1..Len(held), NEW k \in 0..MaxKeys,
         k # 0 => Charged(k)
  PROVE  SentNow([Blank EXCEPT !.kind = "delete", !.held = h, !.key = k])
<1>1. /\ h \in 0..MaxHeld /\ h <= Len(held) /\ h # 0 /\ Len(orders) \in Nat /\ Len(held) \in Nat
  BY ViewType
<1>2. /\ Blank \in Request /\ Blank.status = "sent" /\ Blank.sale = sale
      /\ Blank.visit = visit /\ Blank.order = 0 /\ Blank.held = 0 /\ Blank.kind = "open"
  BY BlankType
<1> DEFINE x == [Blank EXCEPT !.kind = "delete", !.held = h, !.key = k]
<1>3. /\ x \in Request /\ x.kind = "delete" /\ x.order = 0 /\ x.held = h /\ x.key = k
      /\ x.status = "sent" /\ x.sale = sale /\ x.visit = visit
  BY <1>1, <1>2 DEF Request, Kinds
<1> QED
  BY <1>1, <1>3 DEF SentNow, Fresh

LEMMA SentCart ==
  ASSUME TillShape, 1 \in 1..MaxInFlight, NEW t \in Tables, UNCHANGED <<local, late>>
  PROVE  SentNow([Blank EXCEPT !.kind = "move", !.heard = TRUE, !.table = t, !.items = local])
<1>1. /\ local \subseteq Products /\ Len(orders) \in Nat /\ Len(held) \in Nat
      /\ NoTable \notin Tables
  BY ViewType
<1>2. /\ Blank \in Request /\ Blank.status = "sent" /\ Blank.sale = sale
      /\ Blank.visit = visit /\ Blank.order = 0 /\ Blank.held = 0 /\ Blank.kind = "open"
  BY BlankType
<1> DEFINE x == [Blank EXCEPT !.kind = "move", !.heard = TRUE, !.table = t, !.items = local]
<1>3. /\ x \in Request /\ x.kind = "move" /\ x.order = 0 /\ x.held = 0 /\ x.table = t
      /\ x.items = local /\ x.status = "sent" /\ x.sale = sale /\ x.visit = visit
  BY <1>1, <1>2 DEF Request, Kinds
<1> QED
  BY <1>1, <1>3 DEF SentNow, Fresh

LEMMA SentTransfer ==
  ASSUME TillShape, 1 \in 1..MaxInFlight, tableId # NoTable, pendingTableChange # NoTable,
         ~Pending("transfer"), UNCHANGED <<local, pendingTableChange>>
  PROVE  SentNow([Blank EXCEPT !.kind = "transfer", !.heard = TRUE, !.order = View.order,
                               !.table = pendingTableChange])
<1> DEFINE o == View.order
<1>1. /\ o \in 0..MaxOrders /\ o <= Len(orders) /\ Len(orders) \in Nat /\ Len(held) \in Nat
      /\ pendingTableChange \in Tables \union {NoTable}
  BY ViewType DEF TillShape, TillTypeOK
<1> HIDE DEF o
<1>2. /\ Blank \in Request /\ Blank.status = "sent" /\ Blank.sale = sale
      /\ Blank.visit = visit /\ Blank.order = 0 /\ Blank.held = 0 /\ Blank.kind = "open"
  BY BlankType
<1> DEFINE x == [Blank EXCEPT !.kind = "transfer", !.heard = TRUE, !.order = o,
                              !.table = pendingTableChange]
<1>3. /\ x \in Request /\ x.kind = "transfer" /\ x.order = o /\ x.held = 0
      /\ x.status = "sent" /\ x.sale = sale /\ x.visit = visit
  BY <1>1, <1>2 DEF Request, Kinds
<1>4. SentNow(x)
  BY <1>1, <1>3 DEF SentNow, Fresh
<1> QED
  BY <1>4 DEF o

LEMMA SentDeleteByHand ==
  ASSUME TillShape, 1 \in 1..MaxInFlight, NEW h \in 1..Len(held)
  PROVE  SentNow([Blank EXCEPT !.kind = "delete", !.held = h])
<1>1. /\ h \in 0..MaxHeld /\ h <= Len(held) /\ h # 0 /\ Len(orders) \in Nat /\ Len(held) \in Nat
  BY ViewType
<1>2. /\ Blank \in Request /\ Blank.status = "sent" /\ Blank.sale = sale /\ Blank.key = 0
      /\ Blank.visit = visit /\ Blank.order = 0 /\ Blank.held = 0 /\ Blank.kind = "open"
  BY BlankType
<1> DEFINE x == [Blank EXCEPT !.kind = "delete", !.held = h]
<1>3. /\ x \in Request /\ x.kind = "delete" /\ x.order = 0 /\ x.held = h /\ x.key = 0
      /\ x.status = "sent" /\ x.sale = sale /\ x.visit = visit
  BY <1>1, <1>2 DEF Request, Kinds
<1> QED
  BY <1>1, <1>3 DEF SentNow, Fresh

(***************************************************************************)
(* The page keeps its types, and carries what it carried, where it only    *)
(* sends a request.                                                        *)
(***************************************************************************)
LEMMA TypedNow == TillInv => PageTyped
BY DEF TillInv, TillShape, TillTypeOK, PageTyped

LEMMA TypedStays ==
  ASSUME TillInv, UNCHANGED <<backend, tableId, pendingTableChange, seen, resumed, completed>>,
         local' \subseteq Products, late' \subseteq Products
  PROVE  PageTyped'
BY TypedNow DEF PageTyped, backend

LEMMA CarriesStays ==
  ASSUME TillInv, NEW rs, Left(rs), UNCHANGED <<tableId, pendingTableChange, local, late>>
  PROVE  Carries(rs)
<1>1. ASSUME NEW q \in rs, Asked(q, "transfer")
      PROVE  \E r \in reqs : Asked(r, "transfer")
  BY <1>1 DEF Left, ComesFrom, Asked
<1> QED
  BY <1>1 DEF Carries, TillInv, CarryInv

\* No question, so no transfer to wait for.
LEMMA NoTransfer ==
  ASSUME TillInv, NEW rs, Left(rs), pendingTableChange = NoTable
  PROVE  ~\E q \in rs : Asked(q, "transfer")
<1>1. ASSUME NEW q \in rs, Asked(q, "transfer")
      PROVE  \E r \in reqs : Asked(r, "transfer")
  BY <1>1 DEF Left, ComesFrom, Asked
<1> QED
  BY <1>1 DEF TillInv, CarryInv

LEMMA AllLeft == TillInv => Left(reqs)
BY SomeLeft

\* A request sent where nothing else changes.
LEMMA OnlySends ==
  ASSUME TillInv, NEW x, Send(reqs, x), SentNow(x),
         UNCHANGED <<backend, page, local, late, sale>>
  PROVE  TillInv'
<1>1. Left(reqs) /\ NetStep(reqs)
  BY AllLeft, SendStep
<1>2. UNCHANGED <<tableId, pendingTableChange, seen, resumed, completed, key, visit>>
  BY DEF page
<1>3. PageTyped' /\ Carries(reqs) /\ Clock
  BY <1>1, <1>2, TypedStays, CarriesStays DEF TillInv, TillShape, TillTypeOK, Clock
<1> QED
  BY <1>1, <1>3, PageKeepsInv DEF PageStep

-----------------------------------------------------------------------------
(***************************************************************************)
(* The cart.                                                               *)
(***************************************************************************)
LEMMA AddKeepsInv ==
  ASSUME TillInv, NEW p \in Products, addProduct(p)
  PROVE  TillInv'
<1>0. TillShape
  BY DEF TillInv
<1>1. CASE tableId # NoTable
  <2>1. /\ Send(reqs, [Blank EXCEPT !.table = tableId, !.items = {p}])
        /\ UNCHANGED <<backend, page, local, late, sale>>
    BY <1>1 DEF addProduct
  <2>2. 1 \in 1..MaxInFlight
    BY <2>1, RoomForOne, <1>0 DEF TillShape
  <2>3. SentNow([Blank EXCEPT !.table = tableId, !.items = {p}])
    BY <1>0, <1>1, <2>2, SentToOrder
  <2> QED
    BY <2>1, <2>3, OnlySends
<1>2. CASE tableId = NoTable
  <2>1. /\ local' = local \union {p} /\ pendingTableChange = NoTable
        /\ late' = IF Pending("move") THEN late \union {p} ELSE late \ {p}
        /\ UNCHANGED <<backend, page, net, sale>>
    BY <1>2 DEF addProduct, Free
  <2>2. /\ UNCHANGED <<tableId, pendingTableChange, seen, resumed, completed, key, visit>>
        /\ UNCHANGED <<reqs, calls>>
    BY <2>1 DEF page, net
  <2>3. Left(reqs) /\ NetStep(reqs)
    BY <2>2, AllLeft DEF NetStep
  <2>4. PageTyped' /\ Clock
    BY <1>0, <2>1, <2>2, TypedStays DEF Clock, TillShape, TillTypeOK
  <2>5. Carries(reqs)
    BY <1>2, <2>1, <2>2, <2>3, NoTransfer DEF Carries, Pending, Asked
  <2> QED
    BY <2>1, <2>3, <2>4, <2>5, PageKeepsInv DEF PageStep
<1> QED
  BY <1>1, <1>2

LEMMA RemoveKeepsInv ==
  ASSUME TillInv, NEW p \in Products, removeLine(p)
  PROVE  TillInv'
<1>0. TillShape
  BY DEF TillInv
<1>1. CASE tableId # NoTable
  <2>1. /\ Send(reqs, [Blank EXCEPT !.kind = "remove", !.order = View.order, !.items = {p}])
        /\ UNCHANGED <<backend, page, local, late, sale>>
    BY <1>1 DEF removeLine
  <2>2. 1 \in 1..MaxInFlight
    BY <2>1, RoomForOne, <1>0 DEF TillShape
  <2>3. SentNow([Blank EXCEPT !.kind = "remove", !.order = View.order, !.items = {p}])
    BY <1>0, <1>1, <2>2, SentToOrder
  <2> QED
    BY <2>1, <2>3, OnlySends
<1>2. CASE tableId = NoTable
  <2>1. /\ local' = local \ {p} /\ pendingTableChange = NoTable
        /\ UNCHANGED <<backend, page, late, net, sale>>
    BY <1>2 DEF removeLine, Free
  <2>2. /\ UNCHANGED <<tableId, pendingTableChange, seen, resumed, completed, key, visit>>
        /\ UNCHANGED <<reqs, calls>>
    BY <2>1 DEF page, net
  <2>3. Left(reqs) /\ NetStep(reqs)
    BY <2>2, AllLeft DEF NetStep
  <2>4. PageTyped' /\ Clock
    BY <1>0, <2>1, <2>2, TypedStays DEF Clock, TillShape, TillTypeOK
  <2>5. Carries(reqs)
    BY <1>2, <2>1, <2>2, <2>3, NoTransfer DEF Carries
  <2> QED
    BY <2>1, <2>3, <2>4, <2>5, PageKeepsInv DEF PageStep
<1> QED
  BY <1>1, <1>2

(***************************************************************************)
(* Clearing empties the local cart at the counter, and at a table leaves   *)
(* it as it was, which is empty.                                           *)
(***************************************************************************)
LEMMA ClearStep ==
  ASSUME TillInv, NEW rs, Left(rs), clear(rs)
  PROVE  NetStep(rs) /\ local' = {}
<1>0. TillShape
  BY DEF TillInv
<1>1. CASE tableId = NoTable
  BY <1>1 DEF clear, Requests, NetStep
<1>2. CASE tableId # NoTable
  <2>1. local' = {}
    BY <1>2 DEF clear, TillInv, CarryInv
  <2>2. CASE View.items = {}
    BY <1>2, <2>1, <2>2 DEF clear, Requests, NetStep
  <2>3. CASE View.items # {}
    <3>1. Send(rs, [Blank EXCEPT !.kind = "remove", !.order = View.order, !.items = View.items])
      BY <1>2, <2>3 DEF clear
    <3>2. 1 \in 1..MaxInFlight
      BY <3>1, RoomForOne DEF Left
    <3>3. View.items \in SUBSET Products
      BY <1>0, <1>2, ViewType
    <3>4. SentNow([Blank EXCEPT !.kind = "remove", !.order = View.order, !.items = View.items])
      BY <1>0, <1>2, <3>2, <3>3, SentToOrder
    <3> QED
      BY <2>1, <3>1, <3>4, SendStep
  <2> QED
    BY <2>2, <2>3
<1> QED
  BY <1>1, <1>2

LEMMA OnClearKeepsInv ==
  ASSUME TillInv, onClear
  PROVE  TillInv'
<1>1. /\ clear(reqs) /\ sale' = sale + 1 /\ pendingTableChange = NoTable
      /\ UNCHANGED <<backend, late>>
      /\ UNCHANGED <<tableId, pendingTableChange, seen, resumed, completed, key, visit>>
  BY DEF onClear, Free, page
<1>2. Left(reqs) /\ NetStep(reqs) /\ local' = {}
  BY <1>1, AllLeft, ClearStep
<1>3. PageTyped' /\ Clock
  BY <1>1, <1>2, TypedStays DEF Clock, TillInv, TillShape, TillTypeOK
<1>4. Carries(reqs)
  BY <1>1, <1>2, NoTransfer DEF Carries
<1> QED
  BY <1>1, <1>2, <1>3, <1>4, PageKeepsInv DEF PageStep

(***************************************************************************)
(* Starting over, after a receipt or a bill put on hold.                   *)
(***************************************************************************)
LEMMA ResetKeepsInv ==
  ASSUME TillInv, NEW rs, Left(rs), resetForNewSale(rs), UNCHANGED <<backend, late>>
  PROVE  TillInv'
<1>1. /\ clear(rs) /\ key < MaxKeys /\ tableId' = NoTable /\ resumed' = 0 /\ completed' = FALSE
      /\ key' = key + 1 /\ sale' = sale + 1
      /\ UNCHANGED <<pendingTableChange, seen, visit>>
  BY DEF resetForNewSale
<1>2. NetStep(rs) /\ local' = {}
  BY <1>1, ClearStep
<1>3. PageTyped' /\ Clock
  <2>1. 0 \in 0..Len(held)
    BY ViewType DEF TillInv
  <2> QED
    BY <1>1, <1>2, <2>1, TypedNow DEF PageTyped, Clock, backend
<1>4. Carries(rs)
  <2>1. ASSUME NEW q \in rs, Asked(q, "transfer")
        PROVE  pendingTableChange # NoTable
    BY <2>1, NoTransfer
  <2> QED
    BY <1>1, <1>2, <2>1 DEF Carries
<1> QED
  BY <1>2, <1>3, <1>4, PageKeepsInv DEF PageStep

-----------------------------------------------------------------------------
(***************************************************************************)
(* Held bills, tables and the receipt.                                     *)
(***************************************************************************)
LEMMA HoldKeepsInv ==
  ASSUME TillInv, holdBill
  PROVE  TillInv'
<1>1. /\ Send(reqs, [Blank EXCEPT !.kind = "hold", !.heard = TRUE, !.items = local])
      /\ UNCHANGED <<backend, page, local, late, sale>>
  BY DEF holdBill
<1>2. 1 \in 1..MaxInFlight /\ 0 \in 0..Len(held) /\ TillShape
  BY <1>1, RoomForOne, ViewType DEF TillInv, TillShape
<1>3. SentNow([Blank EXCEPT !.kind = "hold", !.heard = TRUE, !.items = local])
  BY <1>2, SentFromCounter
<1> QED
  BY <1>1, <1>3, OnlySends

LEMMA ResumeKeepsInv ==
  ASSUME TillInv, NEW h \in 1..Len(held), resumeHeldBill(h)
  PROVE  TillInv'
<1>1. /\ pendingTableChange = NoTable /\ tableId' = NoTable /\ resumed' = h /\ sale' = sale + 1
      /\ local' = IF tableId = NoTable THEN held[h].items ELSE local
      /\ late' = IF Pending("move") THEN late \union held[h].items ELSE late
      /\ UNCHANGED <<backend, pendingTableChange, seen, completed, key, visit, reqs, calls>>
  BY DEF resumeHeldBill, Free, net
<1>2. held[h].items \subseteq Products
  <2>1. held[h] \in HeldBill
    BY DEF TillInv, TillShape, TillTypeOK
  <2> QED
    BY <2>1 DEF HeldBill
<1>3. Left(reqs) /\ NetStep(reqs)
  BY <1>1, AllLeft DEF NetStep
<1>4. PageTyped' /\ Clock
  <2>1. Len(held) \in Nat
    BY ViewType DEF TillInv
  <2> QED
    BY <1>1, <1>2, <2>1, TypedNow DEF PageTyped, Clock, backend
<1>5. Carries(reqs)
  <2>1. (\E r \in reqs : Asked(r, "move")) => local' \ late' \subseteq local \ late
    BY <1>1 DEF Pending, Asked
  <2> QED
    BY <1>1, <1>3, <2>1, NoTransfer DEF Carries
<1> QED
  BY <1>1, <1>3, <1>4, <1>5, PageKeepsInv DEF PageStep

LEMMA DeleteKeepsInv ==
  ASSUME TillInv, NEW h \in 1..Len(held), deleteHeldBill(h)
  PROVE  TillInv'
<1>1. /\ Send(reqs, [Blank EXCEPT !.kind = "delete", !.held = h])
      /\ UNCHANGED <<backend, page, local, late, sale>>
  BY DEF deleteHeldBill
<1>2. 1 \in 1..MaxInFlight /\ TillShape
  BY <1>1, RoomForOne DEF TillInv, TillShape
<1>3. SentNow([Blank EXCEPT !.kind = "delete", !.held = h])
  BY <1>2, SentDeleteByHand
<1> QED
  BY <1>1, <1>3, OnlySends

LEMMA SupersededLeft == TillInv => Left(Superseded)
<1> SUFFICES ASSUME TillInv PROVE Left(Superseded)
  OBVIOUS
<1> DEFINE f == [r \in reqs |-> IF r.kind = "move" THEN [r EXCEPT !.live = FALSE] ELSE r]
<1>1. ASSUME NEW r \in reqs
      PROVE  /\ f[r] \in Request /\ ComesFrom(f[r], r) /\ f[r].status = r.status
             /\ f[r].status # "sent" => f[r].heard
             /\ Asked(f[r], "transfer") => f[r] = r
  <2>1. r \in Request /\ (r.status # "sent" => r.heard)
    BY DEF TillInv, TillShape, TillTypeOK, RequestOK
  <2>2. CASE r.kind = "move"
    <3> DEFINE q == [r EXCEPT !.live = FALSE]
    <3>1. q \in Request /\ ComesFrom(q, r) /\ q.status = r.status /\ q.heard = r.heard
          /\ q.kind = "move"
      BY <2>1, <2>2 DEF Request, ComesFrom
    <3> QED
      BY <2>1, <2>2, <3>1 DEF Asked
  <2>3. CASE r.kind # "move"
    BY <2>1, <2>3 DEF ComesFrom
  <2> QED
    BY <2>2, <2>3
<1>2. Superseded = {f[r] : r \in reqs}
  BY DEF Superseded
<1>3. f \in [reqs -> Request]
  BY <1>1
<1> HIDE DEF f
<1>4. Left({f[r] : r \in reqs})
  BY <1>1, <1>3, ChangedLeft
<1> QED
  BY <1>2, <1>4

LEMMA TableKeepsInv ==
  ASSUME TillInv, NEW t \in Tables \union {NoTable}, handleTableChange(t)
  PROVE  TillInv'
<1>0. /\ pendingTableChange = NoTable /\ t # tableId /\ TillShape
      /\ UNCHANGED <<backend, seen, resumed, completed, key, visit, local, late, sale>>
  BY DEF handleTableChange, Free, TillInv
<1>1. CASE tableId # NoTable /\ Lines # {} /\ pendingTableChange' = t /\ UNCHANGED <<tableId, net>>
  <2>1. Left(reqs) /\ NetStep(reqs)
    BY <1>1, AllLeft DEF NetStep, net
  <2>2. PageTyped' /\ Clock
    BY <1>0, <1>1, TypedNow DEF PageTyped, Clock, backend
  <2>3. Carries(reqs)
    BY <1>0, <1>1, <2>1, NoTransfer DEF Carries, TillInv, CarryInv
  <2> QED
    BY <1>0, <2>1, <2>2, <2>3, PageKeepsInv DEF PageStep
<1>2. CASE /\ tableId = NoTable /\ t # NoTable
           /\ Send(Superseded, [Blank EXCEPT !.kind = "move", !.heard = TRUE,
                                             !.table = t, !.items = local])
           /\ UNCHANGED <<tableId, pendingTableChange>>
  <2>1. Left(Superseded)
    BY SupersededLeft
  <2>2. 1 \in 1..MaxInFlight
    BY <1>2, <2>1, RoomForOne DEF Left
  <2>3. SentNow([Blank EXCEPT !.kind = "move", !.heard = TRUE, !.table = t, !.items = local])
    BY <1>0, <1>2, <2>2, SentCart
  <2>4. NetStep(Superseded)
    BY <1>2, <2>1, <2>3, SendStep
  <2>5. PageTyped' /\ Clock
    BY <1>0, <1>2, TypedNow DEF PageTyped, Clock, backend
  <2>6. Carries(Superseded)
    BY <1>0, <1>2, <2>1, CarriesStays
  <2> QED
    BY <1>0, <2>1, <2>4, <2>5, <2>6, PageKeepsInv DEF PageStep
<1>3. CASE Lines = {} /\ tableId' = t /\ UNCHANGED <<pendingTableChange, net>>
  <2>1. Left(reqs) /\ NetStep(reqs)
    BY <1>3, AllLeft DEF NetStep, net
  <2>2. PageTyped' /\ Clock
    BY <1>0, <1>3, TypedNow DEF PageTyped, Clock, backend
  <2>3. local = {}
    BY <1>3 DEF Lines, TillInv, CarryInv
  <2>4. Carries(reqs)
    BY <1>0, <1>3, <2>1, <2>3, NoTransfer DEF Carries
  <2> QED
    BY <1>0, <2>1, <2>2, <2>4, PageKeepsInv DEF PageStep
<1> QED
  BY <1>1, <1>2, <1>3 DEF handleTableChange

LEMMA KeepKeepsInv ==
  ASSUME TillInv, onKeepCurrent
  PROVE  TillInv'
<1>1. /\ ~Pending("transfer") /\ pendingTableChange' = NoTable
      /\ UNCHANGED <<backend, tableId, seen, resumed, completed, key, visit, local, late,
                     sale, reqs, calls>>
  BY DEF onKeepCurrent, net
<1>2. Left(reqs) /\ NetStep(reqs)
  BY <1>1, AllLeft DEF NetStep
<1>3. PageTyped' /\ Clock
  BY <1>1, TypedNow DEF PageTyped, Clock, backend
<1>4. Carries(reqs)
  BY <1>1 DEF Carries, Pending, Asked, TillInv, CarryInv
<1> QED
  BY <1>1, <1>2, <1>3, <1>4, PageKeepsInv DEF PageStep

LEMMA TransferKeepsInv ==
  ASSUME TillInv, moveOrderToTable
  PROVE  TillInv'
<1>1. /\ pendingTableChange # NoTable /\ ~Pending("transfer") /\ tableId # NoTable
      /\ Send(reqs, [Blank EXCEPT !.kind = "transfer", !.heard = TRUE, !.order = View.order,
                                  !.table = pendingTableChange])
      /\ UNCHANGED <<backend, page, local, late, sale>>
  BY DEF moveOrderToTable
<1>2. 1 \in 1..MaxInFlight /\ TillShape
  BY <1>1, RoomForOne DEF TillInv, TillShape
<1>3. UNCHANGED <<local, pendingTableChange>>
  BY <1>1 DEF page
<1>4. SentNow([Blank EXCEPT !.kind = "transfer", !.heard = TRUE, !.order = View.order,
                            !.table = pendingTableChange])
  BY <1>1, <1>2, <1>3, SentTransfer
<1> QED
  BY <1>1, <1>4, OnlySends

LEMMA KotKeepsInv ==
  ASSUME TillInv, sendKot
  PROVE  TillInv'
<1>1. /\ tableId # NoTable
      /\ Send(reqs, [Blank EXCEPT !.kind = "kot", !.heard = TRUE, !.order = View.order])
      /\ UNCHANGED <<backend, page, local, late, sale>>
  BY DEF sendKot, KotOffered
<1>2. 1 \in 1..MaxInFlight /\ TillShape /\ {} \in SUBSET Products
  BY <1>1, RoomForOne DEF TillInv, TillShape
<1>3. SentNow([Blank EXCEPT !.kind = "kot", !.heard = TRUE, !.order = View.order])
  BY <1>1, <1>2, SentToOrder
<1> QED
  BY <1>1, <1>3, OnlySends

LEMMA RefetchKeepsInv ==
  ASSUME TillInv, Refetch
  PROVE  TillInv'
<1> DEFINE row == IF Open(tableId) = {} THEN NoOrder
                  ELSE LET o == CHOOSE x \in Open(tableId) : TRUE
                       IN [order |-> o, items |-> orders[o].items]
<1>1. /\ tableId # NoTable /\ seen' = [seen EXCEPT ![tableId] = row]
      /\ UNCHANGED <<backend, tableId, pendingTableChange, resumed, completed, key, visit,
                     local, late, sale, reqs, calls>>
  BY DEF Refetch, net
<1>2. row \in [order : 0..Len(orders), items : SUBSET Products]
  <2>1. /\ \A o \in 1..Len(orders) : orders[o].items \subseteq Products
        /\ Len(orders) \in Nat
    <3>1. orders \in Seq(Order)
      BY DEF TillInv, TillShape, TillTypeOK
    <3>2. \A o \in 1..Len(orders) : orders[o] \in Order
      BY <3>1
    <3> QED
      BY <3>1, <3>2 DEF Order
  <2>2. CASE Open(tableId) = {}
    BY <2>1, <2>2 DEF NoOrder
  <2>3. CASE Open(tableId) # {}
    <3> DEFINE o == CHOOSE x \in Open(tableId) : TRUE
    <3>1. o \in Open(tableId)
      BY <2>3
    <3> HIDE DEF o
    <3>2. o \in 1..Len(orders) /\ o \in 0..Len(orders)
      BY <2>1, <3>1 DEF Open
    <3>3. [order |-> o, items |-> orders[o].items] \in [order : 0..Len(orders), items : SUBSET Products]
      BY <2>1, <3>2
    <3> QED
      BY <2>3, <3>3 DEF o
  <2> QED
    BY <2>2, <2>3
<1> HIDE DEF row
<1>3. Left(reqs) /\ NetStep(reqs)
  BY <1>1, AllLeft DEF NetStep
<1>4. PageTyped' /\ Clock
  BY <1>1, <1>2, TypedNow DEF PageTyped, Clock, backend
<1>5. Carries(reqs)
  BY <1>1, <1>3, CarriesStays
<1> QED
  BY <1>1, <1>3, <1>4, <1>5, PageKeepsInv DEF PageStep

LEMMA PayKeepsInv ==
  ASSUME TillInv, handleCheckout
  PROVE  TillInv'
<1>0. UNCHANGED <<backend, page, local, late, sale>>
  BY DEF handleCheckout
<1>1. CASE tableId # NoTable
  <2> DEFINE x == [Blank EXCEPT !.kind = "bill", !.heard = TRUE, !.order = View.order, !.key = key]
  <2>1. Send(reqs, x)
    BY <1>1 DEF handleCheckout
  <2>2. 1 \in 1..MaxInFlight /\ TillShape /\ {} \in SUBSET Products
    BY <2>1, RoomForOne DEF TillInv, TillShape
  <2>3. SentNow(x)
    BY <1>1, <2>2, SentToOrder
  <2> HIDE DEF x
  <2> QED
    BY <1>0, <2>1, <2>3, OnlySends
<1>2. CASE tableId = NoTable
  <2> DEFINE x == [Blank EXCEPT !.kind = "checkout", !.heard = TRUE, !.items = local,
                                !.key = key, !.held = resumed]
  <2>1. Send(reqs, x)
    BY <1>2 DEF handleCheckout
  <2>2. 1 \in 1..MaxInFlight /\ TillShape /\ resumed \in 0..Len(held)
    BY <2>1, RoomForOne DEF TillInv, TillShape, TillTypeOK
  <2>3. SentNow(x)
    BY <2>2, SentFromCounter
  <2> HIDE DEF x
  <2> QED
    BY <1>0, <2>1, <2>3, OnlySends
<1> QED
  BY <1>1, <1>2

LEMMA CloseKeepsInv ==
  ASSUME TillInv, closeReceipt
  PROVE  TillInv'
BY AllLeft, ResetKeepsInv DEF closeReceipt

-----------------------------------------------------------------------------
(***************************************************************************)
(* The page is left and opened again, or the tab is loaded again.          *)
(***************************************************************************)
LEMMA LeaveKeepsInv ==
  ASSUME TillInv, Leave
  PROVE  TillInv'
<1> DEFINE f == [r \in reqs |-> [r EXCEPT !.live = FALSE]]
           rs == {f[r] : r \in reqs}
<1>1. /\ key < MaxKeys /\ tableId' = NoTable /\ pendingTableChange' = NoTable
      /\ resumed' = 0 /\ completed' = FALSE /\ key' = key + 1 /\ visit' = visit + 1
      /\ reqs' = rs /\ calls' = calls
      /\ UNCHANGED <<backend, seen, local, late, sale>>
  BY DEF Leave, Mount, Requests
<1>2. ASSUME NEW r \in reqs
      PROVE  /\ f[r] \in Request /\ ComesFrom(f[r], r) /\ f[r].status = r.status
             /\ f[r].status # "sent" => f[r].heard
             /\ f[r].kind = r.kind /\ f[r].heard = r.heard /\ f[r].visit = r.visit
  BY DEF Request, ComesFrom, TillInv, TillShape, TillTypeOK, RequestOK
<1>3. f \in [reqs -> Request]
  BY <1>2
<1>4. ASSUME NEW q \in rs, NEW s \in rs, Asked(q, "transfer"), Asked(s, "transfer")
      PROVE  q = s
  <2>1. PICK a \in reqs, b \in reqs : q = f[a] /\ s = f[b]
    OBVIOUS
  <2>2. Asked(a, "transfer") /\ Asked(b, "transfer")
    BY <1>2, <1>4, <2>1 DEF Asked
  <2> QED
    BY <2>1, <2>2 DEF TillInv, CarryInv
<1>5. Left(rs)
  <2>1. f \in Surjection(reqs, rs)
    BY <1>3 DEF Surjection
  <2>2. IsFiniteSet(rs) /\ Cardinality(rs) <= Cardinality(reqs)
    BY <2>1, FS_Surjection DEF TillInv, TillShape
  <2> QED
    BY <1>2, <1>4, <2>2 DEF Left
<1> HIDE DEF rs
<1>6. NetStep(rs)
  BY <1>1 DEF NetStep
<1>7. visit' # visit
  BY <1>1 DEF TillInv, TillShape, TillTypeOK
<1>8. PageTyped' /\ Clock /\ Carries(rs)
  <2>1. 0 \in 0..Len(held)
    BY ViewType DEF TillInv
  <2> QED
    BY <1>1, <1>7, <2>1, TypedNow DEF PageTyped, Clock, Carries, backend
<1> QED
  BY <1>1, <1>5, <1>6, <1>8, PageKeepsInv DEF PageStep

LEMMA ReloadKeepsInv ==
  ASSUME TillInv, Reload
  PROVE  TillInv'
<1> DEFINE S == {q \in reqs : q.status = "sent"}
           f == [r \in S |-> [r EXCEPT !.heard = FALSE]]
           rs == {f[r] : r \in S}
<1>1. /\ key < MaxKeys /\ tableId' = NoTable /\ pendingTableChange' = NoTable
      /\ resumed' = 0 /\ completed' = FALSE /\ key' = key + 1 /\ visit' = visit + 1
      /\ seen' = [t \in Tables |-> NoOrder] /\ local' = {} /\ late' = {} /\ sale' = sale + 1
      /\ reqs' = rs /\ calls' = calls
      /\ UNCHANGED backend
  BY DEF Reload, Mount, Requests
<1>2. ASSUME NEW r \in S
      PROVE  /\ f[r] \in Request /\ ComesFrom(f[r], r) /\ f[r].status = r.status
             /\ f[r].status = "sent" /\ ~f[r].heard
  <2>1. r \in Request /\ r.status = "sent" /\ f[r] = [r EXCEPT !.heard = FALSE]
    BY DEF TillInv, TillShape, TillTypeOK
  <2> HIDE DEF f
  <2> QED
    BY <2>1 DEF Request, ComesFrom
<1>3. f \in [S -> Request] /\ S \in SUBSET reqs
  BY <1>2
<1> HIDE DEF f, S
<1>4. Left({f[r] : r \in S})
  BY <1>2, <1>3, ChangedLeft DEF Asked
<1>5. Left(rs)
  BY <1>4
<1> HIDE DEF rs
<1>6. NetStep(rs)
  BY <1>1 DEF NetStep
<1>7. visit' # visit
  BY <1>1 DEF TillInv, TillShape, TillTypeOK
<1>8. PageTyped' /\ Clock /\ Carries(rs)
  <2>1. 0 \in 0..Len(held) /\ Len(orders) \in Nat
    BY ViewType DEF TillInv
  <2>2. NoOrder \in [order : 0..Len(orders), items : SUBSET Products]
    BY <2>1 DEF NoOrder
  <2> QED
    BY <1>1, <1>7, <2>1, <2>2 DEF PageTyped, Clock, Carries, backend
<1> QED
  BY <1>1, <1>5, <1>6, <1>8, PageKeepsInv DEF PageStep

-----------------------------------------------------------------------------
(***************************************************************************)
(* Answers.  A step that only takes some requests out of flight.           *)
(***************************************************************************)
LEMMA LostKeepsInv ==
  ASSUME TillInv, NEW r \in reqs, Lost(r)
  PROVE  TillInv'
<1> DEFINE f == [q \in reqs |-> IF q = r THEN [r EXCEPT !.heard = FALSE] ELSE q]
           S == IF r.status = "sent" THEN reqs ELSE reqs \ {r}
           g == [q \in S |-> f[q]]
           rs == {g[q] : q \in S}
<1>1. /\ reqs' = (reqs \ {r}) \union
                   (IF r.status = "sent" THEN {[r EXCEPT !.heard = FALSE]} ELSE {})
      /\ calls' = calls /\ UNCHANGED <<backend, page, local, late, sale>>
  BY DEF Lost, Requests
<1>2. reqs' = rs
  <2>1. CASE r.status = "sent"
    BY <1>1, <2>1
  <2>2. CASE r.status # "sent"
    BY <1>1, <2>2
  <2> QED
    BY <2>1, <2>2
<1>3. ASSUME NEW q \in reqs
      PROVE  /\ f[q] \in Request /\ ComesFrom(f[q], q) /\ f[q].status = q.status
             /\ Asked(f[q], "transfer") => f[q] = q
  <2>1. q \in Request
    BY DEF TillInv, TillShape, TillTypeOK
  <2>2. CASE q = r
    <3> DEFINE x == [r EXCEPT !.heard = FALSE]
    <3>1. x \in Request /\ ComesFrom(x, r) /\ x.status = r.status /\ x.heard = FALSE
      BY <2>1, <2>2 DEF Request, ComesFrom
    <3>2. f[q] = x
      BY <2>2
    <3> HIDE DEF f, x
    <3> QED
      BY <2>2, <3>1, <3>2 DEF Asked
  <2>3. CASE q # r
    BY <2>1, <2>3 DEF ComesFrom
  <2> QED
    BY <2>2, <2>3
<1>4. S \in SUBSET reqs
  OBVIOUS
<1>5. \A q \in S : f[q].status # "sent" => f[q].heard
  <2> SUFFICES ASSUME NEW q \in S, f[q].status # "sent" PROVE f[q].heard
    OBVIOUS
  <2>1. q \in reqs /\ q.status # "sent" /\ q.heard
    BY <1>3 DEF TillInv, TillShape, RequestOK
  <2>2. q # r
    BY <2>1
  <2> QED
    BY <2>1, <2>2
<1>6. g \in [S -> Request] /\ \A q \in S : g[q] = f[q]
  BY <1>3, <1>4
<1> HIDE DEF f, g, S
<1>7. Left({g[q] : q \in S})
  BY <1>3, <1>4, <1>5, <1>6, ChangedLeft
<1>8. Left(rs)
  BY <1>7
<1> HIDE DEF rs
<1>9. UNCHANGED <<tableId, pendingTableChange, seen, resumed, completed, key, visit>>
  BY <1>1 DEF page
<1>10. NetStep(rs) /\ Clock /\ Carries(rs) /\ PageTyped'
  BY <1>1, <1>2, <1>8, <1>9, CarriesStays, TypedNow
     DEF NetStep, Clock, PageTyped, backend
<1> QED
  BY <1>1, <1>8, <1>10, PageKeepsInv DEF PageStep

LEMMA CheckedOutKeepsInv ==
  ASSUME TillInv, NEW r \in reqs, CheckedOut(r)
  PROVE  TillInv'
<1> DEFINE rs == reqs \ {r}
<1>0. /\ r.kind = "checkout" /\ r.status = "ok" /\ completed' = IF Here(r) THEN TRUE ELSE completed
      /\ UNCHANGED <<backend, tableId, pendingTableChange, seen, resumed, key, visit,
                     local, late, sale>>
  BY DEF CheckedOut
<1>1. Left(rs)
  BY SomeLeft
<1>2. NetStep(rs)
  <2>1. CASE r.held = 0
    BY <2>1 DEF CheckedOut, Requests, NetStep
  <2>2. CASE r.held # 0
    <3>1. Send(rs, [Blank EXCEPT !.kind = "delete", !.held = r.held, !.key = r.key])
      BY <2>2 DEF CheckedOut
    <3>2. 1 \in 1..MaxInFlight
      BY <1>1, <3>1, RoomForOne DEF Left
    <3>3. r.held \in 1..Len(held) /\ r.key \in 0..MaxKeys
      <4>1. r \in Request /\ r.held <= Len(held) /\ Len(held) \in Nat /\ MaxHeld \in Nat
        BY ViewType DEF TillInv, TillShape, TillTypeOK, RequestOK
      <4>2. r.held \in 0..MaxHeld /\ r.key \in 0..MaxKeys
        BY <4>1 DEF Request
      <4> QED
        BY <2>2, <4>1, <4>2
    <3>4. Charged(r.key) /\ TillShape
      BY <1>0 DEF TillInv, HeldInv
    <3>5. SentNow([Blank EXCEPT !.kind = "delete", !.held = r.held, !.key = r.key])
      BY <3>2, <3>3, <3>4, SentDelete
    <3> QED
      BY <1>1, <3>1, <3>5, SendStep
  <2> QED
    BY <2>1, <2>2
<1> HIDE DEF rs
<1>3. PageTyped' /\ Clock
  BY <1>0, TypedNow DEF PageTyped, Clock, backend
<1>4. Carries(rs)
  BY <1>0, <1>1, CarriesStays
<1> QED
  BY <1>0, <1>1, <1>2, <1>3, <1>4, PageKeepsInv DEF PageStep

LEMMA BilledKeepsInv ==
  ASSUME TillInv, NEW r \in reqs, Billed(r) \/ Noticed(r)
  PROVE  TillInv'
<1> DEFINE rs == reqs \ {r}
<1>1. /\ completed' \in {TRUE, completed}
      /\ reqs' = rs /\ calls' = calls
      /\ UNCHANGED <<backend, tableId, pendingTableChange, seen, resumed, key, visit,
                     local, late, sale>>
  BY DEF Billed, Noticed, Requests, page
<1>2. Left(rs)
  BY SomeLeft
<1> HIDE DEF rs
<1>3. NetStep(rs) /\ Clock /\ Carries(rs)
  BY <1>1, <1>2, CarriesStays DEF NetStep, Clock
<1>4. PageTyped'
  BY <1>1, TypedNow DEF PageTyped, backend
<1> QED
  BY <1>1, <1>2, <1>3, <1>4, PageKeepsInv DEF PageStep

LEMMA HeldNowKeepsInv ==
  ASSUME TillInv, NEW r \in reqs, HeldNow(r)
  PROVE  TillInv'
<1> DEFINE rs == reqs \ {r}
<1>1. Left(rs)
  BY SomeLeft
<1>2. CASE Here(r)
  BY <1>1, <1>2, ResetKeepsInv DEF HeldNow
<1>3. CASE ~Here(r)
  <2>1. /\ local' = {} /\ reqs' = rs /\ calls' = calls
        /\ UNCHANGED <<backend, page, sale, late>>
    BY <1>3 DEF HeldNow, Requests
  <2> HIDE DEF rs
  <2>2. UNCHANGED <<tableId, pendingTableChange, seen, resumed, completed, key, visit>>
    BY <2>1 DEF page
  <2>3. NetStep(rs) /\ Clock
    BY <2>1, <2>2 DEF NetStep, Clock
  <2>4. PageTyped'
    BY <2>1, <2>2, TypedNow DEF PageTyped, backend
  <2>5. Carries(rs)
    BY <1>1, <2>1, <2>2, NoTransfer DEF Carries
  <2> QED
    BY <1>1, <2>1, <2>3, <2>4, <2>5, PageKeepsInv DEF PageStep
<1> QED
  BY <1>2, <1>3

\* The cart is on the table's order, and no longer at the counter.
LEMMA MovedKeepsInv ==
  ASSUME TillInv, NEW r \in reqs, CartMoved(r)
  PROVE  TillInv'
<1> DEFINE rs == reqs \ {r}
<1>1. Left(rs)
  BY SomeLeft
<1>2. NetStep(rs) /\ local' = {}
  <2>1. CASE r.live
    BY <1>1, <2>1, ClearStep DEF CartMoved
  <2>2. CASE ~r.live
    BY <2>2 DEF CartMoved, Requests, NetStep
  <2> QED
    BY <2>1, <2>2
<1> HIDE DEF rs
<1>3. /\ tableId' = IF Here(r) THEN r.table ELSE tableId
      /\ UNCHANGED <<backend, pendingTableChange, seen, resumed, completed, key, visit, late, sale>>
  BY DEF CartMoved
<1>4. r.table \in Tables \union {NoTable}
  BY DEF TillInv, TillShape, TillTypeOK, Request
<1>5. PageTyped' /\ Clock
  BY <1>2, <1>3, <1>4, TypedNow DEF PageTyped, Clock, backend
<1>6. Carries(rs)
  BY <1>1, <1>2, <1>3, NoTransfer DEF Carries
<1> QED
  BY <1>1, <1>2, <1>3, <1>5, <1>6, PageKeepsInv DEF PageStep

\* The transfer that was waited for is answered; there is no other.
LEMMA OrderMovedKeepsInv ==
  ASSUME TillInv, NEW r \in reqs, OrderMoved(r)
  PROVE  TillInv'
<1> DEFINE rs == reqs \ {r}
<1>1. Left(rs)
  BY SomeLeft
<1>2. /\ r.kind = "transfer" /\ r.status = "ok" /\ reqs' = rs /\ calls' = calls
      /\ IF Here(r) THEN tableId' = r.table /\ pendingTableChange' = NoTable
         ELSE UNCHANGED <<tableId, pendingTableChange>>
      /\ UNCHANGED <<backend, seen, resumed, completed, key, visit, local, late, sale>>
  BY DEF OrderMoved, Requests
<1>3. r.heard /\ r.table \in Tables \union {NoTable}
  BY <1>2 DEF TillInv, TillShape, TillTypeOK, RequestOK, Request
<1>4. CASE Here(r)
  <2>1. Asked(r, "transfer")
    BY <1>2, <1>3, <1>4 DEF Here, Asked
  <2>2. local = {} /\ ~\E q \in rs : Asked(q, "transfer")
    BY <2>1 DEF TillInv, CarryInv
  <2> HIDE DEF rs
  <2>3. PageTyped' /\ Clock
    BY <1>2, <1>3, <1>4, TypedNow DEF PageTyped, Clock, backend
  <2>4. Carries(rs) /\ NetStep(rs)
    BY <1>2, <2>2 DEF Carries, NetStep
  <2> QED
    BY <1>1, <1>2, <2>3, <2>4, PageKeepsInv DEF PageStep
<1>5. CASE ~Here(r)
  <2> HIDE DEF rs
  <2>1. PageTyped' /\ Clock
    BY <1>2, <1>5, TypedNow DEF PageTyped, Clock, backend
  <2>2. Carries(rs) /\ NetStep(rs)
    BY <1>1, <1>2, <1>5, CarriesStays DEF NetStep
  <2> QED
    BY <1>1, <1>2, <2>1, <2>2, PageKeepsInv DEF PageStep
<1> QED
  BY <1>4, <1>5

-----------------------------------------------------------------------------
(***************************************************************************)
(* Steps of the backend.  Orders, held bills and invoices are only added   *)
(* to; an order remembers its lines, an invoice is for a key that had      *)
(* none; and what an answer says is so.                                    *)
(***************************************************************************)
RowsTyped ==
  /\ orders \in Seq(Order) /\ Len(orders) <= MaxOrders
  /\ invoices \in Seq(Invoice)
  /\ held \in Seq(HeldBill) /\ Len(held) <= MaxHeld
OrdersGrow ==
  /\ Len(orders) <= Len(orders')
  /\ \A o \in 1..Len(orders) : orders[o].was \subseteq orders'[o].was
NewInvoice(x) ==
  \/ x.key = 0 /\ x.sale = 0
  \/ /\ \E r \in reqs : r.kind \in {"checkout", "bill"} /\ SameStamp(x, r)
     /\ ~Charged(x.key)
InvoicesGrow ==
  UNCHANGED invoices \/ \E x : NewInvoice(x) /\ invoices' = Append(invoices, x)
HeldGrow ==
  /\ Len(held) <= Len(held')
  /\ \A h \in 1..Len(held') :
       \/ held'[h].gone \in {ByHand, Kept} \/ Charged(held'[h].gone)
       \/ h \in 1..Len(held) /\ held'[h].gone = held[h].gone
Answered(q, r) ==
  /\ q \in Request /\ ComesFrom(q, r) /\ (q.status # "sent" => q.heard)
  /\ q.kind = "checkout" /\ q.status = "ok" => Charged(q.key)'
  /\ q.kind = "move" /\ q.status = "ok" => \A p \in q.items : WasOnTable(p, q.table)'
AnswerStep(r) ==
  /\ calls' = calls
  /\ \/ reqs' = reqs \ {r}
     \/ \E q : Answered(q, r) /\ reqs' = (reqs \ {r}) \union {q}
BackendStep ==
  /\ UNCHANGED <<page, local, late, sale>>
  /\ RowsTyped' /\ OrdersGrow /\ InvoicesGrow /\ HeldGrow
  /\ UNCHANGED <<reqs, calls>> \/ \E r \in reqs : AnswerStep(r)

LEMMA RowsNow == TillInv => RowsTyped
BY DEF TillInv, TillShape, TillTypeOK, RowsTyped

(***************************************************************************)
(* Nothing that is so ceases to be.                                        *)
(***************************************************************************)
LEMMA ChargedStays ==
  ASSUME RowsTyped, InvoicesGrow, NEW k, Charged(k)
  PROVE  Charged(k)'
<1>1. invoices \in Seq(Invoice)
  BY DEF RowsTyped
<1>2. PICK i \in 1..Len(invoices) : invoices[i].key = k
  BY DEF Charged
<1>3. CASE UNCHANGED invoices
  BY <1>2, <1>3 DEF Charged
<1>4. CASE \E x : invoices' = Append(invoices, x)
  <2>1. PICK x : invoices' = Append(invoices, x)
    BY <1>4
  <2>2. Len(invoices') = Len(invoices) + 1 /\ invoices'[i] = invoices[i] /\ Len(invoices) \in Nat
    BY <1>1, <1>2, <2>1
  <2> QED
    BY <1>2, <2>2 DEF Charged
<1> QED
  BY <1>3, <1>4 DEF InvoicesGrow

LEMMA OnTableStays ==
  ASSUME RowsTyped, RowsTyped', OrdersGrow, NEW p, NEW t, WasOnTable(p, t)
  PROVE  WasOnTable(p, t)'
<1>1. PICK o \in 1..Len(orders) : <<p, t>> \in orders[o].was
  BY DEF WasOnTable
<1>2. o \in 1..Len(orders') /\ <<p, t>> \in orders'[o].was
  BY <1>1 DEF OrdersGrow, RowsTyped
<1> QED
  BY <1>2 DEF WasOnTable

(***************************************************************************)
(* The requests after a step of the backend.                               *)
(***************************************************************************)
LEMMA InFlightServed ==
  ASSUME TillInv, BackendStep
  PROVE  /\ reqs' \subseteq Request /\ IsFiniteSet(reqs') /\ Cardinality(reqs') <= MaxInFlight
         /\ \A q \in reqs' : q \in reqs \/ \E r \in reqs : Answered(q, r)
         /\ \A q, s \in reqs' : Asked(q, "transfer") /\ Asked(s, "transfer") => q = s
         /\ calls' = calls
<1>0. /\ reqs \subseteq Request /\ IsFiniteSet(reqs) /\ Cardinality(reqs) <= MaxInFlight
      /\ \A q, s \in reqs : Asked(q, "transfer") /\ Asked(s, "transfer") => q = s
  BY DEF TillInv, TillShape, TillTypeOK, CarryInv
<1>1. CASE UNCHANGED <<reqs, calls>>
  BY <1>0, <1>1
<1>2. ASSUME NEW r \in reqs, AnswerStep(r)
      PROVE  /\ reqs' \subseteq Request /\ IsFiniteSet(reqs') /\ Cardinality(reqs') <= MaxInFlight
             /\ \A q \in reqs' : q \in reqs \/ \E s \in reqs : Answered(q, s)
             /\ \A q, s \in reqs' : Asked(q, "transfer") /\ Asked(s, "transfer") => q = s
             /\ calls' = calls
  <2>1. /\ IsFiniteSet(reqs \ {r}) /\ Cardinality(reqs \ {r}) = Cardinality(reqs) - 1
        /\ Cardinality(reqs) \in Nat /\ MaxInFlight \in Nat
    BY <1>0, FS_RemoveElement, FS_CardinalityType, TillAssumption DEF TillAssumption
  <2>2. CASE reqs' = reqs \ {r}
    BY <1>0, <1>2, <2>1, <2>2 DEF AnswerStep
  <2>3. CASE reqs' # reqs \ {r}
    <3>1. PICK q : Answered(q, r) /\ reqs' = (reqs \ {r}) \union {q}
      BY <1>2, <2>3 DEF AnswerStep
    <3>2. /\ IsFiniteSet(reqs')
          /\ Cardinality(reqs') = Cardinality(reqs \ {r})
             \/ Cardinality(reqs') = Cardinality(reqs \ {r}) + 1
      BY <2>1, <3>1, FS_AddElement
    <3>3. Cardinality(reqs') <= MaxInFlight
      BY <1>0, <2>1, <3>2
    <3>4. Asked(q, "transfer") => Asked(r, "transfer")
      BY <3>1 DEF Answered, ComesFrom, Asked
    <3>5. \A a, b \in reqs' : Asked(a, "transfer") /\ Asked(b, "transfer") => a = b
      BY <1>0, <3>1, <3>4
    <3> QED
      BY <1>0, <1>2, <3>1, <3>2, <3>3, <3>5 DEF AnswerStep, Answered
  <2> QED
    BY <2>2, <2>3
<1> QED
  BY <1>1, <1>2 DEF BackendStep

LEMMA BackendKeepsInv ==
  ASSUME TillInv, BackendStep
  PROVE  TillInv'
<1>1. /\ UNCHANGED <<tableId, pendingTableChange, seen, resumed, completed, key, visit>>
      /\ UNCHANGED <<local, late, sale>>
      /\ RowsTyped /\ RowsTyped' /\ OrdersGrow /\ InvoicesGrow /\ HeldGrow
  BY RowsNow DEF BackendStep, page
<1>2. /\ reqs' \subseteq Request /\ IsFiniteSet(reqs') /\ Cardinality(reqs') <= MaxInFlight
      /\ \A q \in reqs' : q \in reqs \/ \E r \in reqs : Answered(q, r)
      /\ \A q, s \in reqs' : Asked(q, "transfer") /\ Asked(s, "transfer") => q = s
      /\ calls' = calls
  BY InFlightServed
<1>3. /\ Len(orders) \in Nat /\ Len(orders') \in Nat /\ Len(orders) <= Len(orders')
      /\ Len(held) \in Nat /\ Len(held') \in Nat /\ Len(held) <= Len(held')
  BY <1>1 DEF RowsTyped, OrdersGrow, HeldGrow
<1>4. TillShape'
  <2>1. /\ seen \in [Tables -> [order : 0..Len(orders), items : SUBSET Products]]
        /\ resumed \in 0..Len(held)
    BY DEF TillInv, TillShape, TillTypeOK
  <2>2. seen \in [Tables -> [order : 0..Len(orders'), items : SUBSET Products]]
        /\ resumed \in 0..Len(held')
    <3>1. 0..Len(orders) \subseteq 0..Len(orders') /\ 0..Len(held) \subseteq 0..Len(held')
      BY <1>3
    <3>2. [order : 0..Len(orders), items : SUBSET Products]
            \subseteq [order : 0..Len(orders'), items : SUBSET Products]
      BY <3>1
    <3> QED
      BY <2>1, <3>1, <3>2
  <2>3. TillTypeOK'
    BY <1>1, <1>2, <2>2 DEF RowsTyped, TillInv, TillShape, TillTypeOK
  <2>4. ASSUME NEW q \in reqs'
        PROVE  RequestOK(q)'
    <3>1. \A r \in reqs : RequestOK(r) /\ r.order \in Nat /\ r.held \in Nat
      BY TillAssumption DEF TillAssumption, TillInv, TillShape, TillTypeOK, Request
    <3>2. CASE q \in reqs
      BY <1>1, <1>3, <3>1, <3>2 DEF RequestOK
    <3>3. CASE \E r \in reqs : Answered(q, r)
      BY <1>1, <1>3, <3>1, <3>3 DEF RequestOK, Answered, ComesFrom
    <3> QED
      BY <1>2, <3>2, <3>3
  <2> QED
    BY <1>1, <1>2, <2>3, <2>4 DEF TillInv, TillShape
<1>5. OneKey'
  <2>1. Clock
    BY <1>1 DEF Clock
  <2>2. invoices \in Seq(Invoice)
    BY <1>1 DEF RowsTyped
  <2>3. ASSUME NEW x \in Stamps'
        PROVE  \E y \in Stamps : SameStamp(x, y)
    <3>1. CASE x \in reqs' /\ x.kind \in {"checkout", "bill"}
      <4>1. CASE x \in reqs
        BY <3>1, <4>1 DEF Stamps, SameStamp
      <4>2. CASE \E r \in reqs : Answered(x, r)
        BY <3>1, <4>2 DEF Stamps, SameStamp, Answered, ComesFrom
      <4> QED
        BY <1>2, <3>1, <4>1, <4>2
    <3>2. CASE \E i \in 1..Len(invoices') : x = invoices'[i] /\ x.sale # 0
      <4>1. PICK i \in 1..Len(invoices') : x = invoices'[i] /\ x.sale # 0
        BY <3>2
      <4>2. CASE i \in 1..Len(invoices) /\ invoices'[i] = invoices[i]
        BY <4>1, <4>2 DEF Stamps, SameStamp
      <4>3. CASE ~(i \in 1..Len(invoices) /\ invoices'[i] = invoices[i])
        <5>1. PICK z : NewInvoice(z) /\ invoices' = Append(invoices, z)
          BY <1>1, <4>1, <4>3 DEF InvoicesGrow
        <5>2. x = z
          BY <2>2, <4>1, <4>3, <5>1
        <5> QED
          BY <4>1, <5>1, <5>2 DEF NewInvoice, Stamps
      <4> QED
        BY <4>2, <4>3
    <3> QED
      BY <3>1, <3>2 DEF Stamps
  <2>4. /\ \A x \in Stamps' : Stamped(x)'
        /\ \A x, y \in Stamps' : SameSale(x, y)
    BY <2>1, <2>3, KeysStay
  <2>5. ASSUME NEW i \in 1..Len(invoices'), NEW j \in 1..Len(invoices'),
               invoices'[i].key # 0, invoices'[i].key = invoices'[j].key
        PROVE  i = j
    <3>1. \A a, b \in 1..Len(invoices) :
            invoices[a].key # 0 /\ invoices[a].key = invoices[b].key => a = b
      BY DEF TillInv, OneKey
    <3>2. CASE UNCHANGED invoices
      BY <2>5, <3>1, <3>2
    <3>3. CASE \E x : NewInvoice(x) /\ invoices' = Append(invoices, x)
      <4>1. PICK x : NewInvoice(x) /\ invoices' = Append(invoices, x)
        BY <3>3
      <4>2. x.key # 0 => ~Charged(x.key)
        BY <4>1 DEF NewInvoice
      <4>3. /\ Len(invoices') = Len(invoices) + 1 /\ Len(invoices) \in Nat
            /\ \A a \in 1..Len(invoices) : invoices'[a] = invoices[a]
            /\ invoices'[Len(invoices) + 1] = x
        BY <2>2, <4>1
      <4>4. \A a \in 1..Len(invoices) : x.key # 0 => invoices[a].key # x.key
        BY <4>2 DEF Charged
      <4> QED
        BY <2>5, <3>1, <4>3, <4>4
    <3> QED
      BY <1>1, <3>2, <3>3 DEF InvoicesGrow
  <2> QED
    BY <2>4, <2>5 DEF OneKey, SameSale
<1>6. HeldInv'
  <2>1. \A k : Charged(k) => Charged(k)'
    BY <1>1, ChargedStays
  <2>2. ASSUME NEW q \in reqs'
        PROVE  /\ q.kind = "delete" /\ q.key # 0 => Charged(q.key)'
               /\ q.kind = "checkout" /\ q.status = "ok" => Charged(q.key)'
    <3>1. CASE q \in reqs
      BY <2>1, <3>1 DEF TillInv, HeldInv
    <3>2. CASE \E r \in reqs : Answered(q, r)
      BY <2>1, <3>2 DEF TillInv, HeldInv, Answered, ComesFrom
    <3> QED
      BY <1>2, <3>1, <3>2
  <2>3. HeldBillsOutliveFailures'
    <3>1. ASSUME NEW h \in 1..Len(held'), held'[h].gone \notin {ByHand, Kept}
          PROVE  \E i \in 1..Len(invoices') : invoices'[i].key = held'[h].gone
      <4>0. \A k : Charged(k) => \E i \in 1..Len(invoices') : invoices'[i].key = k
        BY <2>1 DEF Charged
      <4>1. CASE Charged(held'[h].gone)
        BY <4>0, <4>1
      <4>2. CASE h \in 1..Len(held) /\ held'[h].gone = held[h].gone
        <5>1. Charged(held[h].gone)
          BY <3>1, <4>2 DEF TillInv, HeldInv, HeldBillsOutliveFailures, Charged
        <5> QED
          BY <4>0, <4>2, <5>1
      <4> QED
        BY <1>1, <3>1, <4>1, <4>2 DEF HeldGrow
    <3> QED
      BY <3>1 DEF HeldBillsOutliveFailures
  <2> QED
    BY <2>2, <2>3 DEF HeldInv
<1>7. CarryInv'
  <2>1. \A p, t : WasOnTable(p, t) => WasOnTable(p, t)'
    BY <1>1, OnTableStays
  <2>2. ASSUME NEW q \in reqs'
        PROVE  /\ Asked(q, "move") => local \ late \subseteq q.items
               /\ q.kind = "move" /\ q.status = "ok" =>
                    \A p \in q.items : WasOnTable(p, q.table)'
               /\ Asked(q, "transfer") => pendingTableChange # NoTable /\ local = {}
    <3>1. CASE q \in reqs
      BY <2>1, <3>1 DEF TillInv, CarryInv
    <3>2. CASE \E r \in reqs : Answered(q, r)
      <4>1. PICK r \in reqs : Answered(q, r)
        BY <3>2
      <4>2. /\ Asked(q, "move") => Asked(r, "move") /\ q.items = r.items
            /\ Asked(q, "transfer") => Asked(r, "transfer")
        BY <4>1 DEF Answered, ComesFrom, Asked
      <4> QED
        BY <4>1, <4>2 DEF TillInv, CarryInv, Answered
    <3> QED
      BY <1>2, <3>1, <3>2
  <2>3. \A q : \A k : Asked(q, k)' = Asked(q, k)
    BY <1>1 DEF Asked
  <2>4. tableId # NoTable => local = {}
    BY DEF TillInv, CarryInv
  <2> QED
    BY <1>1, <1>2, <2>2, <2>3, <2>4 DEF CarryInv
<1> QED
  BY <1>4, <1>5, <1>6, <1>7 DEF TillInv

(***************************************************************************)
(* The parts of a step of the backend.                                     *)
(***************************************************************************)
LEMMA ReplyStep ==
  ASSUME TillInv, NEW r \in reqs, NEW answer \in {"ok", "refused"}, Reply(r, answer),
         answer = "ok" /\ r.kind = "checkout" => Charged(r.key)',
         answer = "ok" /\ r.kind = "move" => \A p \in r.items : WasOnTable(p, r.table)'
  PROVE  AnswerStep(r)
<1>1. /\ reqs' = (reqs \ {r}) \union (IF r.heard THEN {[r EXCEPT !.status = answer]} ELSE {})
      /\ calls' = calls
  BY DEF Reply, Requests
<1>2. CASE ~r.heard
  BY <1>1, <1>2 DEF AnswerStep
<1>3. CASE r.heard
  <2> DEFINE q == [r EXCEPT !.status = answer]
  <2>1. r \in Request
    BY DEF TillInv, TillShape, TillTypeOK
  <2>2. q \in Request /\ ComesFrom(q, r) /\ q.status = answer /\ q.heard = r.heard
        /\ q.items = r.items
    BY <2>1 DEF Request, ComesFrom
  <2> HIDE DEF q
  <2>3. Answered(q, r)
    BY <1>3, <2>2 DEF Answered, ComesFrom
  <2>4. reqs' = (reqs \ {r}) \union {q}
    BY <1>1, <1>3 DEF q
  <2> QED
    BY <1>1, <2>3, <2>4 DEF AnswerStep
<1> QED
  BY <1>2, <1>3

LEMMA NewOrder ==
  ASSUME RowsTyped, NEW row \in Order, Len(orders) < MaxOrders, orders' = Append(orders, row)
  PROVE  /\ orders' \in Seq(Order) /\ Len(orders') <= MaxOrders /\ OrdersGrow
         /\ Len(orders') \in 1..Len(orders') /\ orders'[Len(orders')] = row
<1>1. orders \in Seq(Order) /\ MaxOrders \in Nat /\ Len(orders) \in Nat
  BY TillAssumption DEF TillAssumption, RowsTyped
<1>2. /\ orders' \in Seq(Order) /\ Len(orders') = Len(orders) + 1
      /\ \A o \in 1..Len(orders) : orders'[o] = orders[o]
      /\ orders'[Len(orders) + 1] = row
  BY <1>1
<1> QED
  BY <1>1, <1>2 DEF OrdersGrow

LEMMA ChangedOrder ==
  ASSUME RowsTyped, NEW o \in 1..Len(orders), NEW row \in Order,
         orders' = [orders EXCEPT ![o] = row], orders[o].was \subseteq row.was
  PROVE  /\ orders' \in Seq(Order) /\ Len(orders') <= MaxOrders /\ OrdersGrow
         /\ o \in 1..Len(orders') /\ orders'[o] = row
<1>1. orders \in Seq(Order) /\ Len(orders) <= MaxOrders
  BY DEF RowsTyped
<1>2. /\ orders' \in Seq(Order) /\ Len(orders') = Len(orders) /\ Len(orders) \in Nat
      /\ \A x \in 1..Len(orders) : orders'[x] = IF x = o THEN row ELSE orders[x]
  BY <1>1
<1> QED
  BY <1>1, <1>2 DEF OrdersGrow

LEMMA SameOrders ==
  ASSUME RowsTyped, UNCHANGED orders
  PROVE  orders' \in Seq(Order) /\ Len(orders') <= MaxOrders /\ OrdersGrow
BY DEF RowsTyped, OrdersGrow

LEMMA SameHeld ==
  ASSUME RowsTyped, UNCHANGED held
  PROVE  held' \in Seq(HeldBill) /\ Len(held') <= MaxHeld /\ HeldGrow
BY DEF RowsTyped, HeldGrow

LEMMA SameInvoices ==
  ASSUME RowsTyped, UNCHANGED invoices
  PROVE  invoices' \in Seq(Invoice) /\ InvoicesGrow
BY DEF RowsTyped, InvoicesGrow

LEMMA Invoiced ==
  ASSUME TillInv, NEW r \in reqs, r.kind \in {"checkout", "bill"}, NEW items \in SUBSET Products,
         create_invoice(r, items)
  PROVE  invoices' \in Seq(Invoice) /\ InvoicesGrow /\ Charged(r.key)'
<1> DEFINE row == [key |-> r.key, sale |-> r.sale, visit |-> r.visit, items |-> items]
<1>1. RowsTyped /\ invoices \in Seq(Invoice)
  BY RowsNow DEF RowsTyped
<1>2. r.key # 0
  BY DEF TillInv, OneKey, Stamps, Stamped
<1>3. CASE Charged(r.key)
  <2>1. UNCHANGED invoices
    BY <1>2, <1>3 DEF create_invoice, Charged
  <2> QED
    BY <1>1, <1>3, <2>1, SameInvoices DEF Charged
<1>4. CASE ~Charged(r.key)
  <2>1. invoices' = Append(invoices, row)
    BY <1>4 DEF create_invoice, Charged
  <2>2. row \in Invoice
    BY DEF TillInv, TillShape, TillTypeOK, Request, Invoice
  <2>3. row.key = r.key /\ NewInvoice(row)
    BY <1>4 DEF NewInvoice, SameStamp
  <2> HIDE DEF row
  <2>4. /\ invoices' \in Seq(Invoice) /\ Len(invoices') \in 1..Len(invoices')
        /\ invoices'[Len(invoices')] = row
    BY <1>1, <2>1, <2>2
  <2>5. Charged(r.key)'
    BY <2>3, <2>4 DEF Charged
  <2> QED
    BY <2>1, <2>3, <2>4, <2>5 DEF InvoicesGrow
<1> QED
  BY <1>3, <1>4

LEMMA OrderNamed ==
  ASSUME TillInv, NEW r \in reqs, IsOpen(r.order)
  PROVE  r.order \in 1..Len(orders) /\ orders[r.order] \in Order
<1>1. /\ r.order \in Nat /\ r.order # 0 /\ r.order <= Len(orders) /\ orders \in Seq(Order)
  BY TillAssumption
     DEF TillAssumption, IsOpen, TillInv, TillShape, TillTypeOK, Request, RequestOK
<1> QED
  BY <1>1

-----------------------------------------------------------------------------
(***************************************************************************)
(* Every handler is such a step.                                           *)
(***************************************************************************)
LEMMA ServeCheckoutStep ==
  ASSUME TillInv, NEW r \in reqs, ServeCheckout(r), UNCHANGED <<page, local, late, sale>>
  PROVE  BackendStep
<1>1. RowsTyped /\ r.kind = "checkout" /\ UNCHANGED <<orders, held>>
  BY RowsNow DEF ServeCheckout
<1>2. r.items \in SUBSET Products
  BY DEF TillInv, TillShape, TillTypeOK, Request
<1>3. invoices' \in Seq(Invoice) /\ InvoicesGrow /\ AnswerStep(r)
  <2>1. CASE create_invoice(r, r.items) /\ Reply(r, "ok")
    <3>1. invoices' \in Seq(Invoice) /\ InvoicesGrow /\ Charged(r.key)'
      BY <1>1, <1>2, <2>1, Invoiced
    <3> QED
      BY <1>1, <2>1, <3>1, ReplyStep
  <2>2. CASE UNCHANGED invoices /\ Reply(r, "refused")
    BY <1>1, <2>2, SameInvoices, ReplyStep
  <2> QED
    BY <2>1, <2>2 DEF ServeCheckout
<1> QED
  BY <1>1, <1>3, SameOrders, SameHeld DEF BackendStep, RowsTyped

LEMMA BillStep ==
  ASSUME TillInv, NEW r \in reqs, bill_order(r), UNCHANGED <<page, local, late, sale>>
  PROVE  BackendStep
<1>1. RowsTyped /\ r.kind = "bill" /\ UNCHANGED held
  BY RowsNow DEF bill_order
<1>2. CASE /\ IsOpen(r.order) /\ create_invoice(r, orders[r.order].items)
           /\ orders' = [orders EXCEPT ![r.order].status = "billed"] /\ Reply(r, "ok")
  <2> DEFINE o == r.order
             row == [orders[o] EXCEPT !.status = "billed"]
  <2>1. o \in 1..Len(orders) /\ orders[o] \in Order
    BY <1>2, OrderNamed
  <2>2. orders' = [orders EXCEPT ![o] = row]
    BY <1>2
  <2>3. row \in Order /\ row.was = orders[o].was
    BY <2>1 DEF Order
  <2>4. orders[o].items \in SUBSET Products
    BY <2>1 DEF Order
  <2> HIDE DEF row
  <2>5. orders' \in Seq(Order) /\ Len(orders') <= MaxOrders /\ OrdersGrow
    BY <1>1, <2>1, <2>2, <2>3, ChangedOrder
  <2>6. invoices' \in Seq(Invoice) /\ InvoicesGrow
    BY <1>1, <1>2, <2>4, Invoiced
  <2>7. AnswerStep(r)
    BY <1>1, <1>2, ReplyStep
  <2> QED
    BY <1>1, <2>5, <2>6, <2>7, SameHeld DEF BackendStep, RowsTyped
<1>3. CASE UNCHANGED <<orders, invoices>> /\ Reply(r, "refused")
  <2>1. AnswerStep(r)
    BY <1>3, ReplyStep
  <2> QED
    BY <1>1, <1>3, <2>1, SameOrders, SameHeld, SameInvoices DEF BackendStep, RowsTyped
<1> QED
  BY <1>2, <1>3 DEF bill_order

LEMMA HoldStep ==
  ASSUME TillInv, NEW r \in reqs, create_held_bill(r), UNCHANGED <<page, local, late, sale>>
  PROVE  BackendStep
<1> DEFINE row == [items |-> r.items, gone |-> Kept]
<1>1. /\ RowsTyped /\ r.kind = "hold" /\ Len(held) < MaxHeld
      /\ held' = Append(held, row) /\ Reply(r, "ok") /\ UNCHANGED <<orders, invoices>>
  BY RowsNow DEF create_held_bill
<1>2. row \in HeldBill /\ row.gone = Kept
  <2>1. r.items \in SUBSET Products /\ MaxKeys \in Nat
    BY TillAssumption DEF TillAssumption, TillInv, TillShape, TillTypeOK, Request
  <2> QED
    BY <2>1 DEF HeldBill, Kept
<1> HIDE DEF row
<1>3. /\ held' \in Seq(HeldBill) /\ Len(held') <= MaxHeld /\ HeldGrow
  <2>1. held \in Seq(HeldBill) /\ Len(held) \in Nat /\ MaxHeld \in Nat
    BY <1>1, TillAssumption DEF TillAssumption, RowsTyped
  <2>2. /\ held' \in Seq(HeldBill) /\ Len(held') = Len(held) + 1
        /\ \A h \in 1..Len(held) : held'[h] = held[h]
        /\ held'[Len(held) + 1] = row
    BY <1>1, <1>2, <2>1
  <2> QED
    BY <1>1, <1>2, <2>1, <2>2 DEF HeldGrow
<1>4. AnswerStep(r)
  BY <1>1, ReplyStep
<1> QED
  BY <1>1, <1>3, <1>4, SameOrders, SameInvoices DEF BackendStep, RowsTyped

LEMMA DeleteStep ==
  ASSUME TillInv, NEW r \in reqs, delete_held_bill(r), UNCHANGED <<page, local, late, sale>>
  PROVE  BackendStep
<1> DEFINE h == r.held
           row == [held[h] EXCEPT !.gone = r.key]
<1>1. /\ RowsTyped /\ r.kind = "delete" /\ Reply(r, "ok") /\ UNCHANGED <<orders, invoices>>
      /\ held' = IF held[h].gone = Kept THEN [held EXCEPT ![h].gone = r.key] ELSE held
  BY RowsNow DEF delete_held_bill
<1>2. AnswerStep(r)
  BY <1>1, ReplyStep
<1>3. h \in 1..Len(held) /\ r.key \in 0..MaxKeys /\ MaxKeys \in Nat /\ held \in Seq(HeldBill)
  <2>1. r \in Request /\ h <= Len(held) /\ h # 0 /\ held \in Seq(HeldBill)
    BY <1>1 DEF TillInv, TillShape, TillTypeOK, RequestOK
  <2>2. h \in Nat /\ r.key \in 0..MaxKeys /\ MaxKeys \in Nat
    BY <2>1, TillAssumption DEF TillAssumption, Request
  <2> QED
    BY <2>1, <2>2
<1>4. r.key = ByHand \/ Charged(r.key)
  BY <1>1 DEF TillInv, HeldInv, ByHand
<1>5. held' \in Seq(HeldBill) /\ Len(held') <= MaxHeld /\ HeldGrow
  <2>1. CASE held' = held
    BY <1>1, <2>1, SameHeld
  <2>2. CASE held' # held
    <3>1. held' = [held EXCEPT ![h] = row]
      BY <1>1, <2>2
    <3>2. row \in HeldBill /\ row.gone = r.key
      <4>1. held[h] \in HeldBill /\ r.key \in 0..MaxKeys + 1
        BY <1>3
      <4> QED
        BY <4>1 DEF HeldBill
    <3> HIDE DEF row, h
    <3>3. /\ held' \in Seq(HeldBill) /\ Len(held') = Len(held) /\ Len(held) \in Nat
          /\ \A x \in 1..Len(held) : held'[x] = IF x = h THEN row ELSE held[x]
      BY <1>3, <3>1, <3>2
    <3> QED
      BY <1>1, <1>4, <3>2, <3>3 DEF HeldGrow, RowsTyped
  <2> QED
    BY <2>1, <2>2
<1> QED
  BY <1>1, <1>2, <1>5, SameOrders, SameInvoices DEF BackendStep, RowsTyped

LEMMA OpenStep ==
  ASSUME TillInv, NEW r \in reqs, open_table_order(r), UNCHANGED <<page, local, late, sale>>
  PROVE  BackendStep
<1> DEFINE there == r.items \X {r.table}
<1>1. /\ RowsTyped /\ r.kind \in {"open", "move"} /\ Reply(r, "ok")
      /\ UNCHANGED <<invoices, held>>
  BY RowsNow DEF open_table_order
<1>2. r.items \in SUBSET Products /\ r.table \in Tables
  BY <1>1 DEF TillInv, TillShape, TillTypeOK, RequestOK, Request
<1>3. there \subseteq Products \X Tables /\ \A p \in r.items : <<p, r.table>> \in there
  BY <1>2
<1> HIDE DEF there
<1>4. /\ orders' \in Seq(Order) /\ Len(orders') <= MaxOrders /\ OrdersGrow
      /\ \E o \in 1..Len(orders') : there \subseteq orders'[o].was
  <2>1. CASE Open(r.table) # {}
    <3> DEFINE o == CHOOSE x \in Open(r.table) : TRUE
               its == orders[o].items \union r.items
               was == orders[o].was \union there
               row == [orders[o] EXCEPT !.items = its, !.was = was]
    <3>1. o \in Open(r.table)
      BY <2>1
    <3>2. orders' = [orders EXCEPT ![o].items = its, ![o].was = was]
      BY <2>1 DEF open_table_order, there
    <3> HIDE DEF o
    <3>3. o \in 1..Len(orders) /\ orders[o] \in Order
      <4>1. o \in 1..Len(orders) /\ orders \in Seq(Order)
        BY <1>1, <3>1 DEF Open, RowsTyped
      <4> QED
        BY <4>1
    <3>4. its \in SUBSET Products /\ was \in SUBSET (Products \X Tables)
          /\ orders[o].was \subseteq was /\ there \subseteq was
      BY <1>2, <1>3, <3>3 DEF Order
    <3> HIDE DEF its, was
    <3>5. orders' = [orders EXCEPT ![o] = row]
      BY <3>2, <3>3
    <3>6. row \in Order /\ row.was = was
      BY <3>3, <3>4 DEF Order
    <3> HIDE DEF row
    <3> QED
      BY <1>1, <3>3, <3>4, <3>5, <3>6, ChangedOrder
  <2>2. CASE Open(r.table) = {}
    <3> DEFINE row == [table |-> r.table, items |-> r.items, was |-> there,
                       sent |-> {}, status |-> "open"]
    <3>1. Len(orders) < MaxOrders /\ orders' = Append(orders, row)
      BY <2>2 DEF open_table_order, there
    <3>2. row \in Order /\ row.was = there
      BY <1>2, <1>3 DEF Order
    <3> HIDE DEF row
    <3> QED
      BY <1>1, <3>1, <3>2, NewOrder
  <2> QED
    BY <2>1, <2>2
<1>5. \A p \in r.items : WasOnTable(p, r.table)'
  BY <1>3, <1>4 DEF WasOnTable
<1>6. AnswerStep(r)
  BY <1>1, <1>5, ReplyStep
<1> QED
  BY <1>1, <1>4, <1>6, SameHeld, SameInvoices DEF BackendStep, RowsTyped

LEMMA RemoveStep ==
  ASSUME TillInv, NEW r \in reqs, remove_item(r), UNCHANGED <<page, local, late, sale>>,
         r.status = "sent"
  PROVE  BackendStep
<1>1. RowsTyped /\ r.kind = "remove" /\ UNCHANGED <<invoices, held>>
  BY RowsNow DEF remove_item
<1>2. PICK p \in r.items :
        IF IsOpen(r.order) /\ p \in orders[r.order].items \ orders[r.order].sent
        THEN /\ orders' = [orders EXCEPT ![r.order].items = @ \ {p}]
             /\ IF r.items = {p} THEN Reply(r, "ok")
                ELSE Requests((reqs \ {r}) \union {[r EXCEPT !.items = @ \ {p}]})
        ELSE UNCHANGED orders /\ Reply(r, "refused")
  BY DEF remove_item
<1>3. CASE ~(IsOpen(r.order) /\ p \in orders[r.order].items \ orders[r.order].sent)
  <2>1. UNCHANGED orders /\ AnswerStep(r)
    BY <1>2, <1>3, ReplyStep
  <2> QED
    BY <1>1, <2>1, SameOrders, SameHeld, SameInvoices DEF BackendStep, RowsTyped
<1>4. CASE IsOpen(r.order) /\ p \in orders[r.order].items \ orders[r.order].sent
  <2> DEFINE o == r.order
             its == orders[o].items \ {p}
             row == [orders[o] EXCEPT !.items = its]
             fewer == r.items \ {p}
             q == [r EXCEPT !.items = fewer]
  <2>1. o \in 1..Len(orders) /\ orders[o] \in Order
    BY <1>4, OrderNamed
  <2>2. orders' = [orders EXCEPT ![o] = row]
    BY <1>2, <1>4
  <2>3. its \in SUBSET Products
    BY <2>1 DEF Order
  <2> HIDE DEF its
  <2>4. row \in Order /\ row.was = orders[o].was
    BY <2>1, <2>3 DEF Order
  <2> HIDE DEF row
  <2>5. orders' \in Seq(Order) /\ Len(orders') <= MaxOrders /\ OrdersGrow
    BY <1>1, <2>1, <2>2, <2>4, ChangedOrder
  <2>6. AnswerStep(r)
    <3>1. CASE r.items = {p}
      BY <1>1, <1>2, <1>4, <3>1, ReplyStep
    <3>2. CASE r.items # {p}
      <4>1. reqs' = (reqs \ {r}) \union {q} /\ calls' = calls
        BY <1>2, <1>4, <3>2 DEF Requests
      <4>2. r \in Request /\ fewer \in SUBSET Products
        BY DEF TillInv, TillShape, TillTypeOK, Request
      <4> HIDE DEF fewer
      <4>3. /\ q \in Request /\ ComesFrom(q, r) /\ q.status = "sent" /\ q.kind = "remove"
        BY <1>1, <4>2 DEF Request, ComesFrom
      <4> HIDE DEF q
      <4>4. Answered(q, r)
        BY <4>3 DEF Answered
      <4> QED
        BY <4>1, <4>4 DEF AnswerStep
    <3> QED
      BY <3>1, <3>2
  <2> QED
    BY <1>1, <2>5, <2>6, SameHeld, SameInvoices DEF BackendStep, RowsTyped
<1> QED
  BY <1>3, <1>4

LEMMA KotStep ==
  ASSUME TillInv, NEW r \in reqs, create_kot(r), UNCHANGED <<page, local, late, sale>>
  PROVE  BackendStep
<1>1. RowsTyped /\ r.kind = "kot" /\ UNCHANGED <<invoices, held>>
  BY RowsNow DEF create_kot
<1>2. CASE /\ IsOpen(r.order) /\ Reply(r, "ok")
           /\ orders' = [orders EXCEPT ![r.order].sent = @ \union orders[r.order].items]
  <2> DEFINE o == r.order
             its == orders[o].sent \union orders[o].items
             row == [orders[o] EXCEPT !.sent = its]
  <2>1. o \in 1..Len(orders) /\ orders[o] \in Order
    BY <1>2, OrderNamed
  <2>2. orders' = [orders EXCEPT ![o] = row]
    BY <1>2
  <2>3. its \in SUBSET Products
    BY <2>1 DEF Order
  <2> HIDE DEF its
  <2>4. row \in Order /\ row.was = orders[o].was
    BY <2>1, <2>3 DEF Order
  <2> HIDE DEF row
  <2>5. orders' \in Seq(Order) /\ Len(orders') <= MaxOrders /\ OrdersGrow
    BY <1>1, <2>1, <2>2, <2>4, ChangedOrder
  <2>6. AnswerStep(r)
    BY <1>1, <1>2, ReplyStep
  <2> QED
    BY <1>1, <2>5, <2>6, SameHeld, SameInvoices DEF BackendStep, RowsTyped
<1>3. CASE UNCHANGED orders /\ Reply(r, "refused")
  <2>1. AnswerStep(r)
    BY <1>3, ReplyStep
  <2> QED
    BY <1>1, <1>3, <2>1, SameOrders, SameHeld, SameInvoices DEF BackendStep, RowsTyped
<1> QED
  BY <1>2, <1>3 DEF create_kot

LEMMA TransferStep ==
  ASSUME TillInv, NEW r \in reqs, transfer_order(r), UNCHANGED <<page, local, late, sale>>
  PROVE  BackendStep
<1>1. RowsTyped /\ r.kind = "transfer" /\ UNCHANGED <<invoices, held>>
  BY RowsNow DEF transfer_order
<1>2. CASE /\ IsOpen(r.order) /\ r.table # NoTable /\ Reply(r, "ok")
           /\ orders' = [orders EXCEPT ![r.order].table = r.table]
  <2> DEFINE o == r.order
             row == [orders[o] EXCEPT !.table = r.table]
  <2>1. o \in 1..Len(orders) /\ orders[o] \in Order
    BY <1>2, OrderNamed
  <2>2. orders' = [orders EXCEPT ![o] = row]
    BY <1>2
  <2>3. r.table \in Tables
    BY <1>2 DEF TillInv, TillShape, TillTypeOK, Request
  <2>4. row \in Order /\ row.was = orders[o].was
    BY <2>1, <2>3 DEF Order
  <2> HIDE DEF row
  <2>5. orders' \in Seq(Order) /\ Len(orders') <= MaxOrders /\ OrdersGrow
    BY <1>1, <2>1, <2>2, <2>4, ChangedOrder
  <2>6. AnswerStep(r)
    BY <1>1, <1>2, ReplyStep
  <2> QED
    BY <1>1, <2>5, <2>6, SameHeld, SameInvoices DEF BackendStep, RowsTyped
<1>3. CASE UNCHANGED orders /\ Reply(r, "refused")
  <2>1. AnswerStep(r)
    BY <1>3, ReplyStep
  <2> QED
    BY <1>1, <1>3, <2>1, SameOrders, SameHeld, SameInvoices DEF BackendStep, RowsTyped
<1> QED
  BY <1>2, <1>3 DEF transfer_order

LEMMA ElsewhereStep ==
  ASSUME TillInv, NEW o \in 1..Len(orders), BilledElsewhere(o)
  PROVE  BackendStep
<1> DEFINE row == [orders[o] EXCEPT !.status = "billed"]
           x == [key |-> 0, sale |-> 0, visit |-> 0, items |-> orders[o].items]
<1>1. /\ RowsTyped /\ orders' = [orders EXCEPT ![o] = row] /\ invoices' = Append(invoices, x)
      /\ UNCHANGED <<held, page, local, late, sale, reqs, calls>>
  BY RowsNow DEF BilledElsewhere, net
<1>2. orders[o] \in Order /\ MaxKeys \in Nat
  BY <1>1, TillAssumption DEF TillAssumption, RowsTyped
<1>3. row \in Order /\ row.was = orders[o].was
  BY <1>2 DEF Order
<1>4. x \in Invoice /\ NewInvoice(x)
  BY <1>2 DEF Order, Invoice, NewInvoice
<1> HIDE DEF row, x
<1>5. orders' \in Seq(Order) /\ Len(orders') <= MaxOrders /\ OrdersGrow
  BY <1>1, <1>3, ChangedOrder
<1>6. invoices' \in Seq(Invoice) /\ InvoicesGrow
  BY <1>1, <1>4 DEF InvoicesGrow, RowsTyped
<1> QED
  BY <1>1, <1>5, <1>6, SameHeld DEF BackendStep, RowsTyped

LEMMA ServeKeepsInv ==
  ASSUME TillInv, NEW r \in reqs, Serve(r)
  PROVE  TillInv'
<1>1. UNCHANGED <<page, local, late, sale>> /\ r.status = "sent"
  BY DEF Serve
<1>2. BackendStep
  BY <1>1, ServeCheckoutStep, BillStep, HoldStep, DeleteStep, OpenStep, RemoveStep, KotStep,
     TransferStep, Zenon DEF Serve
<1> QED
  BY <1>2, BackendKeepsInv

-----------------------------------------------------------------------------
(***************************************************************************)
(* The invariant.                                                          *)
(***************************************************************************)
LEMMA TillStarts == TillInit => TillInv
<1> SUFFICES ASSUME TillInit PROVE TillInv
  OBVIOUS
<1>1. /\ orders = <<>> /\ invoices = <<>> /\ held = <<>> /\ tableId = NoTable
      /\ pendingTableChange = NoTable /\ seen = [t \in Tables |-> NoOrder]
      /\ local = {} /\ late = {} /\ key = 1 /\ visit = 1 /\ sale = 1
      /\ resumed = 0 /\ completed = FALSE /\ reqs = {} /\ calls = 0
  BY DEF TillInit
<1>2. /\ MaxKeys \in Nat /\ 1 \in 1..MaxKeys /\ MaxOrders \in Nat /\ MaxHeld \in Nat
      /\ MaxInFlight \in Nat /\ MaxCalls \in Nat
  BY TillAssumption DEF TillAssumption
<1>3. IsFiniteSet({}) /\ Cardinality({}) = 0
  BY FS_EmptySet
<1>4. Len(orders) = 0 /\ Len(invoices) = 0 /\ Len(held) = 0
  BY <1>1
<1>5. seen \in [Tables -> [order : 0..Len(orders), items : SUBSET Products]]
  BY <1>1, <1>4 DEF NoOrder
<1>e. orders \in Seq(Order) /\ invoices \in Seq(Invoice) /\ held \in Seq(HeldBill)
  BY <1>1
<1>f. Len(orders) <= MaxOrders /\ Len(held) <= MaxHeld
  BY <1>2, <1>4
<1>g. /\ tableId \in Tables \cup {NoTable} /\ pendingTableChange \in Tables \cup {NoTable}
      /\ local \subseteq Products /\ late \subseteq Products /\ completed \in BOOLEAN
      /\ reqs \subseteq Request
  BY <1>1
<1>h. /\ key \in 1..MaxKeys /\ visit \in 1..MaxKeys /\ sale \in Nat
      /\ resumed \in 0..Len(held)
  BY <1>1, <1>2, <1>4
<1>i. calls \in 0..MaxCalls
  BY <1>1, <1>2
<1>j. Cardinality(reqs) <= MaxInFlight
  BY <1>1, <1>2, <1>3
<1>6. TillTypeOK
  BY <1>e, <1>f, <1>g, <1>h, <1>i, <1>j, <1>5 DEF TillTypeOK
<1>7. TillShape
  BY <1>1, <1>3, <1>6 DEF TillShape
<1>8. OneKey
  BY <1>1, <1>4 DEF OneKey, Stamps
<1>9. HeldInv /\ CarryInv
  BY <1>1, <1>4 DEF HeldInv, HeldBillsOutliveFailures, CarryInv
<1> QED
  BY <1>7, <1>8, <1>9 DEF TillInv

LEMMA TillStays ==
  ASSUME TillInv, [TillNext]_tillVars
  PROVE  TillInv'
<1>1. CASE \E p \in Products : addProduct(p) \/ removeLine(p)
  BY <1>1, AddKeepsInv, RemoveKeepsInv
<1>2. CASE onClear \/ holdBill
  BY <1>2, OnClearKeepsInv, HoldKeepsInv
<1>3. CASE \E h \in 1..Len(held) : resumeHeldBill(h) \/ deleteHeldBill(h)
  BY <1>3, ResumeKeepsInv, DeleteKeepsInv
<1>4. CASE \E t \in Tables \union {NoTable} : handleTableChange(t)
  BY <1>4, TableKeepsInv
<1>5. CASE onKeepCurrent \/ moveOrderToTable \/ sendKot \/ Refetch
  BY <1>5, KeepKeepsInv, TransferKeepsInv, KotKeepsInv, RefetchKeepsInv
<1>6. CASE handleCheckout \/ closeReceipt \/ Leave \/ Reload
  BY <1>6, PayKeepsInv, CloseKeepsInv, LeaveKeepsInv, ReloadKeepsInv
<1>7. CASE \E r \in reqs : Serve(r) \/ Lost(r) \/ Answer(r)
  BY <1>7, ServeKeepsInv, LostKeepsInv, CheckedOutKeepsInv, BilledKeepsInv, HeldNowKeepsInv,
     MovedKeepsInv, OrderMovedKeepsInv, Zenon DEF Answer
<1>8. CASE \E o \in 1..Len(orders) : BilledElsewhere(o)
  BY <1>8, ElsewhereStep, BackendKeepsInv
<1>9. CASE UNCHANGED tillVars
  <2>1. UNCHANGED <<backend, page, local, late, sale, reqs, calls>>
    BY <1>9 DEF tillVars, net
  <2>2. UNCHANGED <<orders, invoices, held>>
    BY <2>1 DEF backend
  <2>3. BackendStep
    BY <2>1, <2>2, RowsNow, SameOrders, SameHeld, SameInvoices DEF BackendStep, RowsTyped
  <2> QED
    BY <2>3, BackendKeepsInv
<1> QED
  BY <1>1, <1>2, <1>3, <1>4, <1>5, <1>6, <1>7, <1>8, <1>9, Zenon DEF TillNext

(***************************************************************************)
(* Whatever is pressed, answered late, lost or left behind: the till keeps *)
(* its types, and names only orders and held bills that exist.             *)
(***************************************************************************)
THEOREM TillTypeCorrect == TillSpec => []TillTypeOK
<1>1. TillInv => TillTypeOK
  BY DEF TillInv, TillShape
<1> QED
  BY <1>1, TillStarts, TillStays, PTL DEF TillSpec

(***************************************************************************)
(* One sale rung up during one visit of the page gets at most one invoice, *)
(* at the counter or at a table, however often it is sent and whatever     *)
(* answers are lost.                                                       *)
(***************************************************************************)
THEOREM SaleIsInvoicedOnce == TillSpec => []OneInvoicePerSale
<1>1. TillInv => OneInvoicePerSale
  <2> SUFFICES ASSUME TillInv,
                      NEW i \in 1..Len(invoices), NEW j \in 1..Len(invoices),
                      invoices[i].sale # 0, invoices[i].sale = invoices[j].sale,
                      invoices[i].visit = invoices[j].visit
               PROVE  i = j
    BY DEF OneInvoicePerSale
  <2>1. invoices[i] \in Stamps /\ invoices[j] \in Stamps
    BY DEF Stamps
  <2>2. invoices[i].key = invoices[j].key /\ invoices[i].key # 0
    BY <2>1 DEF TillInv, OneKey, SameSale, Stamped
  <2> QED
    BY <2>2 DEF TillInv, OneKey
<1> QED
  BY <1>1, TillStarts, TillStays, PTL DEF TillSpec

(***************************************************************************)
(* A checkout that left no invoice under its key deletes no held bill:     *)
(* refused, unanswered, reloaded or left, it leaves the bill to be resumed *)
(* again.  (Nothing is said of what a checkout with an invoice sold.)      *)
(***************************************************************************)
THEOREM FailedCheckoutsDeleteNothing == TillSpec => []HeldBillsOutliveFailures
<1>1. TillInv => HeldBillsOutliveFailures
  BY DEF TillInv, HeldInv
<1> QED
  BY <1>1, TillStarts, TillStays, PTL DEF TillSpec

(***************************************************************************)
(* When the till turns to a table with a cart in hand, the cart's lines    *)
(* are on that table's order, but for those rung up after it was sent.     *)
(***************************************************************************)
THEOREM CartReachesItsTable == TillSpec => CarriedLinesReachTheTable
<1> DEFINE Turned == \A p \in local \ late :
                       tableId = NoTable /\ tableId' # NoTable =>
                         \E o \in 1..Len(orders) : <<p, tableId'>> \in orders[o].was
<1>1. TillInv /\ [TillNext]_tillVars => [Turned]_tillVars
  <2> SUFFICES ASSUME TillInv, TillNext, tableId = NoTable, tableId' # NoTable,
                      NEW p \in local \ late
               PROVE  \E o \in 1..Len(orders) : <<p, tableId'>> \in orders[o].was
    OBVIOUS
  <2>1. PICK r \in reqs : CartMoved(r) \/ OrderMoved(r)
    <3>1. tableId' # tableId /\ Lines = local /\ Lines # {}
      BY DEF Lines
    <3>2. ~\E q \in Products : addProduct(q) \/ removeLine(q)
      BY <3>1 DEF addProduct, removeLine, page
    <3>3. ~(onClear \/ holdBill)
      BY <3>1 DEF onClear, holdBill, page
    <3>4. ~\E h \in 1..Len(held) : resumeHeldBill(h) \/ deleteHeldBill(h)
      BY <3>1 DEF resumeHeldBill, deleteHeldBill, page
    <3>5. ~\E t \in Tables \union {NoTable} : handleTableChange(t)
      BY <3>1 DEF handleTableChange
    <3>6. ~(onKeepCurrent \/ moveOrderToTable \/ sendKot \/ Refetch)
      BY <3>1 DEF onKeepCurrent, moveOrderToTable, sendKot, Refetch, page
    <3>7. ~(handleCheckout \/ closeReceipt \/ Leave \/ Reload)
      BY <3>1 DEF handleCheckout, closeReceipt, resetForNewSale, Leave, Reload, Mount, page
    <3>8. ~\E o \in 1..Len(orders) : BilledElsewhere(o)
      BY <3>1 DEF BilledElsewhere, page
    <3>9. \A r \in reqs : ~(Serve(r) \/ Lost(r) \/ CheckedOut(r) \/ Billed(r) \/ HeldNow(r)
                            \/ Noticed(r))
      BY <3>1 DEF Serve, Lost, CheckedOut, Billed, HeldNow, resetForNewSale, Noticed, page
    <3> QED
      BY <3>2, <3>3, <3>4, <3>5, <3>6, <3>7, <3>8, <3>9, Zenon DEF TillNext, Answer
  <2>2. r.status = "ok" /\ r.heard
    BY <2>1 DEF CartMoved, OrderMoved, TillInv, TillShape, RequestOK
  <2>3. CASE CartMoved(r)
    <3>1. r.visit = visit /\ tableId' = r.table /\ r.kind = "move"
      BY <2>3 DEF CartMoved, Here
    <3>2. p \in r.items
      BY <2>2, <3>1 DEF TillInv, CarryInv, Asked
    <3> QED
      BY <2>2, <3>1, <3>2 DEF TillInv, CarryInv, WasOnTable
  <2>4. CASE OrderMoved(r)
    <3>1. r.visit = visit /\ r.kind = "transfer"
      BY <2>4 DEF OrderMoved, Here
    <3> QED
      BY <2>2, <3>1 DEF TillInv, CarryInv, Asked
  <2> QED
    BY <2>1, <2>3, <2>4
<1> QED
  BY <1>1, TillStarts, TillStays, PTL DEF TillSpec, CarriedLinesReachTheTable

-----------------------------------------------------------------------------
(***************************************************************************)
(* Modules Printing and PrintAgent.                                        *)
(***************************************************************************)
(***************************************************************************)
(* What the agent knows of a job: one that never arrived is not being      *)
(* printed, one that is being printed is not on paper yet or is once, and  *)
(* one recorded as completed is.                                           *)
(***************************************************************************)
JobOK(j) ==
  /\ job[j] = "none" => run[j] = "no" /\ inked[j] = 0
  /\ run[j] = "going" => inked[j] = 0
  /\ run[j] = "written" => inked[j] = 1
  /\ inked[j] <= 1
  /\ job[j] = "completed" => inked[j] > 0

(***************************************************************************)
(* What a print knows: until the agent takes it, its job id is unused; an  *)
(* answer that says done, and a success shown for the agent, are about a   *)
(* job on paper.                                                           *)
(***************************************************************************)
CallOK(k) ==
  /\ call[k].st \in {"idle", "connecting", "encoding", "sent"} => job[k] = "none"
  /\ call[k].st = "okd" => inked[k] > 0
  /\ call[k].st = "printed" /\ call[k].via = "agent" => inked[k] > 0
  /\ call[k].st = "direct" => call[k].via = "direct"

\* The parts of TypeOK.
JobsTyped ==
  /\ job \in [Jobs -> JobStatus]
  /\ run \in [Jobs -> {"no", "going", "written"}]
  /\ inked \in [Jobs -> Nat]
AgentTyped ==
  /\ up \in BOOLEAN
  /\ crashes \in 0..MaxCrashes
  /\ config \in Config /\ disk \in Config
  /\ pairing \in {"idle", "exchanged", "saved"}
  /\ tokens \in 0..Burst
ConnsTyped == conn \in [Conns -> ConnState]
SettingsTyped ==
  /\ server \in Modes \union {"none"}
  /\ override \in Modes \union {"none", "agent"}
  /\ prefs \in Modes \union {"none", "unloaded"}
  /\ dialogMode \in Modes \union {"none", "agent"}
  /\ edits \in 0..MaxEdits
  /\ enrol \in {"no", "code", "listed", "known"}
SocketsTyped ==
  /\ sock \in Conns \union {None} /\ attempt \in Conns \union {None}
  /\ phase \in {"no", "token", "socket"}
  /\ phase = "socket" <=> attempt # None
CallTyped(w) ==
  /\ w \in Call
  /\ w.st \in {"sent", "printing", "okd", "erred"} => w.conn # None
CallsTyped == call = [k \in Calls |-> call[k]] /\ \A k \in Calls : CallTyped(call[k])

LEMMA TypeParts ==
  TypeOK <=> JobsTyped /\ AgentTyped /\ ConnsTyped /\ SettingsTyped /\ SocketsTyped /\ CallsTyped
<1>1. call \in [Calls -> Call] <=> call = [k \in Calls |-> call[k]] /\ \A k \in Calls : call[k] \in Call
  OBVIOUS
<1> QED
  BY <1>1 DEF TypeOK, AgentTypeOK, JobsTyped, AgentTyped, ConnsTyped, SettingsTyped, SocketsTyped,
              CallsTyped, CallTyped

PrintingInv ==
  /\ JobsTyped /\ AgentTyped /\ ConnsTyped /\ SettingsTyped /\ SocketsTyped /\ CallsTyped
  /\ \A j \in Jobs : JobOK(j)
  /\ \A k \in Calls : CallOK(k)

(***************************************************************************)
(* The initial states.                                                     *)
(***************************************************************************)
LEMMA InitInv == Init => PrintingInv
<1> USE AgentAssumption, PrintingAssumption
<1> SUFFICES ASSUME Init PROVE PrintingInv
  OBVIOUS
<1>1. JobsTyped /\ ConnsTyped
  BY DEF Init, AgentInit, JobsTyped, ConnsTyped, JobStatus, ConnState
<1>2. NotPaired \in Config
  <2>1. FALSE \in BOOLEAN
    OBVIOUS
  <2> QED
    BY <2>1, Zenon DEF NotPaired, Config
<1>3. AgentTyped
  BY <1>2 DEF Init, AgentInit, AgentTyped
<1>4. SettingsTyped /\ SocketsTyped
  BY DEF Init, SettingsTyped, SocketsTyped
<1> DEFINE idle == [st |-> "idle", doc |-> "thermal", via |-> "none", conn |-> None]
<1>5. CallTyped(idle) /\ idle.st = "idle"
  BY DEF CallTyped, Call
<1> HIDE DEF idle
<1>6. call = [k \in Calls |-> idle]
  BY DEF Init, idle
<1>7. CallsTyped /\ \A k \in Calls : call[k].st = "idle"
  BY <1>5, <1>6 DEF CallsTyped
<1>8. \A j \in Jobs : JobOK(j) /\ job[j] = "none"
  BY DEF Init, AgentInit, JobOK
<1>9. \A k \in Calls : CallOK(k)
  BY <1>7, <1>8 DEF CallOK
<1> QED
  BY <1>1, <1>3, <1>4, <1>7, <1>8, <1>9 DEF PrintingInv

(***************************************************************************)
(* What most steps leave alone.                                            *)
(***************************************************************************)
LEMMA JobsAlone ==
  ASSUME PrintingInv, UNCHANGED <<job, run, inked>>
  PROVE  JobsTyped' /\ \A j \in Jobs : JobOK(j)'
  BY DEF PrintingInv, JobsTyped, JobOK

LEMMA AgentUntouched ==
  ASSUME PrintingInv, UNCHANGED <<up, crashes, config, disk, pairing, tokens>>
  PROVE  AgentTyped'
  BY DEF PrintingInv, AgentTyped

LEMMA ConnsAlone ==
  ASSUME PrintingInv, UNCHANGED conn
  PROVE  ConnsTyped'
  BY DEF PrintingInv, ConnsTyped

LEMMA SettingsAlone ==
  ASSUME PrintingInv, UNCHANGED <<server, override, prefs, dialogMode, edits, enrol>>
  PROVE  SettingsTyped'
  BY DEF PrintingInv, SettingsTyped

LEMMA SocketsAlone ==
  ASSUME PrintingInv, UNCHANGED <<sock, phase, attempt>>
  PROVE  SocketsTyped'
  BY DEF PrintingInv, SocketsTyped

(***************************************************************************)
(* A job that was unused stays so, and paper keeps its ink: that is all a   *)
(* print relies on.                                                        *)
(***************************************************************************)
Keeps(j) ==
  /\ inked[j] > 0 => inked'[j] > 0
  /\ job[j] = "none" => job'[j] = "none"

LEMMA CallsAlone ==
  ASSUME PrintingInv, UNCHANGED call, \A j \in Jobs : Keeps(j)
  PROVE  CallsTyped' /\ \A k \in Calls : CallOK(k)'
<1>1. CallsTyped'
  BY DEF PrintingInv, CallsTyped
<1>2. ASSUME NEW k \in Calls PROVE CallOK(k)'
  <2>1. CallOK(k) /\ Keeps(k) /\ call'[k] = call[k]
    BY PrintingAssumption DEF PrintingInv
  <2> QED
    BY <2>1 DEF CallOK, Keeps
<1> QED
  BY <1>1, <1>2

LEMMA JobsAloneKeep ==
  ASSUME UNCHANGED <<job, inked>>
  PROVE  \A j \in Jobs : Keeps(j)
  BY DEF Keeps

(***************************************************************************)
(* One print moves: to a record that is typed and that the job table bears  *)
(* out.                                                                    *)
(***************************************************************************)
LEMMA OneCall ==
  ASSUME PrintingInv, NEW k \in Calls, NEW w, CallTyped(w),
         call' = [call EXCEPT ![k] = w],
         \A j \in Jobs \ {k} : Keeps(j),
         w.st \in {"idle", "connecting", "encoding", "sent"} => job'[k] = "none",
         w.st = "okd" => inked'[k] > 0,
         w.st = "printed" /\ w.via = "agent" => inked'[k] > 0,
         w.st = "direct" => w.via = "direct"
  PROVE  CallsTyped' /\ \A l \in Calls : CallOK(l)'
<1>1. call'[k] = w /\ \A l \in Calls \ {k} : call'[l] = call[l]
  BY DEF PrintingInv, CallsTyped
<1>2. CallsTyped'
  <2>1. call' = [l \in Calls |-> call'[l]]
    BY DEF PrintingInv, CallsTyped
  <2>2. \A l \in Calls : CallTyped(call'[l])
    BY <1>1 DEF PrintingInv, CallsTyped
  <2> QED
    BY <2>1, <2>2 DEF CallsTyped, CallTyped
<1>3. CallOK(k)'
  BY <1>1 DEF CallOK
<1>4. ASSUME NEW l \in Calls \ {k} PROVE CallOK(l)'
  <2>1. CallOK(l) /\ Keeps(l) /\ call'[l] = call[l]
    BY <1>1, PrintingAssumption DEF PrintingInv
  <2> QED
    BY <2>1 DEF CallOK, Keeps
<1> QED
  BY <1>2, <1>3, <1>4

(***************************************************************************)
(* A record of a print with another status.                                *)
(***************************************************************************)
LEMMA Restated ==
  ASSUME NEW w, CallTyped(w), NEW s \in Waiting \union Ended,
         s \in {"sent", "printing", "okd", "erred"} => w.conn # None
  PROVE  LET v == [w EXCEPT !.st = s]
         IN  CallTyped(v) /\ v.st = s /\ v.via = w.via /\ v.doc = w.doc /\ v.conn = w.conn
  BY DEF CallTyped, Call

(***************************************************************************)
(* The connecting promise is settled: a waiting print fails, is encoded, or *)
(* goes out on the socket of the attempt.                                  *)
(***************************************************************************)
LEMMA WaitersMove ==
  ASSUME PrintingInv, NEW moved, call' = [k \in Calls |-> IF k \in Waiters THEN moved[k] ELSE call[k]],
         \A k \in Waiters : CallTyped(moved[k]) /\ moved[k].st \in {"failed", "encoding", "sent"},
         UNCHANGED <<job, inked>>
  PROVE  CallsTyped' /\ \A k \in Calls : CallOK(k)'
<1>1. \A k \in Calls : CallTyped(call'[k])
  BY DEF PrintingInv, CallsTyped
<1>2. CallsTyped'
  <2>1. call' = [k \in Calls |-> call'[k]]
    OBVIOUS
  <2> QED
    BY <1>1, <2>1 DEF CallsTyped, CallTyped
<1>3. ASSUME NEW k \in Calls PROVE CallOK(k)'
  <2>1. CallOK(k)
    BY DEF PrintingInv
  <2>2. CASE k \in Waiters
    <3>1. job'[k] = "none" /\ call'[k].st \in {"failed", "encoding", "sent"}
      BY <2>1, <2>2 DEF Waiters, CallOK
    <3> QED
      BY <3>1 DEF CallOK
  <2>3. CASE k \notin Waiters
    <3>1. call'[k] = call[k]
      BY <2>3
    <3> QED
      BY <2>1, <3>1 DEF CallOK
  <2> QED
    BY <2>2, <2>3
<1> QED
  BY <1>2, <1>3

(***************************************************************************)
(* The agent by itself.                                                    *)
(***************************************************************************)
LEMMA ConfigTyped ==
  ASSUME NEW w \in Config, NEW p \in BOOLEAN, NEW q \in BOOLEAN
  PROVE  [w EXCEPT !.paired = p] \in Config /\ [w EXCEPT !.key = q] \in Config
         /\ w.paired \in BOOLEAN /\ w.key \in BOOLEAN
  BY Zenon DEF Config

LEMMA OrIsBoolean == ASSUME NEW p \in BOOLEAN, NEW q \in BOOLEAN PROVE (p \/ q) \in BOOLEAN
  OBVIOUS

LEMMA StartAgentSafe == PrintingInv /\ StartAgent /\ UNCHANGED browserVars => PrintingInv'
<1> SUFFICES ASSUME PrintingInv, StartAgent, UNCHANGED browserVars PROVE PrintingInv'
  OBVIOUS
<1> USE AgentAssumption, PrintingAssumption
<1>1. UNCHANGED <<run, inked, conn, sock, phase, attempt, server, override, prefs, dialogMode, edits, enrol, call>>
  BY DEF StartAgent, browserVars
<1>2. config' \in Config /\ disk' \in Config
  <2>1. PICK fetched \in BOOLEAN : config' = [disk EXCEPT !.key = @ \/ (disk.paired /\ fetched)]
    BY Zenon DEF StartAgent
  <2>2. disk \in Config
    BY DEF PrintingInv, AgentTyped
  <2>3. disk.paired \in BOOLEAN /\ disk.key \in BOOLEAN
    BY <2>2, ConfigTyped, Zenon
  <2>4. (disk.key \/ (disk.paired /\ fetched)) \in BOOLEAN
    BY <2>3
  <2>5. config' \in Config
    BY <2>1, <2>2, <2>4, ConfigTyped, Zenon
  <2> QED
    BY <2>5 DEF StartAgent
<1>3. AgentTyped'
  BY <1>2 DEF StartAgent, PrintingInv, AgentTyped
<1>4. \A j \in Jobs : job'[j] = IF job[j] = "printing" THEN "failed" ELSE job[j]
  BY DEF StartAgent, Recovered
<1>5. JobsTyped'
  BY <1>1 DEF StartAgent, Recovered, PrintingInv, JobsTyped, JobStatus
<1>6. \A j \in Jobs : JobOK(j)'
  BY <1>1, <1>4 DEF PrintingInv, JobOK
<1>7. \A j \in Jobs : Keeps(j)
  BY <1>1, <1>4 DEF Keeps
<1>8. CallsTyped' /\ \A k \in Calls : CallOK(k)'
  BY <1>1, <1>7, CallsAlone
<1> QED
  BY <1>1, <1>3, <1>5, <1>6, <1>8, ConnsAlone, SettingsAlone, SocketsAlone DEF PrintingInv

LEMMA CrashSafe == PrintingInv /\ Crash /\ UNCHANGED browserVars => PrintingInv'
<1> SUFFICES ASSUME PrintingInv, Crash, UNCHANGED browserVars PROVE PrintingInv'
  OBVIOUS
<1> USE AgentAssumption, PrintingAssumption
<1>1. UNCHANGED <<job, inked, sock, phase, attempt, server, override, prefs, dialogMode, edits, enrol, call>>
  BY DEF Crash, browserVars
<1>2. AgentTyped'
  <2>1. crashes' \in 0..MaxCrashes
    BY DEF Crash, PrintingInv, AgentTyped
  <2>2. up' = FALSE /\ config' = disk /\ disk' = disk /\ pairing' = "idle" /\ tokens' = tokens
    BY DEF Crash
  <2>3. FALSE \in BOOLEAN
    OBVIOUS
  <2> QED
    BY <2>1, <2>2, <2>3, Zenon DEF PrintingInv, AgentTyped
<1>3. ConnsTyped'
  BY DEF Crash, PrintingInv, ConnsTyped, ConnState
<1>4. JobsTyped' /\ \A j \in Jobs : run'[j] = "no"
  BY <1>1 DEF Crash, PrintingInv, JobsTyped
<1>5. \A j \in Jobs : JobOK(j)'
  BY <1>1, <1>4 DEF PrintingInv, JobOK
<1>6. CallsTyped' /\ \A k \in Calls : CallOK(k)'
  BY <1>1, JobsAloneKeep, CallsAlone
<1> QED
  BY <1>1, <1>2, <1>3, <1>4, <1>5, <1>6, SettingsAlone, SocketsAlone DEF PrintingInv

LEMMA PairingSafe ==
  PrintingInv /\ (SaveIdentity \/ EnsureTokenPublicKey \/ Refill) /\ UNCHANGED browserVars => PrintingInv'
<1> SUFFICES ASSUME PrintingInv, SaveIdentity \/ EnsureTokenPublicKey \/ Refill, UNCHANGED browserVars
             PROVE PrintingInv'
  OBVIOUS
<1> USE AgentAssumption, PrintingAssumption
<1>1. UNCHANGED <<job, run, inked, conn, sock, phase, attempt, server, override, prefs, dialogMode, edits, enrol, call>>
  BY DEF SaveIdentity, EnsureTokenPublicKey, Refill, browserVars
<1>2. AgentTyped'
  <2>1. CASE SaveIdentity
    BY <2>1 DEF SaveIdentity, PrintingInv, AgentTyped
  <2>2. CASE EnsureTokenPublicKey
    <3>1. PICK fetched \in BOOLEAN : config' = [config EXCEPT !.key = @ \/ fetched]
      BY <2>2, Zenon DEF EnsureTokenPublicKey
    <3>2. config \in Config
      BY DEF PrintingInv, AgentTyped
    <3>3. (config.key \/ fetched) \in BOOLEAN
      BY <3>2, ConfigTyped, OrIsBoolean, Zenon
    <3>4. config' \in Config
      BY <3>1, <3>2, <3>3, ConfigTyped, Zenon
    <3> QED
      BY <2>2, <3>4 DEF EnsureTokenPublicKey, PrintingInv, AgentTyped
  <2>3. CASE Refill
    BY <2>3 DEF Refill, PrintingInv, AgentTyped
  <2> QED
    BY <2>1, <2>2, <2>3
<1>3. CallsTyped' /\ \A k \in Calls : CallOK(k)'
  BY <1>1, JobsAloneKeep, CallsAlone
<1> QED
  BY <1>1, <1>2, <1>3, JobsAlone, ConnsAlone, SettingsAlone, SocketsAlone DEF PrintingInv

LEMMA ServerSafe ==
  ASSUME NEW c \in Conns
  PROVE  PrintingInv /\ (Accept(c) \/ Authenticate(c)) /\ UNCHANGED browserVars => PrintingInv'
<1> SUFFICES ASSUME PrintingInv, Accept(c) \/ Authenticate(c), UNCHANGED browserVars PROVE PrintingInv'
  OBVIOUS
<1>1. UNCHANGED <<up, crashes, config, disk, pairing, tokens, job, run, inked, sock, phase, attempt,
                  server, override, prefs, dialogMode, edits, enrol, call>>
  BY DEF Accept, Authenticate, browserVars
<1>2. ConnsTyped'
  BY DEF Accept, Authenticate, PrintingInv, ConnsTyped, ConnState
<1>3. CallsTyped' /\ \A k \in Calls : CallOK(k)'
  BY <1>1, JobsAloneKeep, CallsAlone
<1> QED
  BY <1>1, <1>2, <1>3, JobsAlone, AgentUntouched, SettingsAlone, SocketsAlone DEF PrintingInv

LEMMA RequestsSafe ==
  ASSUME NEW j \in Jobs
  PROVE  PrintingInv /\ (Repeat(j) \/ Cancel(j)) /\ UNCHANGED browserVars => PrintingInv'
<1> SUFFICES ASSUME PrintingInv, Repeat(j) \/ Cancel(j), UNCHANGED browserVars PROVE PrintingInv'
  OBVIOUS
<1> USE AgentAssumption, PrintingAssumption
<1>1. UNCHANGED <<run, inked, conn, sock, phase, attempt, server, override, prefs, dialogMode, edits, enrol, call>>
  BY DEF Repeat, Enqueue, IsNew, Cancel, browserVars
<1>2. AgentTyped'
  BY DEF Repeat, Cancel, PrintingInv, AgentTyped
<1>3. job[j] # "none" /\ (job' = job \/ job' = [job EXCEPT ![j] = "cancelled"])
  BY DEF Repeat, Enqueue, IsNew, Cancel
<1>4. JobsTyped'
  BY <1>1, <1>3 DEF PrintingInv, JobsTyped, JobStatus
<1>5. \A i \in Jobs : job'[i] = job[i] \/ (i = j /\ job'[i] = "cancelled")
  BY <1>3 DEF PrintingInv, JobsTyped
<1>6. \A i \in Jobs : JobOK(i)' /\ Keeps(i)
  BY <1>1, <1>3, <1>5 DEF PrintingInv, JobOK, Keeps
<1>7. CallsTyped' /\ \A k \in Calls : CallOK(k)'
  BY <1>1, <1>6, CallsAlone
<1> QED
  BY <1>1, <1>2, <1>4, <1>6, <1>7, ConnsAlone, SettingsAlone, SocketsAlone DEF PrintingInv

(***************************************************************************)
(* Settings and pairing, as the browser sees them.                         *)
(***************************************************************************)
LEMMA SettingsSafe ==
  PrintingInv /\ ( \/ \E m \in Modes : SavedElsewhere(m) \/ \E saved \in BOOLEAN : handleDeviceModeChange(m, saved)
                  \/ PreferencesLoaded \/ MountPOSPage \/ requestPairingCode \/ waitForPairing )
  => PrintingInv'
<1> SUFFICES ASSUME PrintingInv,
                    \/ \E m \in Modes : SavedElsewhere(m) \/ \E saved \in BOOLEAN : handleDeviceModeChange(m, saved)
                    \/ PreferencesLoaded \/ MountPOSPage \/ requestPairingCode \/ waitForPairing
             PROVE PrintingInv'
  OBVIOUS
<1> USE PrintingAssumption
<1>1. UNCHANGED <<agentVars, sock, phase, attempt, call>>
  BY DEF SavedElsewhere, handleDeviceModeChange, PreferencesLoaded, MountPOSPage, requestPairingCode, waitForPairing
<1>2. SettingsTyped'
  <2>1. CASE \E m \in Modes : SavedElsewhere(m) \/ \E saved \in BOOLEAN : handleDeviceModeChange(m, saved)
    BY <2>1 DEF SavedElsewhere, handleDeviceModeChange, PrintingInv, SettingsTyped
  <2>2. CASE PreferencesLoaded \/ MountPOSPage
    BY <2>2 DEF PreferencesLoaded, MountPOSPage, resolveDeviceMode, PrintingInv, SettingsTyped
  <2>3. CASE requestPairingCode \/ waitForPairing
    BY <2>3 DEF requestPairingCode, waitForPairing, PrintingInv, SettingsTyped
  <2> QED
    BY <2>1, <2>2, <2>3
<1>3. UNCHANGED <<up, crashes, config, disk, pairing, tokens, job, run, inked, conn>>
  BY <1>1 DEF agentVars
<1>4. CallsTyped' /\ \A k \in Calls : CallOK(k)'
  BY <1>1, <1>3, JobsAloneKeep, CallsAlone
<1> QED
  BY <1>1, <1>2, <1>3, <1>4, JobsAlone, AgentUntouched, ConnsAlone, SocketsAlone DEF PrintingInv

LEMMA CodeExchangedSafe == PrintingInv /\ CodeExchanged => PrintingInv'
<1> SUFFICES ASSUME PrintingInv, CodeExchanged PROVE PrintingInv'
  OBVIOUS
<1>1. UNCHANGED <<up, crashes, disk, tokens, job, run, inked, conn, sock, phase, attempt, call,
                  server, override, prefs, dialogMode, edits>>
  BY DEF CodeExchanged, ExchangeCode
<1>2. AgentTyped'
  <2>1. config' = [config EXCEPT !.paired = TRUE] /\ pairing' = "exchanged"
    BY DEF CodeExchanged, ExchangeCode
  <2>2. config \in Config
    BY DEF PrintingInv, AgentTyped
  <2>3. TRUE \in BOOLEAN
    OBVIOUS
  <2>4. config' \in Config
    BY <2>1, <2>2, <2>3, ConfigTyped, Zenon
  <2> QED
    BY <1>1, <2>1, <2>4 DEF PrintingInv, AgentTyped
<1>3. SettingsTyped'
  BY <1>1 DEF CodeExchanged, PrintingInv, SettingsTyped
<1>4. CallsTyped' /\ \A k \in Calls : CallOK(k)'
  BY <1>1, JobsAloneKeep, CallsAlone
<1> QED
  BY <1>1, <1>2, <1>3, <1>4, JobsAlone, ConnsAlone, SocketsAlone DEF PrintingInv

(***************************************************************************)
(* The shared attempt to connect.                                          *)
(***************************************************************************)
LEMMA RejectMoves ==
  ASSUME PrintingInv, RejectWaiters, UNCHANGED <<job, inked>>
  PROVE  CallsTyped' /\ \A k \in Calls : CallOK(k)'
<1> DEFINE moved == [k \in Calls |-> [call[k] EXCEPT !.st = "failed"]]
<1>1. call' = [k \in Calls |-> IF k \in Waiters THEN moved[k] ELSE call[k]]
  BY DEF RejectWaiters
<1>2. \A k \in Waiters : CallTyped(moved[k]) /\ moved[k].st \in {"failed", "encoding", "sent"}
  <2> SUFFICES ASSUME NEW k \in Waiters PROVE CallTyped(moved[k]) /\ moved[k].st = "failed"
    OBVIOUS
  <2>1. k \in Calls /\ CallTyped(call[k])
    BY DEF Waiters, PrintingInv, CallsTyped
  <2>2. "failed" \in Waiting \union Ended
    BY DEF Ended
  <2> QED
    BY <2>1, <2>2, Restated
<1> HIDE DEF moved
<1> QED
  BY <1>1, <1>2, WaitersMove

LEMMA ReleaseMoves ==
  ASSUME PrintingInv, ReleaseWaiters, attempt # None, UNCHANGED <<job, inked>>
  PROVE  CallsTyped' /\ \A k \in Calls : CallOK(k)'
<1> DEFINE moved == [k \in Calls |-> IF call[k].doc = "pdf" THEN [call[k] EXCEPT !.st = "encoding"]
                                     ELSE [call[k] EXCEPT !.st = "sent", !.conn = attempt]]
<1>1. call' = [k \in Calls |-> IF k \in Waiters THEN moved[k] ELSE call[k]]
  BY DEF ReleaseWaiters
<1>2. \A k \in Waiters : CallTyped(moved[k]) /\ moved[k].st \in {"failed", "encoding", "sent"}
  <2> SUFFICES ASSUME NEW k \in Waiters
               PROVE CallTyped(moved[k]) /\ moved[k].st \in {"failed", "encoding", "sent"}
    OBVIOUS
  <2>1. k \in Calls /\ CallTyped(call[k])
    BY DEF Waiters, PrintingInv, CallsTyped
  <2>2. CASE call[k].doc = "pdf"
    <3>1. "encoding" \in Waiting \union Ended
      BY DEF Waiting
    <3> QED
      BY <2>1, <2>2, <3>1, Restated
  <2>3. CASE call[k].doc # "pdf"
    <3>1. moved[k] = [call[k] EXCEPT !.st = "sent", !.conn = attempt]
      BY <2>1, <2>3
    <3>2. CallTyped(moved[k]) /\ moved[k].st = "sent"
      BY <2>1, <3>1 DEF CallTyped, Call, Waiting, PrintingInv, SocketsTyped
    <3> QED
      BY <3>2
  <2> QED
    BY <2>2, <2>3
<1> HIDE DEF moved
<1> QED
  BY <1>1, <1>2, WaitersMove

LEMMA ConnectSafe == PrintingInv /\ (Connect \/ \E c \in Conns : onclose(c)) => PrintingInv'
<1> SUFFICES ASSUME PrintingInv, Connect \/ \E c \in Conns : onclose(c) PROVE PrintingInv'
  OBVIOUS
<1> USE PrintingAssumption
<1>1. UNCHANGED <<up, crashes, config, disk, pairing, job, run, inked, tokens,
                  server, override, prefs, dialogMode, edits, enrol>>
  BY DEF Connect, SessionTokenAnswered, onerror, ConnectTimeout, AuthAnswered, onclose
<1>2. phase = "socket" => attempt \in Conns /\ attempt # None
  BY DEF PrintingInv, SocketsTyped
<1>3. ConnsTyped'
  <2>1. CASE SessionTokenAnswered
    BY <2>1 DEF SessionTokenAnswered, PrintingInv, ConnsTyped, ConnState
  <2>2. CASE onerror \/ ConnectTimeout \/ AuthAnswered
    BY <1>2, <2>2 DEF onerror, ConnectTimeout, AuthAnswered, PrintingInv, ConnsTyped, ConnState
  <2>3. CASE \E c \in Conns : onclose(c)
    BY <2>3 DEF onclose, PrintingInv, ConnsTyped, ConnState
  <2> QED
    BY <2>1, <2>2, <2>3 DEF Connect
<1>4. SocketsTyped'
  <2>1. CASE SessionTokenAnswered
    <3>1. CASE phase' = "socket"
      <4>1. (\E c \in Conns : conn[c] = "unused") /\ attempt' = CHOOSE c \in Conns : conn[c] = "unused"
        BY <2>1, <3>1 DEF SessionTokenAnswered, Settled
      <4>2. attempt' \in Conns
        BY <4>1
      <4> QED
        BY <2>1, <3>1, <4>2 DEF SessionTokenAnswered, PrintingInv, SocketsTyped
    <3>2. CASE phase' # "socket"
      BY <2>1, <3>2 DEF SessionTokenAnswered, Settled, PrintingInv, SocketsTyped
    <3> QED
      BY <3>1, <3>2
  <2>2. CASE onerror \/ ConnectTimeout \/ AuthAnswered
    BY <1>2, <2>2 DEF onerror, ConnectTimeout, AuthAnswered, Settled, PrintingInv, SocketsTyped
  <2>3. CASE \E c \in Conns : onclose(c)
    BY <2>3 DEF onclose, PrintingInv, SocketsTyped
  <2> QED
    BY <2>1, <2>2, <2>3 DEF Connect
<1>5. UNCHANGED call \/ RejectWaiters \/ (ReleaseWaiters /\ attempt # None)
  BY <1>2 DEF Connect, SessionTokenAnswered, onerror, ConnectTimeout, AuthAnswered, onclose
<1>6. CallsTyped' /\ \A k \in Calls : CallOK(k)'
  BY <1>1, <1>5, JobsAloneKeep, CallsAlone, RejectMoves, ReleaseMoves
<1> QED
  BY <1>1, <1>3, <1>4, <1>6, JobsAlone, AgentUntouched, SettingsAlone DEF PrintingInv

(***************************************************************************)
(* A print begins.                                                         *)
(***************************************************************************)
LEMMA BeginSafe ==
  ASSUME NEW k \in Calls, NEW doc \in {"thermal", "pdf"}, NEW via \in {"agent", "direct", "tab"}
  PROVE  PrintingInv /\ Begin(k, doc, via) => PrintingInv'
<1> SUFFICES ASSUME PrintingInv, Begin(k, doc, via) PROVE PrintingInv'
  OBVIOUS
<1> USE PrintingAssumption
<1>1. UNCHANGED <<agentVars, server, override, prefs, dialogMode, edits, enrol, sock, attempt>>
  BY DEF Begin
<1>2. UNCHANGED <<up, crashes, config, disk, pairing, job, run, inked, tokens, conn>>
  BY <1>1 DEF agentVars
<1> DEFINE next == CASE via # "agent" -> via
                     [] isOpen -> IF doc = "pdf" THEN "encoding" ELSE "sent"
                     [] phase = "no" /\ ~getPairedDeviceId -> "failed"
                     [] OTHER -> "connecting"
           new == [st |-> next, doc |-> doc, via |-> via, conn |-> IF next = "sent" THEN sock ELSE None]
<1>3. call[k].st = "idle" /\ call' = [call EXCEPT ![k] = new]
      /\ phase' = IF next = "connecting" /\ phase = "no" THEN "token" ELSE phase
  BY DEF Begin
<1>4. next \in {"direct", "tab", "encoding", "sent", "failed", "connecting"}
      /\ (next = "direct" => via = "direct") /\ (next = "sent" => isOpen)
  <2>1. CASE via # "agent"
    BY <2>1
  <2>2. CASE via = "agent" /\ isOpen
    BY <2>2
  <2>3. CASE via = "agent" /\ ~isOpen
    BY <2>3
  <2> QED
    BY <2>1, <2>2, <2>3
<1> HIDE DEF next
<1>5. next = "sent" => sock \in Conns /\ sock # None
  BY <1>4 DEF isOpen, PrintingInv, SocketsTyped
<1>6. CallTyped(new)
  BY <1>4, <1>5 DEF CallTyped, Call, Waiting, Ended
<1>7. new.st = next /\ new.via = via
  OBVIOUS
<1> HIDE DEF new
<1>8. job[k] = "none"
  BY <1>3 DEF PrintingInv, CallOK
<1>9. CallsTyped' /\ \A l \in Calls : CallOK(l)'
  BY <1>2, <1>3, <1>4, <1>6, <1>7, <1>8, JobsAloneKeep, OneCall
<1>10. SocketsTyped'
  BY <1>1, <1>3 DEF PrintingInv, SocketsTyped
<1> QED
  BY <1>1, <1>2, <1>9, <1>10, JobsAlone, AgentUntouched, ConnsAlone, SettingsAlone DEF PrintingInv

LEMMA PrintSafe ==
  ASSUME NEW k \in Calls
  PROVE  PrintingInv /\ (AutoPrint(k) \/ printInvoiceSilently(k) \/ printKot(k)) => PrintingInv'
<1> SUFFICES ASSUME PrintingInv, AutoPrint(k) \/ printInvoiceSilently(k) \/ printKot(k) PROVE PrintingInv'
  OBVIOUS
<1>1. \A m, doc : dispatchSilentPrint(m, doc) \in {"agent", "direct", "tab"}
  BY DEF dispatchSilentPrint
<1>2. sendOnce \in {"agent", "direct", "tab"}
  BY DEF sendOnce
<1>3. PICK doc \in {"thermal", "pdf"}, via \in {"agent", "direct", "tab"} : Begin(k, doc, via)
  BY <1>1, <1>2 DEF AutoPrint, printInvoiceSilently, printKot
<1> QED
  BY <1>3, BeginSafe

(***************************************************************************)
(* The request and its answer.                                             *)
(***************************************************************************)
LEMMA ClientSafe ==
  ASSUME NEW k \in Calls
  PROVE  PrintingInv /\ (DirectResult(k) \/ blobToBase64(k) \/ onmessage(k)) => PrintingInv'
<1> SUFFICES ASSUME PrintingInv, DirectResult(k) \/ blobToBase64(k) \/ onmessage(k) PROVE PrintingInv'
  OBVIOUS
<1> USE PrintingAssumption
<1>1. UNCHANGED <<agentVars, server, override, prefs, dialogMode, edits, enrol, sock, phase, attempt>>
  BY DEF DirectResult, blobToBase64, onmessage
<1>2. UNCHANGED <<up, crashes, config, disk, pairing, job, run, inked, tokens, conn>>
  BY <1>1 DEF agentVars
<1>3. CallTyped(call[k]) /\ CallOK(k)
  BY DEF PrintingInv, CallsTyped
<1>4. CallsTyped' /\ \A l \in Calls : CallOK(l)'
  <2>1. CASE DirectResult(k)
    <3>1. PICK s \in {"printed", "failed"} : call' = [call EXCEPT ![k] = [call[k] EXCEPT !.st = s]]
      BY <2>1 DEF DirectResult
    <3> DEFINE w == [call[k] EXCEPT !.st = s]
    <3>2. CallTyped(w) /\ w.st = s /\ w.via = call[k].via
      BY <1>3, Restated DEF Ended
    <3>3. w.via = "direct"
      BY <1>3, <2>1, <3>2 DEF DirectResult, CallOK
    <3> HIDE DEF w
    <3>4. call' = [call EXCEPT ![k] = w]
      BY <3>1 DEF w
    <3> QED
      BY <1>2, <3>2, <3>3, <3>4, JobsAloneKeep, OneCall
  <2>2. CASE blobToBase64(k)
    <3> DEFINE w == [call[k] EXCEPT !.st = IF sock = None THEN "failed" ELSE "sent", !.conn = sock]
    <3>1. call' = [call EXCEPT ![k] = w]
      BY <2>2 DEF blobToBase64
    <3>2. CallTyped(w) /\ w.st \in {"failed", "sent"}
      BY <1>3 DEF CallTyped, Call, Waiting, Ended, PrintingInv, SocketsTyped
    <3>3. job[k] = "none"
      BY <1>3, <2>2 DEF blobToBase64, CallOK
    <3> HIDE DEF w
    <3> QED
      BY <1>2, <3>1, <3>2, <3>3, JobsAloneKeep, OneCall
  <2>3. CASE onmessage(k)
    <3> DEFINE s == IF call[k].st = "okd" THEN "printed" ELSE "failed"
               w == [call[k] EXCEPT !.st = s]
    <3>1. call' = [call EXCEPT ![k] = w]
      BY <2>3 DEF onmessage
    <3>2. CallTyped(w) /\ w.st = s
      BY <1>3, Restated DEF Ended
    <3>3. s \in {"printed", "failed"} /\ (s = "printed" => inked[k] > 0)
      BY <1>3 DEF CallOK
    <3> HIDE DEF w, s
    <3> QED
      BY <1>2, <3>1, <3>2, <3>3, JobsAloneKeep, OneCall
  <2> QED
    BY <2>1, <2>2, <2>3
<1> QED
  BY <1>1, <1>2, <1>4, JobsAlone, AgentUntouched, ConnsAlone, SettingsAlone, SocketsAlone DEF PrintingInv

LEMMA AgentTakesSafe ==
  ASSUME NEW k \in Calls
  PROVE  PrintingInv /\ AgentTakes(k) => PrintingInv'
<1> SUFFICES ASSUME PrintingInv, AgentTakes(k) PROVE PrintingInv'
  OBVIOUS
<1> USE AgentAssumption, PrintingAssumption
<1>1. UNCHANGED <<up, crashes, config, disk, pairing, inked, conn,
                  server, override, prefs, dialogMode, edits, enrol, sock, phase, attempt>>
  BY DEF AgentTakes
<1>2. call[k].st = "sent" /\ CallTyped(call[k]) /\ CallOK(k) /\ JobOK(k)
  BY DEF AgentTakes, PrintingInv, CallsTyped
<1>3. job[k] = "none" /\ run[k] = "no" /\ inked[k] = 0
  BY <1>2 DEF CallOK, JobOK
<1>4. AnswerTo(k) = "printing"
  BY <1>3 DEF AnswerTo, IsNew
<1>5. PICK s \in {"erred", "printing"} :
        /\ call' = [call EXCEPT ![k] = [call[k] EXCEPT !.st = s]]
        /\ \/ s = "erred" /\ UNCHANGED <<job, run>>
           \/ job' = [job EXCEPT ![k] = "printing"] /\ run' = [run EXCEPT ![k] = "going"]
  BY <1>3, <1>4 DEF AgentTakes, Enqueue, IsNew
<1> DEFINE w == [call[k] EXCEPT !.st = s]
<1>6. CallTyped(w) /\ w.st = s
  BY <1>2, Restated DEF Waiting, CallTyped
<1> HIDE DEF w
<1>7. call' = [call EXCEPT ![k] = w]
  BY <1>5 DEF w
<1>8. \A j \in Jobs \ {k} : job'[j] = job[j] /\ run'[j] = run[j]
  BY <1>5 DEF PrintingInv, JobsTyped
<1>9. \A j \in Jobs \ {k} : Keeps(j)
  BY <1>1, <1>8 DEF Keeps
<1>10. CallsTyped' /\ \A l \in Calls : CallOK(l)'
  BY <1>6, <1>7, <1>9, OneCall
<1>11. JobsTyped'
  BY <1>1, <1>5 DEF PrintingInv, JobsTyped, JobStatus
<1>12. JobOK(k)'
  <2>1. CASE UNCHANGED <<job, run>>
    BY <1>1, <1>2, <2>1 DEF JobOK
  <2>2. CASE job' = [job EXCEPT ![k] = "printing"] /\ run' = [run EXCEPT ![k] = "going"]
    <3>1. job'[k] = "printing" /\ run'[k] = "going" /\ inked'[k] = 0
      BY <1>1, <1>3, <2>2 DEF PrintingInv, JobsTyped
    <3> QED
      BY <3>1 DEF JobOK
  <2> QED
    BY <1>5, <2>1, <2>2
<1>13. \A j \in Jobs : JobOK(j)'
  BY <1>1, <1>8, <1>12 DEF PrintingInv, JobOK
<1>14. AgentTyped'
  BY <1>1 DEF AgentTakes, PrintingInv, AgentTyped
<1> QED
  BY <1>1, <1>10, <1>11, <1>13, <1>14, ConnsAlone, SettingsAlone, SocketsAlone DEF PrintingInv

LEMMA BytesOutSafe ==
  ASSUME NEW k \in Calls
  PROVE  PrintingInv /\ BytesOut(k) => PrintingInv'
<1> SUFFICES ASSUME PrintingInv, BytesOut(k) PROVE PrintingInv'
  OBVIOUS
<1> USE PrintingAssumption
<1>1. UNCHANGED <<up, crashes, config, disk, pairing, job, tokens, conn, sock, phase, attempt,
                  server, override, prefs, dialogMode, edits, enrol, call>>
  BY DEF BytesOut, Ink, browserVars
<1>2. run[k] = "going" /\ run' = [run EXCEPT ![k] = "written"] /\ inked' = [inked EXCEPT ![k] = @ + 1]
  BY DEF BytesOut, Ink
<1>3. JobsTyped'
  BY <1>1, <1>2 DEF PrintingInv, JobsTyped
<1>4. run'[k] = "written" /\ inked'[k] = 1 /\ job[k] # "none"
  BY <1>2 DEF PrintingInv, JobsTyped, JobOK
<1>5. \A j \in Jobs \ {k} : run'[j] = run[j] /\ inked'[j] = inked[j]
  BY <1>2 DEF PrintingInv, JobsTyped
<1>6. \A j \in Jobs : JobOK(j)' /\ Keeps(j)
  BY <1>1, <1>4, <1>5 DEF PrintingInv, JobOK, Keeps
<1>7. CallsTyped' /\ \A l \in Calls : CallOK(l)'
  BY <1>1, <1>6, CallsAlone
<1> QED
  BY <1>1, <1>3, <1>6, <1>7, AgentUntouched, ConnsAlone, SettingsAlone, SocketsAlone DEF PrintingInv

LEMMA AgentAnswersSafe ==
  ASSUME NEW k \in Calls
  PROVE  PrintingInv /\ AgentAnswers(k) => PrintingInv'
<1> SUFFICES ASSUME PrintingInv, AgentAnswers(k) PROVE PrintingInv'
  OBVIOUS
<1> USE PrintingAssumption
<1>1. PICK ok \in BOOLEAN :
        JobDone(k, ok) /\ call' = [call EXCEPT ![k].st = IF ok THEN "okd" ELSE "erred"]
  BY DEF AgentAnswers
<1>2. UNCHANGED <<up, crashes, config, disk, pairing, inked, tokens, conn,
                  server, override, prefs, dialogMode, edits, enrol, sock, phase, attempt>>
  BY <1>1 DEF AgentAnswers, JobDone
<1>3. call[k].st = "printing" /\ CallTyped(call[k]) /\ JobOK(k)
  BY DEF AgentAnswers, PrintingInv, CallsTyped
<1> DEFINE s == IF ok THEN "okd" ELSE "erred"
           r == IF ok THEN "completed" ELSE "failed"
           w == [call[k] EXCEPT !.st = s]
<1>4. call' = [call EXCEPT ![k] = w] /\ job' = [job EXCEPT ![k] = r] /\ run' = [run EXCEPT ![k] = "no"]
  BY <1>1 DEF JobDone
<1>5. s \in {"okd", "erred"} /\ r \in {"completed", "failed"}
  OBVIOUS
<1>6. s = "okd" \/ r = "completed" => inked[k] > 0
  BY <1>1, <1>3 DEF JobDone, JobOK
<1>7. CallTyped(w) /\ w.st = s
  BY <1>3, <1>5, Restated DEF Waiting, CallTyped
<1> HIDE DEF w, s, r
<1>8. JobsTyped'
  BY <1>2, <1>4, <1>5 DEF PrintingInv, JobsTyped, JobStatus
<1>9. job'[k] = r /\ run'[k] = "no" /\ \A j \in Jobs \ {k} : job'[j] = job[j] /\ run'[j] = run[j]
  BY <1>4 DEF PrintingInv, JobsTyped
<1>10. JobOK(k)'
  BY <1>2, <1>3, <1>5, <1>6, <1>9 DEF JobOK
<1>11. \A j \in Jobs : JobOK(j)'
  BY <1>2, <1>9, <1>10 DEF PrintingInv, JobOK
<1>12. \A j \in Jobs \ {k} : Keeps(j)
  BY <1>2, <1>9 DEF Keeps
<1>13. CallsTyped' /\ \A l \in Calls : CallOK(l)'
  BY <1>2, <1>4, <1>5, <1>6, <1>7, <1>12, OneCall
<1> QED
  BY <1>2, <1>8, <1>11, <1>13, AgentUntouched, ConnsAlone, SettingsAlone, SocketsAlone DEF PrintingInv

(***************************************************************************)
(* Every step keeps the invariant.                                         *)
(***************************************************************************)
LEMMA StutterSafe == PrintingInv /\ UNCHANGED vars => PrintingInv'
<1> SUFFICES ASSUME PrintingInv, UNCHANGED vars PROVE PrintingInv'
  OBVIOUS
<1>1. UNCHANGED <<up, crashes, config, disk, pairing, job, run, inked, tokens, conn, sock, phase, attempt,
                  server, override, prefs, dialogMode, edits, enrol, call>>
  BY DEF vars, agentVars, browserVars
<1>2. CallsTyped' /\ \A k \in Calls : CallOK(k)'
  BY <1>1, JobsAloneKeep, CallsAlone
<1> QED
  BY <1>1, <1>2, JobsAlone, AgentUntouched, ConnsAlone, SettingsAlone, SocketsAlone DEF PrintingInv

LEMMA StepInv == PrintingInv /\ [Next]_vars => PrintingInv'
<1> SUFFICES ASSUME PrintingInv, [Next]_vars PROVE PrintingInv'
  OBVIOUS
<1>1. CASE AgentAlone /\ UNCHANGED browserVars
  BY <1>1, StartAgentSafe, CrashSafe, PairingSafe, ServerSafe, RequestsSafe, Zenon DEF AgentAlone
<1>2. CASE \/ \E m \in Modes : SavedElsewhere(m) \/ \E saved \in BOOLEAN : handleDeviceModeChange(m, saved)
           \/ PreferencesLoaded \/ MountPOSPage \/ requestPairingCode \/ waitForPairing
  BY <1>2, SettingsSafe, Zenon
<1>3. CASE CodeExchanged
  BY <1>3, CodeExchangedSafe
<1>4. CASE Connect \/ \E c \in Conns : onclose(c)
  BY <1>4, ConnectSafe
<1>5. CASE \E k \in Calls :
             \/ AutoPrint(k) \/ printInvoiceSilently(k) \/ printKot(k)
             \/ DirectResult(k) \/ blobToBase64(k)
             \/ AgentTakes(k) \/ BytesOut(k) \/ AgentAnswers(k) \/ onmessage(k)
  BY <1>5, PrintSafe, ClientSafe, AgentTakesSafe, BytesOutSafe, AgentAnswersSafe, Zenon
<1>6. CASE UNCHANGED vars
  BY <1>6, StutterSafe
<1> QED
  BY <1>1, <1>2, <1>3, <1>4, <1>5, <1>6, Zenon DEF Next

THEOREM PrintingInvariant == Spec => []PrintingInv
  BY InitInv, StepInv, PTL DEF Spec

(***************************************************************************)
(* Every variable of the till and of its print agent keeps its type, and a  *)
(* print that is with the agent names the connection it went out on.       *)
(***************************************************************************)
THEOREM PrintingTypeCorrect == Spec => []TypeOK
<1>1. PrintingInv => TypeOK
  BY TypeParts DEF PrintingInv
<1> QED
  BY <1>1, PrintingInvariant, PTL

(***************************************************************************)
(* The agent never prints a job id a second time (server.ts:10), however    *)
(* often a request is repeated, cancelled or cut off by a crash.           *)
(***************************************************************************)
THEOREM PrintedOnce == Spec => []NeverASecondPrint
<1>1. PrintingInv => NeverASecondPrint
  BY DEF PrintingInv, JobOK, NeverASecondPrint
<1> QED
  BY <1>1, PrintingInvariant, PTL

(***************************************************************************)
(* Neither the job table nor the cashier's message says done of a job that  *)
(* did not reach the printer, also after a restart of the agent.           *)
(***************************************************************************)
THEOREM DoneMeansPaper == Spec => []DoneIsOnPaper
<1>1. PrintingInv => DoneIsOnPaper
  BY PrintingAssumption DEF PrintingInv, JobOK, CallOK, DoneIsOnPaper
<1> QED
  BY <1>1, PrintingInvariant, PTL
=============================================================================
