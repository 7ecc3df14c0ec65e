---------------------------- MODULE SalesProofs ----------------------------
(***************************************************************************)
(* Theorems about module Sales, for every set of products, customers,      *)
(* invoices and returns and for every price, quantity and credit setting.  *)
(***************************************************************************)
EXTENDS Sales, SumLemmas, FiniteSetTheorems, TLAPS

(***************************************************************************)
(* An empty cart is a quantity function, a cart is one with some unit in   *)
(* it.                                                                     *)
(***************************************************************************)
LEMMA QuantityFunctions ==
  /\ [p \in Products |-> 0] \in Quantities
  /\ \A q \in Carts : q \in Quantities /\ \E p \in Products : q[p] > 0
  /\ Quantities \subseteq [Products -> Nat]
BY SalesAssumption DEF SalesAssumption, Quantities, Carts

(***************************************************************************)
(* Money amounts are integers that are not negative.                       *)
(***************************************************************************)
LEMMA MoneyInt == Money \subseteq Int /\ \A m \in Money : m >= 0
BY SalesAssumption DEF SalesAssumption

(***************************************************************************)
(* The bounds and identifiers are integers.                                *)
(***************************************************************************)
LEMMA Bounds ==
  /\ StockLevels \subseteq Int /\ Adjustments \subseteq Int /\ MaxQty \in Nat
  /\ OpeningStock \in [Products -> Int] /\ Invoices \subseteq Int
BY SalesAssumption DEF SalesAssumption

(***************************************************************************)
(* The initial rows are rows.                                              *)
(***************************************************************************)
LEMMA InitType == Init => TypeOK
<1> SUFFICES ASSUME Init PROVE TypeOK
  OBVIOUS
<1>1. NoInvoice \in InvoiceRow
  BY QuantityFunctions, SalesAssumption DEF NoInvoice, InvoiceRow, SalesAssumption
<1>2. NoReturn \in ReturnRow
  BY QuantityFunctions, SalesAssumption DEF NoReturn, ReturnRow, SalesAssumption
<1> QED
  BY <1>1, <1>2, SalesAssumption DEF Init, TypeOK, SalesAssumption

(***************************************************************************)
(* Changing the columns void_invoice writes leaves an invoice row.         *)
(***************************************************************************)
LEMMA RowUpdate ==
  ASSUME NEW row \in InvoiceRow,
         NEW status \in {"none", "paid", "partial", "refunded", "cancelled"},
         NEW payment \in {"none", "paid", "partially_paid", "credit", "cancelled"},
         NEW outstanding \in Int
  PROVE  [row EXCEPT !.status = status, !.payment_status = payment,
                     !.outstanding = outstanding] \in InvoiceRow
BY DEF InvoiceRow

(***************************************************************************)
(* The row the two return paths of the sales service write is an invoice   *)
(* row.                                                                    *)
(***************************************************************************)
LEMMA RebalancedType ==
  ASSUME TypeOK, NEW i \in Invoices, NEW outstanding \in Int,
         NEW changed \in BOOLEAN, NEW returned \in Quantities,
         NEW status \in {"paid", "partial", "refunded"}
  PROVE  Rebalanced(i, outstanding, changed, returned, status) \in InvoiceRow
<1>1. inv[i] \in InvoiceRow
  BY DEF TypeOK
<1>2. inv[i].total \in Int /\ inv[i].paid \in Int
  BY <1>1, MoneyInt DEF InvoiceRow
<1> DEFINE paid == IF changed THEN inv[i].total - outstanding ELSE inv[i].paid
           payment == IF changed THEN DerivePaymentStatus(paid, inv[i].total)
                      ELSE inv[i].payment_status
<1>3. paid \in Int
  BY <1>2
<1>4. payment \in {"none", "paid", "partially_paid", "credit", "cancelled"}
  BY <1>1 DEF InvoiceRow, DerivePaymentStatus
<1>5. Rebalanced(i, outstanding, changed, returned, status)
        = [inv[i] EXCEPT !.outstanding = outstanding, !.paid = paid,
             !.payment_status = payment, !.returned = returned, !.status = status]
  BY DEF Rebalanced
<1> HIDE DEF paid, payment
<1> QED
  BY <1>1, <1>3, <1>4, <1>5 DEF InvoiceRow

(***************************************************************************)
(* What is forgiven is the tolerance at most.                              *)
(***************************************************************************)
LEMMA LeftOverOf ==
  ASSUME NEW due \in Int
  PROVE  /\ LeftOver(due) \in Int /\ LeftOver(due) >= due - 1
         /\ LeftOver(due) = IF due <= 1 THEN 0 ELSE due
BY DEF LeftOver, Tolerance

(***************************************************************************)
(* What a payment does, whether it names invoices or not: it gives each    *)
(* invoice an amount in a number of allocations, and the invoices it gives *)
(* something are the customer's.  The payment itself may be larger by what *)
(* the oldest invoices left of it.                                         *)
(***************************************************************************)
PaymentWith(c, split, times, rest) ==
  /\ times \in [Invoices -> Nat] /\ rest \in Nat
  /\ received' = [received EXCEPT ![c] = @ + SumFunction(split) + rest]
  /\ Allocated(split, times)
  /\ \A i \in Invoices :
       /\ split[i] \in Nat
       /\ split[i] > 0 => times[i] > 0 /\ inv[i].status # "none" /\ inv[i].customer = c
       /\ inv[i].outstanding = 0 => split[i] <= times[i]

LEMMA PaymentEffects ==
  ASSUME TypeOK, NEW c \in Customers, NEW split \in [Invoices -> Money],
         CreatePayment(c, split)
  PROVE  \E times, rest : PaymentWith(c, split, times, rest)
<1>0. \A i \in Invoices : split[i] > 0 => inv[i].status # "none" /\ inv[i].customer = c
  BY DEF CreatePayment, Issued
<1>1. \A i \in Invoices : split[i] \in Nat /\ inv[i].outstanding \in Int
  BY SalesAssumption DEF SalesAssumption, TypeOK, InvoiceRow
<1>2. ASSUME NEW rest \in 0..Tolerance, OldestFirst(c, split, rest)
      PROVE  /\ Allocated(split, [i \in Invoices |-> IF split[i] > 0 THEN 1 ELSE 0])
             /\ received' = [received EXCEPT ![c] = @ + SumFunction(split) + rest]
             /\ rest \in Nat
             /\ \A i \in Invoices : split[i] > 0 => /\ inv[i].status # "none"
                                                    /\ inv[i].customer = c
                                                    /\ inv[i].outstanding # 0
  <2>1. rest \in Nat
    BY DEF Tolerance
  <2> QED
    BY <1>1, <1>2, <2>1 DEF OldestFirst, Payable, InvoicesOf, Live
<1>3. ASSUME NEW times \in [Invoices -> 0..MaxRepeats], Requested(c, split, times)
      PROVE  /\ times \in [Invoices -> Nat] /\ Allocated(split, times)
             /\ received' = [received EXCEPT ![c] = @ + SumFunction(split) + 0]
             /\ \A i \in Invoices :
                  /\ split[i] > 0 => /\ times[i] > 0 /\ inv[i].status # "none"
                                     /\ inv[i].customer = c
                  /\ inv[i].outstanding = 0 => split[i] <= times[i]
  <2>1. times \in [Invoices -> Nat]
    BY SalesAssumption DEF SalesAssumption
  <2>2. \A i \in Invoices : split[i] \in Int
    BY <1>1
  <2>3. IsFiniteSet(Invoices) /\ DOMAIN split = Invoices
    BY SalesAssumption DEF SalesAssumption
  <2>4. SumFunction(split) \in Int
    BY <2>2, <2>3, SumInt DEF SumFunction
  <2>5. received[c] \in Int
    BY DEF TypeOK
  <2>6. received' = [received EXCEPT ![c] = @ + SumFunction(split)]
    BY <1>3 DEF Requested
  <2>7. received[c] + SumFunction(split) = received[c] + SumFunction(split) + 0
    BY <2>4, <2>5
  <2>8. received' = [received EXCEPT ![c] = @ + SumFunction(split) + 0]
    BY <2>6, <2>7
  <2>9. ASSUME NEW i \in Invoices
        PROVE  /\ split[i] > 0 => /\ times[i] > 0 /\ inv[i].status # "none"
                                  /\ inv[i].customer = c
               /\ inv[i].outstanding = 0 => split[i] <= times[i]
    <3>1. /\ split[i] > 0 => inv[i].status # "none" /\ inv[i].customer = c
          /\ split[i] <= times[i] * (inv[i].outstanding + 1)
      BY <1>0, <1>3 DEF Requested, Tolerance
    <3>2. times[i] \in Nat /\ split[i] \in Nat
      BY <1>1, <2>1
    <3>3. CASE times[i] = 0
      <4>1. 0 * (inv[i].outstanding + 1) = 0
        BY <1>1
      <4> QED
        BY <3>1, <3>2, <3>3, <4>1
    <3>4. CASE times[i] > 0
      BY <1>1, <3>1, <3>2, <3>4
    <3> QED
      BY <3>2, <3>3, <3>4
  <2> QED
    BY <1>3, <2>1, <2>8, <2>9 DEF Requested
<1>4. CASE \E rest \in 0..Tolerance : OldestFirst(c, split, rest)
  <2>1. PICK rest \in 0..Tolerance : OldestFirst(c, split, rest)
    BY <1>4
  <2> DEFINE times == [i \in Invoices |-> IF split[i] > 0 THEN 1 ELSE 0]
  <2>2. times \in [Invoices -> Nat]
    OBVIOUS
  <2>3. ASSUME NEW i \in Invoices
        PROVE  /\ split[i] > 0 => times[i] > 0
               /\ inv[i].outstanding = 0 => split[i] <= times[i]
    <3>1. split[i] > 0 => inv[i].outstanding # 0
      BY <1>2, <2>1
    <3>2. times[i] = IF split[i] > 0 THEN 1 ELSE 0
      OBVIOUS
    <3> QED
      BY <1>1, <3>1, <3>2
  <2>4. Allocated(split, times) /\ rest \in Nat
        /\ received' = [received EXCEPT ![c] = @ + SumFunction(split) + rest]
        /\ \A i \in Invoices : split[i] > 0 => inv[i].status # "none" /\ inv[i].customer = c
    BY <1>2, <2>1
  <2> HIDE DEF times
  <2>5. PaymentWith(c, split, times, rest)
    BY <1>1, <2>2, <2>3, <2>4 DEF PaymentWith
  <2> QED
    BY <2>5
<1>5. CASE \E times \in [Invoices -> 0..MaxRepeats] : Requested(c, split, times)
  <2>1. PICK times \in [Invoices -> 0..MaxRepeats] : Requested(c, split, times)
    BY <1>5
  <2>2. PaymentWith(c, split, times, 0)
    BY <1>1, <1>3, <2>1 DEF PaymentWith
  <2> QED
    BY <2>2
<1> QED
  BY <1>4, <1>5 DEF CreatePayment

(***************************************************************************)
(* Every step of the model leaves rows of the declared types.              *)
(***************************************************************************)
LEMMA NextType ==
  ASSUME TypeOK, [Next]_vars
  PROVE  TypeOK'
<1> USE MoneyInt, Bounds
<1>1. ASSUME NEW i \in Invoices, NEW c \in Customers \cup {NoCustomer},
             NEW cart \in Carts, NEW onCredit \in BOOLEAN,
             NEW isManager \in BOOLEAN, NEW paidNow \in Money,
             CreateInvoice(i, c, cart, onCredit, paidNow, isManager)
      PROVE  TypeOK'
  <2> DEFINE total == Value(cart)
             paid == IF onCredit THEN paidNow ELSE total
             row == [status |-> "paid",
                     payment_status |-> IF onCredit THEN DerivePaymentStatus(paid, total)
                                        ELSE "paid",
                     customer |-> c, has_due_date |-> onCredit,
                     total |-> total, paid |-> paid, outstanding |-> total - paid,
                     quantity |-> cart, returned |-> [p \in Products |-> 0]]
  <2>1. total \in Money /\ inv' = [inv EXCEPT ![i] = row]
    BY <1>1 DEF CreateInvoice
  <2>2. total \in Int /\ paid \in Int
    BY <2>1
  <2> HIDE DEF total
  <2>3. row \in InvoiceRow
    BY <2>1, <2>2, QuantityFunctions DEF InvoiceRow, DerivePaymentStatus
  <2>4. inv' \in [Invoices -> InvoiceRow]
    BY <2>1, <2>3 DEF TypeOK
  <2>5. /\ received' \in [Customers -> Int] /\ allocated' \in [Invoices -> Int]
        /\ allocations' \in [Invoices -> Nat]
    BY <1>1, <2>2 DEF CreateInvoice, TypeOK, total
  <2>6. stock' \in [Products -> Int]
    BY <1>1, QuantityFunctions DEF CreateInvoice, TypeOK, Quantities
  <2> QED
    BY <1>1, <2>4, <2>5, <2>6 DEF CreateInvoice, TypeOK
<1>2. ASSUME NEW i \in Invoices, VoidInvoice(i)
      PROVE  TypeOK'
  <2> DEFINE row == [inv[i] EXCEPT !.status = "cancelled",
                       !.payment_status = "cancelled", !.outstanding = 0]
  <2>6. inv[i] \in InvoiceRow
    BY DEF TypeOK
  <2>4. row \in InvoiceRow
    <3>1. /\ "cancelled" \in {"none", "paid", "partial", "refunded", "cancelled"}
          /\ "cancelled" \in {"none", "paid", "partially_paid", "credit", "cancelled"}
          /\ 0 \in Int
      OBVIOUS
    <3> QED
      BY ONLY <2>6, <3>1, RowUpdate
  <2>5. inv' = [inv EXCEPT ![i] = row]
    BY <1>2 DEF VoidInvoice, TypeOK
  <2> HIDE DEF row
  <2>1. inv' \in [Invoices -> InvoiceRow]
    BY <2>4, <2>5 DEF TypeOK
  <2>2. inv[i].quantity \in Quantities
    BY DEF TypeOK, InvoiceRow
  <2>3. stock' \in [Products -> Int]
    BY <1>2, <2>2 DEF VoidInvoice, TypeOK, Quantities
  <2> QED
    BY <1>2, <2>1, <2>3 DEF VoidInvoice, TypeOK
<1>3. ASSUME NEW r \in Returns, NEW i \in Invoices, NEW request \in Carts,
             NEW restocked \in SUBSET Products,
             CreateReturn(r, i, request, restocked)
      PROVE  TypeOK'
  <2> DEFINE refund == Value(request)
             credit == Least(refund, inv[i].outstanding)
             returned == [p \in Products |-> inv[i].returned[p] + request[p]]
             status == IF FullyReturned(i, returned) THEN "refunded" ELSE "partial"
  <2>1. /\ refund \in Money
        /\ inv' = [inv EXCEPT ![i] = Rebalanced(i, inv[i].outstanding - credit,
                                                credit > 0, returned, status)]
        /\ ret' = [ret EXCEPT ![r] =
             [status |-> IF FullyReturned(i, returned) THEN "fully_refunded"
                         ELSE "partially_refunded",
              invoice |-> i, quantity |-> request,
              restocked |-> restocked, refund |-> refund]]
    BY <1>3 DEF CreateReturn
  <2>2. inv[i].outstanding \in Int /\ inv[i].quantity \in Quantities
        /\ inv[i].returned \in Quantities /\ request \in Quantities
    BY QuantityFunctions DEF TypeOK, InvoiceRow
  <2>3. returned \in Quantities
    <3> SUFFICES ASSUME NEW p \in Products
                 PROVE  inv[i].returned[p] + request[p] \in 0..MaxQty
      BY DEF Quantities
    <3>1. request[p] <= inv[i].quantity[p] - inv[i].returned[p]
      BY <1>3 DEF CreateReturn, Remaining
    <3> QED
      BY <3>1, <2>2 DEF Quantities
  <2> HIDE DEF refund, returned
  <2>8. refund \in Int
    BY <2>1
  <2>4. inv[i].outstanding - credit \in Int
    BY <2>8, <2>2 DEF Least
  <2>9. (credit > 0) \in BOOLEAN /\ status \in {"paid", "partial", "refunded"}
    OBVIOUS
  <2> HIDE DEF credit, status
  <2>10. Rebalanced(i, inv[i].outstanding - credit, credit > 0, returned, status)
           \in InvoiceRow
    BY <2>3, <2>4, <2>9, RebalancedType
  <2>5. inv' \in [Invoices -> InvoiceRow]
    BY <2>1, <2>10 DEF TypeOK
  <2>6. ret' \in [Returns -> ReturnRow]
    BY <2>1, <2>2 DEF TypeOK, ReturnRow
  <2>7. stock' \in [Products -> Int]
    BY <1>3, <2>2 DEF CreateReturn, Restocked, TypeOK, Quantities
  <2> QED
    BY <1>3, <2>5, <2>6, <2>7 DEF CreateReturn, TypeOK
<1>4. ASSUME NEW r \in Returns, CancelReturn(r)
      PROVE  TypeOK'
  <2> DEFINE i == ret[r].invoice
             room == inv[i].total - inv[i].outstanding
             credit == IF Least(ret[r].refund, room) > 0
                       THEN Least(ret[r].refund, room) ELSE 0
             left(p) == inv[i].returned[p] - ret[r].quantity[p]
             returned == [p \in Products |-> IF left(p) > 0 THEN left(p) ELSE 0]
             status == IF FullyReturned(i, returned) THEN "refunded"
                       ELSE IF \E p \in Products : returned[p] > 0 THEN "partial"
                       ELSE "paid"
  <2>1. /\ inv' = [inv EXCEPT ![i] = Rebalanced(i, inv[i].outstanding + credit,
                                                credit > 0, returned, status)]
        /\ ret' = [ret EXCEPT ![r].status = "cancelled"]
    BY <1>4 DEF CancelReturn
  <2>2. /\ i \in Invoices /\ ret[r].refund \in Int
        /\ ret[r].quantity \in Quantities
    BY DEF TypeOK, ReturnRow
  <2>3. inv[i].outstanding \in Int /\ inv[i].total \in Int /\ inv[i].returned \in Quantities
    BY <2>2 DEF TypeOK, InvoiceRow
  <2>4. returned \in Quantities
    BY <2>2, <2>3 DEF Quantities
  <2>5. inv[i].outstanding + credit \in Int
    BY <2>2, <2>3 DEF Least
  <2>9. (credit > 0) \in BOOLEAN /\ status \in {"paid", "partial", "refunded"}
    OBVIOUS
  <2> HIDE DEF i, credit, returned, status
  <2>10. Rebalanced(i, inv[i].outstanding + credit, credit > 0, returned, status)
           \in InvoiceRow
    BY <2>2, <2>4, <2>5, <2>9, RebalancedType
  <2>6. inv' \in [Invoices -> InvoiceRow]
    BY <2>1, <2>10 DEF TypeOK
  <2>7. ret' \in [Returns -> ReturnRow]
    BY <2>1 DEF TypeOK, ReturnRow
  <2>8. stock' \in [Products -> Int]
    BY <1>4, <2>2 DEF CancelReturn, TypeOK, Quantities
  <2> QED
    BY <1>4, <2>6, <2>7, <2>8 DEF CancelReturn, TypeOK
<1>5. ASSUME NEW c \in Customers, NEW split \in [Invoices -> Money], CreatePayment(c, split)
      PROVE  TypeOK'
  <2>1. PICK times, rest : PaymentWith(c, split, times, rest)
    BY <1>5, PaymentEffects
  <2>2. /\ times \in [Invoices -> Nat] /\ rest \in Nat
        /\ allocated' = [i \in Invoices |-> allocated[i] + split[i]]
        /\ allocations' = [i \in Invoices |-> allocations[i] + times[i]]
        /\ received' = [received EXCEPT ![c] = @ + SumFunction(split) + rest]
    BY <2>1 DEF PaymentWith, Allocated
  <2>3. \A j \in Invoices : split[j] \in Int
    OBVIOUS
  <2>4. SumFunction(split) \in Int
    <3>1. IsFiniteSet(Invoices) /\ DOMAIN split = Invoices
      BY SalesAssumption DEF SalesAssumption
    <3> QED
      BY <2>3, <3>1, SumInt DEF SumFunction
  <2>5. /\ allocated' \in [Invoices -> Int] /\ allocations' \in [Invoices -> Nat]
        /\ received' \in [Customers -> Int]
    BY <2>2, <2>3, <2>4 DEF TypeOK
  <2>6. ASSUME NEW j \in Invoices
        PROVE  inv'[j] \in InvoiceRow
    <3> DEFINE due == LeftOver(inv[j].outstanding - split[j])
               payment == IF due = 0 THEN "paid" ELSE "partially_paid"
               paid == inv[j].paid + split[j]
    <3>1. inv[j] \in InvoiceRow
      BY DEF TypeOK
    <3>5. inv[j].outstanding \in Int /\ inv[j].paid \in Int /\ split[j] \in Int
      BY <2>3, <3>1 DEF InvoiceRow
    <3>2. paid \in Int /\ due \in Int
      BY <3>5, LeftOverOf
    <3>3. inv'[j] = IF split[j] = 0 THEN inv[j]
                    ELSE [inv[j] EXCEPT !.paid = paid, !.outstanding = due,
                                        !.payment_status = payment]
      BY <2>1 DEF PaymentWith, Allocated
    <3>4. payment \in {"none", "paid", "partially_paid", "credit", "cancelled"}
      OBVIOUS
    <3> HIDE DEF paid, due, payment
    <3> QED
      BY <3>1, <3>2, <3>3, <3>4 DEF InvoiceRow
  <2>7. inv' \in [Invoices -> InvoiceRow] /\ UNCHANGED <<ret, stock, manualStock, adjusted>>
    BY <2>1, <2>6 DEF PaymentWith, Allocated
  <2> QED
    BY <2>5, <2>7 DEF TypeOK
<1>6. ASSUME NEW c \in Customers, NEW amount \in Adjustments,
             CreateLedgerAdjustment(c, amount)
      PROVE  TypeOK'
  BY <1>6 DEF CreateLedgerAdjustment, TypeOK
<1>7. ASSUME NEW p \in Products, NEW level \in StockLevels, AdjustStock(p, level)
      PROVE  TypeOK'
  BY <1>7 DEF AdjustStock, TypeOK
<1>8. CASE UNCHANGED vars
  BY <1>8 DEF vars, TypeOK
<1> QED
  BY <1>1, <1>2, <1>3, <1>4, <1>5, <1>6, <1>7, <1>8 DEF Next

(***************************************************************************)
(* Type correctness: whatever is sold, returned, voided or paid, every row *)
(* keeps its declared type.                                                *)
(***************************************************************************)
THEOREM TypeCorrect == Spec => []TypeOK
<1>1. Init => TypeOK
  BY InitType
<1>2. TypeOK /\ [Next]_vars => TypeOK'
  BY NextType
<1> QED
  BY <1>1, <1>2, PTL DEF Spec
-----------------------------------------------------------------------------
(***************************************************************************)
(* The inductive invariant, invoice by invoice.  Amounts, Closed and       *)
(* Accounted are the checked invariants; WellFormed adds that an unused    *)
(* invoice row has no returns and that an issued invoice has a unit.       *)
(***************************************************************************)
Amounts(i) ==
  Live(i) =>
    /\ inv[i].outstanding \in 0..inv[i].total
    /\ IF inv[i].outstanding > 0
       THEN /\ inv[i].paid + inv[i].outstanding = inv[i].total
            /\ inv[i].payment_status = IF inv[i].paid = 0 THEN "credit" ELSE "partially_paid"
       ELSE /\ inv[i].paid >= inv[i].total - Tolerance
            /\ inv[i].payment_status = "paid"

Closed(i) ==
  inv[i].status = "cancelled" => /\ inv[i].outstanding = 0
                                 /\ LiveReturnsOf(i) = {}
                                 /\ \A p \in Products : inv[i].returned[p] = 0

Accounted(i) ==
  Live(i) => /\ \A p \in Products :
                  /\ inv[i].returned[p] = Cardinality(UnitsBack(i, p))
                  /\ inv[i].returned[p] <= inv[i].quantity[p]
             /\ inv[i].status = IF inv[i].returned = inv[i].quantity THEN "refunded"
                                ELSE IF LiveReturnsOf(i) # {} THEN "partial"
                                ELSE "paid"

WellFormed(i) ==
  /\ inv[i].status = "none" => LiveReturnsOf(i) = {}
  /\ inv[i].status # "none" => inv[i].quantity \in Carts

InvoiceOK(i) == Amounts(i) /\ Closed(i) /\ Accounted(i) /\ WellFormed(i)

IInv == /\ TypeOK
        /\ \A i \in Invoices : InvoiceOK(i)
        /\ \A r \in Returns : LiveReturn(r) => ret[r].quantity \in Carts

(***************************************************************************)
(* The checked invariants follow from the inductive one.                   *)
(***************************************************************************)
LEMMA IInvImplies ==
  IInv => AmountsAgree /\ CancelledIsClosed /\ ReturnsAccountedFor
BY DEF IInv, InvoiceOK, Amounts, Closed, Accounted,
       AmountsAgree, CancelledIsClosed, ReturnsAccountedFor

(***************************************************************************)
(* Adding the n units of a return that was not counted yet adds n.         *)
(***************************************************************************)
LEMMA AddUnits ==
  ASSUME NEW units, IsFiniteSet(units), NEW r, NEW n \in Nat,
         \A u \in units : u[1] # r
  PROVE  Cardinality(units \cup ({r} \X (1..n))) = Cardinality(units) + n
<1> DEFINE added == {r} \X (1..n)
<1>1. IsFiniteSet({r}) /\ Cardinality({r}) = 1
  BY FS_Singleton
<1>2. IsFiniteSet(1..n) /\ Cardinality(1..n) = n
  BY FS_Interval
<1>3. IsFiniteSet(added) /\ Cardinality(added) = n
  <2>1. /\ IsFiniteSet(added)
        /\ Cardinality(added) = Cardinality({r}) * Cardinality(1..n)
    BY <1>1, <1>2, FS_Product
  <2> QED
    BY ONLY <1>1, <1>2, <2>1, n \in Nat
<1>4. units \cap added = {}
  OBVIOUS
<1>5. Cardinality(units \cap added) = 0
  BY <1>4, FS_EmptySet
<1>6. Cardinality(units) \in Nat
  BY FS_CardinalityType
<1> HIDE DEF added
<1>7. Cardinality(units \cup added)
        = Cardinality(units) + Cardinality(added) - Cardinality(units \cap added)
  BY <1>3, FS_Union
<1>8. Cardinality(units \cup added) = Cardinality(units) + n
  BY <1>3, <1>5, <1>6, <1>7
<1> QED
  BY <1>8 DEF added

(***************************************************************************)
(* The units that came back are finitely many, so they can be counted.     *)
(***************************************************************************)
LEMMA UnitsFinite ==
  ASSUME NEW i, NEW p
  PROVE  IsFiniteSet(UnitsBack(i, p)) /\ Cardinality(UnitsBack(i, p)) \in Nat
<1>1. IsFiniteSet(Returns \X (1..MaxQty))
  <2>1. IsFiniteSet(Returns)
    BY SalesAssumption DEF SalesAssumption
  <2>2. IsFiniteSet(1..MaxQty)
    BY FS_Interval, Bounds
  <2> QED
    BY <2>1, <2>2, FS_Product
<1>2. IsFiniteSet(UnitsBack(i, p))
  BY <1>1, FS_Subset DEF UnitsBack
<1> QED
  BY <1>2, FS_CardinalityType

(***************************************************************************)
(* Without a standing return no unit is back.                              *)
(***************************************************************************)
LEMMA NoUnits ==
  ASSUME NEW i, NEW p, LiveReturnsOf(i) = {}
  PROVE  Cardinality(UnitsBack(i, p)) = 0
<1>1. UnitsBack(i, p) = {}
  BY DEF UnitsBack
<1> QED
  BY <1>1, FS_EmptySet

(***************************************************************************)
(* An invoice whose row and standing returns a step leaves alone stays OK. *)
(***************************************************************************)
LEMMA Frame ==
  ASSUME NEW j \in Invoices, InvoiceOK(j), inv'[j] = inv[j],
         LiveReturnsOf(j)' = LiveReturnsOf(j),
         \A r \in LiveReturnsOf(j) : ret'[r].quantity = ret[r].quantity
  PROVE  InvoiceOK(j)'
<1>1. \A p \in Products : UnitsBack(j, p)' = UnitsBack(j, p)
  BY DEF UnitsBack
<1> QED
  BY <1>1 DEF InvoiceOK, Amounts, Closed, Accounted, WellFormed, Live

(***************************************************************************)
(* The columns of the row the return paths write, one by one.              *)
(***************************************************************************)
LEMMA RebalancedFields ==
  ASSUME NEW i \in Invoices, inv[i] \in InvoiceRow, NEW outstanding,
         NEW changed, NEW returned, NEW status
  PROVE  LET row == Rebalanced(i, outstanding, changed, returned, status)
             paid == IF changed THEN inv[i].total - outstanding ELSE inv[i].paid
         IN /\ row.status = status /\ row.outstanding = outstanding
            /\ row.returned = returned /\ row.paid = paid
            /\ row.total = inv[i].total /\ row.quantity = inv[i].quantity
            /\ row.payment_status =
                 IF changed THEN DerivePaymentStatus(paid, inv[i].total)
                 ELSE inv[i].payment_status
BY DEF Rebalanced, InvoiceRow

(***************************************************************************)
(* Whatever a return path makes the outstanding amount, as long as it lies *)
(* within the total, the other money columns follow it.                    *)
(***************************************************************************)
LEMMA RebalancedAmounts ==
  ASSUME NEW i \in Invoices, TypeOK, Live(i), Amounts(i), NEW changed \in BOOLEAN,
         NEW outstanding \in 0..inv[i].total,
         changed \/ outstanding = inv[i].outstanding, NEW returned,
         NEW status \in {"paid", "partial", "refunded"},
         inv'[i] = Rebalanced(i, outstanding, changed, returned, status)
  PROVE  Amounts(i)'
<1>1. inv[i] \in InvoiceRow
  BY DEF TypeOK
<1>2. inv[i].total \in Int /\ inv[i].paid \in Int
  BY <1>1, MoneyInt DEF InvoiceRow
<1> QED
  BY <1>1, <1>2, RebalancedFields DEF Amounts, Live, DerivePaymentStatus, Tolerance

(***************************************************************************)
(* The empty tables satisfy the inductive invariant.                       *)
(***************************************************************************)
LEMMA InitIInv == Init => IInv
<1> SUFFICES ASSUME Init PROVE IInv
  OBVIOUS
<1>1. TypeOK
  BY InitType
<1>2. /\ \A i \in Invoices : inv[i].status = "none"
      /\ \A r \in Returns : ret[r].status = "none"
  BY DEF Init, NoInvoice, NoReturn
<1>3. \A i \in Invoices : LiveReturnsOf(i) = {}
  BY <1>2 DEF LiveReturnsOf, LiveReturn
<1> QED
  BY <1>1, <1>2, <1>3
     DEF IInv, InvoiceOK, Amounts, Closed, Accounted, WellFormed, Live, LiveReturn

(***************************************************************************)
(* Every service function preserves the inductive invariant.               *)
(***************************************************************************)
LEMMA NextIInv ==
  ASSUME IInv, [Next]_vars
  PROVE  IInv'
<1> TypeOK /\ TypeOK'
  BY NextType DEF IInv
<1> SUFFICES /\ \A j \in Invoices : InvoiceOK(j)'
             /\ \A s \in Returns : LiveReturn(s)' => ret'[s].quantity \in Carts
  BY DEF IInv
<1>rows. \A j \in Invoices : /\ inv[j] \in InvoiceRow /\ InvoiceOK(j)
                             /\ inv[j].total \in Int /\ inv[j].total >= 0
                             /\ inv[j].paid \in Int /\ inv[j].outstanding \in Int
  BY MoneyInt DEF IInv, TypeOK, InvoiceRow
<1>1. ASSUME NEW i \in Invoices, NEW c \in Customers \cup {NoCustomer},
             NEW cart \in Carts, NEW onCredit \in BOOLEAN,
             NEW isManager \in BOOLEAN, NEW paidNow \in Money,
             CreateInvoice(i, c, cart, onCredit, paidNow, isManager)
      PROVE  /\ \A j \in Invoices : InvoiceOK(j)'
             /\ \A s \in Returns : LiveReturn(s)' => ret'[s].quantity \in Carts
  <2> DEFINE total == Value(cart)
             paid == IF onCredit THEN paidNow ELSE total
  <2>1. /\ inv[i].status = "none" /\ ret' = ret /\ total \in Money
        /\ onCredit => paidNow <= total
    BY <1>1 DEF CreateInvoice
  <2>2. /\ inv'[i].status = "paid"
        /\ inv'[i].payment_status = IF onCredit THEN DerivePaymentStatus(paid, total)
                                    ELSE "paid"
        /\ inv'[i].total = total /\ inv'[i].paid = paid
        /\ inv'[i].outstanding = total - paid
        /\ inv'[i].quantity = cart /\ inv'[i].returned = [p \in Products |-> 0]
        /\ \A j \in Invoices \ {i} : inv'[j] = inv[j]
    BY <1>1 DEF CreateInvoice, TypeOK
  <2>3. \A j : LiveReturnsOf(j)' = LiveReturnsOf(j)
    BY <2>1 DEF LiveReturnsOf, LiveReturn
  <2>4. \A j \in Invoices \ {i} : InvoiceOK(j)'
    BY <2>1, <2>2, <2>3, <1>rows, Frame
  <2>5. total \in Int /\ total >= 0 /\ paidNow \in Int /\ paidNow >= 0
    BY <2>1, MoneyInt
  <2> HIDE DEF total
  <2>6. Amounts(i)'
    BY <2>1, <2>2, <2>5 DEF Amounts, Live, DerivePaymentStatus, Tolerance
  <2>7. LiveReturnsOf(i) = {}
    BY <2>1, <1>rows DEF InvoiceOK, WellFormed
  <2>8. \A p \in Products : Cardinality(UnitsBack(i, p))' = 0
    BY <2>1, <2>3, <2>7, NoUnits DEF UnitsBack
  <2>9. cart # [p \in Products |-> 0]
    BY DEF Carts
  <2>10. \A p \in Products : cart[p] >= 0
    BY QuantityFunctions DEF Quantities
  <2>11. Accounted(i)'
    BY <2>2, <2>3, <2>7, <2>8, <2>9, <2>10 DEF Accounted
  <2>12. Closed(i)' /\ WellFormed(i)'
    BY <2>2 DEF Closed, WellFormed
  <2> QED
    BY <2>1, <2>4, <2>6, <2>11, <2>12 DEF InvoiceOK, IInv, LiveReturn
<1>2. ASSUME NEW i \in Invoices, VoidInvoice(i)
      PROVE  /\ \A j \in Invoices : InvoiceOK(j)'
             /\ \A s \in Returns : LiveReturn(s)' => ret'[s].quantity \in Carts
  <2>1. ret' = ret /\ Live(i) /\ inv[i].status \notin {"partial", "refunded"}
    BY <1>2 DEF VoidInvoice, Voidable
  <2>2. /\ inv'[i].status = "cancelled" /\ inv'[i].outstanding = 0
        /\ inv'[i].returned = inv[i].returned /\ inv'[i].quantity = inv[i].quantity
        /\ \A j \in Invoices \ {i} : inv'[j] = inv[j]
    BY <1>2, <1>rows DEF VoidInvoice, TypeOK, InvoiceRow
  <2>3. \A j : LiveReturnsOf(j)' = LiveReturnsOf(j)
    BY <2>1 DEF LiveReturnsOf, LiveReturn
  <2>4. \A j \in Invoices \ {i} : InvoiceOK(j)'
    BY <2>1, <2>2, <2>3, <1>rows, Frame
  <2>5. LiveReturnsOf(i) = {}
    BY <2>1, <1>rows DEF InvoiceOK, Accounted, Live
  <2>6. \A p \in Products : inv[i].returned[p] = 0
    BY <2>1, <2>5, <1>rows, NoUnits DEF InvoiceOK, Accounted
  <2>7. InvoiceOK(i)'
    BY <2>1, <2>2, <2>3, <2>5, <2>6, <1>rows
       DEF InvoiceOK, Amounts, Closed, Accounted, WellFormed, Live
  <2> QED
    BY <2>1, <2>4, <2>7 DEF IInv, LiveReturn
<1>3. ASSUME NEW r \in Returns, NEW i \in Invoices, NEW request \in Carts,
             NEW restocked \in SUBSET Products,
             CreateReturn(r, i, request, restocked)
      PROVE  /\ \A j \in Invoices : InvoiceOK(j)'
             /\ \A s \in Returns : LiveReturn(s)' => ret'[s].quantity \in Carts
  <2> DEFINE refund == Value(request)
             credit == Least(refund, inv[i].outstanding)
             returned == [p \in Products |-> inv[i].returned[p] + request[p]]
             full == FullyReturned(i, returned)
             status == IF full THEN "refunded" ELSE "partial"
  <2>1. /\ ret[r].status = "none" /\ Live(i) /\ refund \in Money
        /\ \A p \in Products : request[p] <= Remaining(i, p)
    BY <1>3 DEF CreateReturn
  <2>2. /\ inv'[i] = Rebalanced(i, inv[i].outstanding - credit, credit > 0,
                                returned, status)
        /\ \A j \in Invoices \ {i} : inv'[j] = inv[j]
    BY <1>3 DEF CreateReturn, TypeOK
  <2>3. /\ ret'[r].status \in {"partially_refunded", "fully_refunded"}
        /\ ret'[r].invoice = i /\ ret'[r].quantity = request
        /\ \A s \in Returns \ {r} : ret'[s] = ret[s]
    BY <1>3 DEF CreateReturn, TypeOK
  <2>4. /\ r \notin LiveReturnsOf(i)
        /\ LiveReturnsOf(i)' = LiveReturnsOf(i) \cup {r}
        /\ \A j \in Invoices \ {i} : LiveReturnsOf(j)' = LiveReturnsOf(j)
    BY <2>1, <2>3 DEF LiveReturnsOf, LiveReturn
  <2>5. \A s \in Returns : LiveReturn(s)' => ret'[s].quantity \in Carts
    BY <2>3 DEF IInv, LiveReturn
  <2>6. \A j \in Invoices \ {i} : InvoiceOK(j)'
    <3>1. \A j \in Invoices \ {i} : \A s \in LiveReturnsOf(j) : ret'[s] = ret[s]
      BY <2>1, <2>3 DEF LiveReturnsOf, LiveReturn
    <3> QED
      BY <2>2, <2>4, <3>1, <1>rows, Frame
  <2>7. /\ request \in Quantities /\ inv[i].quantity \in Quantities
        /\ inv[i].returned \in Quantities
    BY <1>rows, QuantityFunctions DEF InvoiceRow
  <2>8. inv[i].outstanding - credit \in 0..inv[i].total
        /\ (credit > 0 \/ inv[i].outstanding - credit = inv[i].outstanding)
    <3>1. refund \in Int /\ refund >= 0
      BY <2>1, MoneyInt
    <3>2. inv[i].outstanding \in 0..inv[i].total
      BY <2>1, <1>rows DEF InvoiceOK, Amounts
    <3> HIDE DEF refund
    <3> QED
      BY <3>1, <3>2, <1>rows DEF Least
  <2>9. status \in {"paid", "partial", "refunded"} /\ (credit > 0) \in BOOLEAN
    OBVIOUS
  <2> HIDE DEF credit, refund
  <2>10. Amounts(i)'
    <3> HIDE DEF returned, status
    <3> QED
      BY <2>1, <2>2, <2>8, <2>9, <1>rows, RebalancedAmounts DEF InvoiceOK
  <2>11. /\ inv'[i].status = status /\ inv'[i].returned = returned
         /\ inv'[i].quantity = inv[i].quantity
    <3> HIDE DEF returned, status
    <3> QED
      BY <2>2, <1>rows, RebalancedFields
  <2>12. ASSUME NEW p \in Products
         PROVE  /\ returned[p] = Cardinality(UnitsBack(i, p))'
                /\ returned[p] <= inv[i].quantity[p]
    <3>1. request[p] \in Nat /\ request[p] \in 0..MaxQty
      BY <2>7, Bounds DEF Quantities
    <3>2. UnitsBack(i, p)' = UnitsBack(i, p) \cup ({r} \X (1..request[p]))
      BY <2>3, <2>4, <3>1, Bounds DEF UnitsBack
    <3>3. \A u \in UnitsBack(i, p) : u[1] # r
      BY <2>4 DEF UnitsBack
    <3>4. Cardinality(UnitsBack(i, p))'
            = Cardinality(UnitsBack(i, p)) + request[p]
      <4>1. Cardinality(UnitsBack(i, p) \cup ({r} \X (1..request[p])))
              = Cardinality(UnitsBack(i, p)) + request[p]
        BY <3>1, <3>3, UnitsFinite, AddUnits
      <4> QED
        BY <4>1, <3>2
    <3>5. inv[i].returned[p] = Cardinality(UnitsBack(i, p))
      BY <2>1, <1>rows DEF InvoiceOK, Accounted
    <3>6. request[p] <= inv[i].quantity[p] - inv[i].returned[p]
      BY <2>1 DEF Remaining
    <3> QED
      BY <3>1, <3>4, <3>5, <3>6, <2>7 DEF Quantities
  <2>13. full <=> returned = inv[i].quantity
    BY <2>7, <2>12 DEF FullyReturned, Quantities
  <2>14. Accounted(i)'
    <3> HIDE DEF returned, full
    <3> QED
      BY <2>4, <2>11, <2>12, <2>13 DEF Accounted
  <2>15. Closed(i)' /\ WellFormed(i)'
    BY <2>1, <2>9, <2>11, <1>rows DEF InvoiceOK, Closed, WellFormed, Live
  <2> QED
    BY <2>5, <2>6, <2>10, <2>14, <2>15 DEF InvoiceOK
<1>4. ASSUME NEW r \in Returns, CancelReturn(r)
      PROVE  /\ \A j \in Invoices : InvoiceOK(j)'
             /\ \A s \in Returns : LiveReturn(s)' => ret'[s].quantity \in Carts
  <2>0. PICK i \in Invoices : i = ret[r].invoice
    BY DEF TypeOK, ReturnRow
  <2> DEFINE room == inv[i].total - inv[i].outstanding
             credit == IF Least(ret[r].refund, room) > 0
                       THEN Least(ret[r].refund, room) ELSE 0
             left(p) == inv[i].returned[p] - ret[r].quantity[p]
             returned == [p \in Products |-> IF left(p) > 0 THEN left(p) ELSE 0]
             full == FullyReturned(i, returned)
             status == IF full THEN "refunded"
                       ELSE IF \E p \in Products : returned[p] > 0 THEN "partial"
                       ELSE "paid"
  <2>1. LiveReturn(r) /\ r \in LiveReturnsOf(i)
    BY <1>4, <2>0 DEF CancelReturn, LiveReturnsOf
  <2>2. Live(i)
    BY <2>1, <1>rows DEF InvoiceOK, Closed, WellFormed, Live
  <2>3. /\ inv'[i] = Rebalanced(i, inv[i].outstanding + credit, credit > 0,
                                returned, status)
        /\ \A j \in Invoices \ {i} : inv'[j] = inv[j]
    BY <1>4, <2>0 DEF CancelReturn, TypeOK
  <2>4. /\ ret'[r].status = "cancelled"
        /\ \A s \in Returns : /\ ret'[s].quantity = ret[s].quantity
                              /\ ret'[s].invoice = ret[s].invoice
        /\ \A s \in Returns \ {r} : ret'[s] = ret[s]
    BY <1>4 DEF CancelReturn, TypeOK, ReturnRow
  <2>5. /\ LiveReturnsOf(i)' = LiveReturnsOf(i) \ {r}
        /\ \A j \in Invoices \ {i} : LiveReturnsOf(j)' = LiveReturnsOf(j)
    BY <2>0, <2>4 DEF LiveReturnsOf, LiveReturn
  <2>6. \A s \in Returns : LiveReturn(s)' => ret'[s].quantity \in Carts
    BY <2>4 DEF IInv, LiveReturn
  <2>7. \A j \in Invoices \ {i} : InvoiceOK(j)'
    <3>1. \A j \in Invoices : \A s \in LiveReturnsOf(j) :
            ret'[s].quantity = ret[s].quantity
      BY <2>4 DEF LiveReturnsOf
    <3> QED
      BY <2>3, <2>5, <3>1, <1>rows, Frame
  <2>8. /\ ret[r].quantity \in Quantities /\ inv[i].quantity \in Quantities
        /\ inv[i].returned \in Quantities /\ ret[r].refund \in Int
        /\ ret[r].refund >= 0
    BY <2>1, <1>rows, MoneyInt DEF InvoiceRow, TypeOK, ReturnRow
  <2>9. inv[i].outstanding + credit \in 0..inv[i].total
        /\ (credit > 0 \/ inv[i].outstanding + credit = inv[i].outstanding)
    <3>1. inv[i].outstanding \in 0..inv[i].total
      BY <2>1, <2>2, <1>rows DEF InvoiceOK, Amounts
    <3> QED
      BY <3>1, <2>1, <2>8, <1>rows DEF Least
  <2>10. status \in {"paid", "partial", "refunded"} /\ (credit > 0) \in BOOLEAN
    OBVIOUS
  <2> HIDE DEF credit
  <2>11. Amounts(i)'
    <3> HIDE DEF returned, status
    <3> QED
      BY <2>1, <2>2, <2>3, <2>9, <2>10, <1>rows, RebalancedAmounts DEF InvoiceOK
  <2>12. /\ inv'[i].status = status /\ inv'[i].returned = returned
         /\ inv'[i].quantity = inv[i].quantity
    <3> HIDE DEF returned, status
    <3> QED
      BY <2>1, <2>3, <1>rows, RebalancedFields
  <2>13. ASSUME NEW p \in Products
         PROVE  /\ returned[p] = Cardinality(UnitsBack(i, p))'
                /\ returned[p] <= inv[i].quantity[p]
                /\ IsFiniteSet(UnitsBack(i, p)')
    <3>1. ret[r].quantity[p] \in Nat /\ ret[r].quantity[p] \in 0..MaxQty
      BY <2>8, Bounds DEF Quantities
    <3>2. UnitsBack(i, p) = UnitsBack(i, p)' \cup ({r} \X (1..ret[r].quantity[p]))
      BY <2>1, <2>4, <2>5, <3>1, Bounds DEF UnitsBack
    <3>3. \A u \in UnitsBack(i, p)' : u[1] # r
      BY <2>5 DEF UnitsBack
    <3>4. IsFiniteSet(UnitsBack(i, p)') /\ Cardinality(UnitsBack(i, p)') \in Nat
      BY <3>2, UnitsFinite, FS_Subset, FS_CardinalityType
    <3>5. Cardinality(UnitsBack(i, p))
            = Cardinality(UnitsBack(i, p)') + ret[r].quantity[p]
      <4>1. Cardinality(UnitsBack(i, p)' \cup ({r} \X (1..ret[r].quantity[p])))
              = Cardinality(UnitsBack(i, p)') + ret[r].quantity[p]
        BY <3>1, <3>3, <3>4, AddUnits
      <4> QED
        BY <4>1, <3>2
    <3>6. /\ inv[i].returned[p] = Cardinality(UnitsBack(i, p))
          /\ inv[i].returned[p] <= inv[i].quantity[p]
      BY <2>1, <2>2, <1>rows DEF InvoiceOK, Accounted
    <3>7. left(p) = Cardinality(UnitsBack(i, p)')
      BY <3>1, <3>4, <3>5, <3>6
    <3>8. inv[i].quantity[p] \in Int
      BY <2>8 DEF Quantities
    <3> QED
      BY <3>1, <3>4, <3>5, <3>6, <3>7, <3>8
  <2>14. full <=> returned = inv[i].quantity
    BY <2>8, <2>13 DEF FullyReturned, Quantities
  <2>15. (\E p \in Products : returned[p] > 0) <=> LiveReturnsOf(i)' # {}
    <3>1. ASSUME LiveReturnsOf(i)' = {}, NEW p \in Products
          PROVE  returned[p] = 0
      <4>1. UnitsBack(i, p)' = {}
        BY <3>1 DEF UnitsBack
      <4> QED
        BY <4>1, <2>13, FS_EmptySet
    <3>2. ASSUME NEW s \in LiveReturnsOf(i)'
          PROVE  \E p \in Products : returned[p] > 0
      <4>1. s \in Returns /\ LiveReturn(s)'
        BY <3>2 DEF LiveReturnsOf
      <4>2. PICK p \in Products : ret'[s].quantity[p] > 0
        BY <4>1, <2>6, QuantityFunctions
      <4>3. ret'[s].quantity[p] \in 0..MaxQty
        BY <4>1 DEF TypeOK, ReturnRow, Quantities
      <4>4. <<s, 1>> \in UnitsBack(i, p)'
        BY <4>1, <4>2, <4>3, Bounds DEF UnitsBack
      <4>5. Cardinality(UnitsBack(i, p)') \in Nat /\ Cardinality(UnitsBack(i, p)') # 0
        BY <4>4, <2>13, FS_EmptySet, FS_CardinalityType
      <4> QED
        BY <4>5, <2>13
    <3> QED
      BY <3>1, <3>2
  <2>16. Accounted(i)'
    <3> HIDE DEF returned, full
    <3> QED
      BY <2>12, <2>13, <2>14, <2>15 DEF Accounted
  <2>17. Closed(i)' /\ WellFormed(i)'
    BY <2>1, <2>2, <2>10, <2>12, <1>rows DEF InvoiceOK, Closed, WellFormed, Live
  <2> QED
    BY <2>6, <2>7, <2>11, <2>16, <2>17 DEF InvoiceOK
<1>5. ASSUME NEW c \in Customers, NEW split \in [Invoices -> Money], CreatePayment(c, split)
      PROVE  /\ \A j \in Invoices : InvoiceOK(j)'
             /\ \A s \in Returns : LiveReturn(s)' => ret'[s].quantity \in Carts
  <2>0. PICK times, rest : PaymentWith(c, split, times, rest)
    BY <1>5, PaymentEffects
  <2>1. ret' = ret
    BY <2>0 DEF PaymentWith, Allocated
  <2>2. \A j : LiveReturnsOf(j)' = LiveReturnsOf(j)
    BY <2>1 DEF LiveReturnsOf, LiveReturn
  <2>3. ASSUME NEW j \in Invoices
        PROVE  InvoiceOK(j)'
    <3> DEFINE due == LeftOver(inv[j].outstanding - split[j])
               payment == IF due = 0 THEN "paid" ELSE "partially_paid"
    <3>1. inv'[j] = IF split[j] = 0 THEN inv[j]
                    ELSE [inv[j] EXCEPT !.paid = inv[j].paid + split[j],
                                        !.outstanding = due, !.payment_status = payment]
      BY <2>0 DEF PaymentWith, Allocated
    <3>2. split[j] \in Nat /\ (split[j] > 0 => inv[j].status # "none")
      BY <2>0 DEF PaymentWith
    <3>3. CASE split[j] = 0
      BY <2>1, <2>2, <3>1, <3>3, <1>rows, Frame
    <3>4. CASE split[j] # 0
      <4>1. inv[j].status # "none"
        BY <3>2, <3>4
      <4>2. due \in Int
        BY <3>2, <1>rows DEF LeftOver
      <4>3. /\ inv'[j].status = inv[j].status
            /\ inv'[j].paid = inv[j].paid + split[j]
            /\ inv'[j].outstanding = due /\ inv'[j].payment_status = payment
            /\ inv'[j].total = inv[j].total
            /\ inv'[j].quantity = inv[j].quantity
            /\ inv'[j].returned = inv[j].returned
        <5> HIDE DEF due, payment
        <5> QED
          BY <3>1, <3>4, <1>rows DEF InvoiceRow
      <4>4. ASSUME Live(j) PROVE Amounts(j)'
        BY <4>3, <4>4, <3>2, <3>4, <1>rows
           DEF InvoiceOK, Amounts, LeftOver, Tolerance
      <4>5. \A p \in Products : UnitsBack(j, p)' = UnitsBack(j, p)
        BY <2>1, <2>2 DEF UnitsBack
      <4>6. Amounts(j)' /\ Accounted(j)'
        BY <4>3, <4>4, <4>5, <2>2, <1>rows DEF InvoiceOK, Amounts, Accounted, Live
      <4>7. inv[j].outstanding = 0 => due = 0
        BY <3>2 DEF LeftOver, Tolerance
      <4>8. Closed(j)' /\ WellFormed(j)'
        <5> HIDE DEF due, payment
        <5> QED
          BY <4>1, <4>3, <4>7, <2>2, <1>rows DEF InvoiceOK, Closed, WellFormed
      <4> QED
        BY <4>6, <4>8 DEF InvoiceOK
    <3> QED
      BY <3>3, <3>4
  <2> QED
    BY <2>1, <2>3 DEF IInv, LiveReturn
<1>6. ASSUME \/ \E c \in Customers, amount \in Adjustments :
                  CreateLedgerAdjustment(c, amount)
             \/ \E p \in Products, level \in StockLevels : AdjustStock(p, level)
             \/ UNCHANGED vars
      PROVE  /\ \A j \in Invoices : InvoiceOK(j)'
             /\ \A s \in Returns : LiveReturn(s)' => ret'[s].quantity \in Carts
  <2>1. inv' = inv /\ ret' = ret
    BY <1>6 DEF CreateLedgerAdjustment, AdjustStock, vars
  <2>2. \A j : LiveReturnsOf(j)' = LiveReturnsOf(j)
    BY <2>1 DEF LiveReturnsOf, LiveReturn
  <2> QED
    BY <2>1, <2>2, <1>rows, Frame DEF IInv, LiveReturn
<1> QED
  BY <1>1, <1>2, <1>3, <1>4, <1>5, <1>6 DEF Next

(***************************************************************************)
(* In every reachable state, whatever the sequence of sales, returns,      *)
(* cancellations and payments, a cancelled invoice is closed and returned  *)
(* quantities match the standing returns.                                  *)
(***************************************************************************)
THEOREM InvoicesConsistent ==
  Spec => [](CancelledIsClosed /\ ReturnsAccountedFor)
<1>1. Init => IInv
  BY InitIInv
<1>2. IInv /\ [Next]_vars => IInv'
  BY NextIInv
<1>3. IInv => CancelledIsClosed /\ ReturnsAccountedFor
  BY IInvImplies
<1> QED
  BY <1>1, <1>2, <1>3, PTL DEF Spec

(***************************************************************************)
(* The amounts of every invoice that is not voided agree, whatever was     *)
(* paid, returned or taken back, and however often a request names an      *)
(* invoice: what is outstanding is what was not paid, and what is settled  *)
(* is short of its total by the tolerance at most.                         *)
(***************************************************************************)
THEOREM AmountsConsistent == Spec => []AmountsAgree
<1>1. Init => IInv
  BY InitIInv
<1>2. IInv /\ [Next]_vars => IInv'
  BY NextIInv
<1>3. IInv => AmountsAgree
  BY IInvImplies
<1> QED
  BY <1>1, <1>2, <1>3, PTL DEF Spec

(***************************************************************************)
(* No service function but create_payment writes the row of a cancelled    *)
(* invoice, and that one adds no more to what was paid than the tolerance  *)
(* lets it.                                                                *)
(***************************************************************************)
LEMMA CancelledStays ==
  ASSUME IInv, [Next]_vars, NEW i \in Invoices, inv[i].status = "cancelled"
  PROVE  LET given == allocated'[i] - allocated[i]
         IN /\ inv'[i] = IF given = 0 THEN inv[i]
                         ELSE [inv[i] EXCEPT !.paid = @ + given, !.payment_status = "paid"]
            /\ given <= Tolerance * (allocations'[i] - allocations[i])
<1> DEFINE given == allocated'[i] - allocated[i]
           Goal == /\ inv'[i] = IF given = 0 THEN inv[i]
                                ELSE [inv[i] EXCEPT !.paid = @ + given, !.payment_status = "paid"]
                   /\ given <= Tolerance * (allocations'[i] - allocations[i])
<1>1. TypeOK /\ ~Live(i) /\ LiveReturnsOf(i) = {} /\ inv[i].outstanding = 0
  BY DEF IInv, InvoiceOK, Closed, Live
<1>2. inv[i] \in InvoiceRow /\ allocated[i] \in Int /\ allocations[i] \in Int
  BY <1>1 DEF TypeOK
<1>3. ASSUME inv'[i] = inv[i], allocated'[i] = allocated[i], allocations'[i] = allocations[i]
      PROVE  Goal
  BY <1>2, <1>3 DEF Tolerance
<1>4. ASSUME NEW j \in Invoices, NEW c \in Customers \cup {NoCustomer},
             NEW cart \in Carts, NEW onCredit \in BOOLEAN,
             NEW isManager \in BOOLEAN, NEW paidNow \in Money,
             CreateInvoice(j, c, cart, onCredit, paidNow, isManager)
      PROVE  Goal
  <2>1. j # i
    BY <1>4 DEF CreateInvoice
  <2>2. /\ inv'[i] = inv[i] /\ allocated'[i] = allocated[i]
        /\ allocations'[i] = allocations[i]
    BY <1>1, <1>4, <2>1 DEF CreateInvoice, TypeOK
  <2> QED
    BY <1>3, <2>2
<1>5. ASSUME NEW j \in Invoices, VoidInvoice(j)
      PROVE  Goal
  <2>1. inv'[i] = inv[i] /\ UNCHANGED <<allocated, allocations>>
    BY <1>1, <1>5 DEF VoidInvoice, Voidable, TypeOK
  <2> QED
    BY <1>3, <2>1
<1>6. ASSUME NEW r \in Returns, NEW j \in Invoices, NEW request \in Carts,
             NEW restocked \in SUBSET Products,
             CreateReturn(r, j, request, restocked)
      PROVE  Goal
  <2>1. inv'[i] = inv[i] /\ UNCHANGED <<allocated, allocations>>
    BY <1>1, <1>6 DEF CreateReturn, TypeOK
  <2> QED
    BY <1>3, <2>1
<1>7. ASSUME NEW r \in Returns, CancelReturn(r)
      PROVE  Goal
  <2>1. ret[r].invoice # i
    BY <1>1, <1>7 DEF CancelReturn, LiveReturnsOf
  <2>2. inv'[i] = inv[i] /\ UNCHANGED <<allocated, allocations>>
    BY <1>1, <1>7, <2>1 DEF CancelReturn, TypeOK
  <2> QED
    BY <1>3, <2>2
<1>8. ASSUME NEW c \in Customers, NEW split \in [Invoices -> Money], CreatePayment(c, split)
      PROVE  Goal
  <2>0. PICK times, rest : PaymentWith(c, split, times, rest)
    BY <1>1, <1>8, PaymentEffects
  <2>1. /\ allocated' = [j \in Invoices |-> allocated[j] + split[j]]
        /\ allocations' = [j \in Invoices |-> allocations[j] + times[j]]
        /\ split[i] \in Nat /\ times[i] \in Nat
        /\ inv[i].outstanding = 0 => split[i] <= times[i]
    BY <2>0 DEF PaymentWith, Allocated
  <2>2. split[i] \in Nat /\ times[i] \in Nat /\ given = split[i] /\ split[i] <= times[i]
        /\ allocations'[i] - allocations[i] = times[i]
    BY <1>1, <1>2, <2>1
  <2>3. given <= Tolerance * (allocations'[i] - allocations[i])
    BY <2>2 DEF Tolerance
  <2>4. LeftOver(inv[i].outstanding - split[i]) = 0
    BY <1>1, <2>2 DEF LeftOver, Tolerance
  <2>5. inv'[i] = IF split[i] = 0 THEN inv[i]
                  ELSE [inv[i] EXCEPT !.paid = @ + split[i], !.outstanding = 0,
                                      !.payment_status = "paid"]
    BY <1>1, <2>0, <2>4 DEF PaymentWith, Allocated
  <2>6. inv'[i] = IF split[i] = 0 THEN inv[i]
                  ELSE [inv[i] EXCEPT !.paid = @ + split[i], !.payment_status = "paid"]
    BY <1>1, <1>2, <2>5 DEF InvoiceRow
  <2> QED
    BY <2>2, <2>3, <2>6
<1>9. ASSUME \/ \E c \in Customers, amount \in Adjustments :
                  CreateLedgerAdjustment(c, amount)
             \/ \E p \in Products, level \in StockLevels : AdjustStock(p, level)
             \/ UNCHANGED vars
      PROVE  Goal
  <2>1. inv' = inv /\ UNCHANGED <<allocated, allocations>>
    BY <1>9 DEF CreateLedgerAdjustment, AdjustStock, vars
  <2> QED
    BY <1>3, <2>1
<1> QED
  BY <1>4, <1>5, <1>6, <1>7, <1>8, <1>9 DEF Next

(***************************************************************************)
(* A cancelled invoice stays closed: although cancel_return and            *)
(* create_payment do not look at its status, the first never writes its    *)
(* row and the second only counts what the tolerance lets through as paid. *)
(***************************************************************************)
THEOREM CancellationIsFinal == Spec => CancelledIsFinal
<1>1. Init => IInv
  BY InitIInv
<1>2. IInv /\ [Next]_vars => IInv'
  BY NextIInv
<1>3. IInv /\ [Next]_vars
        => [\A i \in Invoices : inv[i].status = "cancelled" =>
              LET given == allocated'[i] - allocated[i]
              IN /\ inv'[i] = IF given = 0 THEN inv[i]
                              ELSE [inv[i] EXCEPT !.paid = @ + given, !.payment_status = "paid"]
                 /\ given <= Tolerance * (allocations'[i] - allocations[i])]_vars
  BY CancelledStays
<1> QED
  BY <1>1, <1>2, <1>3, PTL DEF Spec, CancelledIsFinal
-----------------------------------------------------------------------------
(***************************************************************************)
(* What a sale and the two return paths leave in the rows they write.      *)
(***************************************************************************)
LEMMA SaleColumns ==
  ASSUME TypeOK, NEW i \in Invoices, NEW c \in Customers \cup {NoCustomer},
         NEW cart \in Carts, NEW onCredit \in BOOLEAN, NEW isManager \in BOOLEAN,
         NEW paidNow \in Money,
         CreateInvoice(i, c, cart, onCredit, paidNow, isManager)
  PROVE  /\ inv[i].status = "none" /\ ret' = ret
         /\ inv'[i].status = "paid" /\ inv'[i].customer = c /\ inv'[i].quantity = cart
         /\ \A j \in Invoices \ {i} : inv'[j] = inv[j]
         /\ \E paid \in Nat :
              /\ inv'[i].total - inv'[i].outstanding = paid
              /\ \A d \in Customers : received'[d] = IF d = c THEN received[d] + paid ELSE received[d]
              /\ \A j \in Invoices : allocated'[j] = IF j = i /\ c # NoCustomer
                                                    THEN allocated[j] + paid ELSE allocated[j]
              /\ \A j \in Invoices : j # i => allocations'[j] = allocations[j]
<1> DEFINE total == Value(cart)
           paid == IF onCredit THEN paidNow ELSE total
<1>1. /\ inv[i].status = "none" /\ ret' = ret /\ total \in Money
      /\ inv'[i].status = "paid" /\ inv'[i].customer = c /\ inv'[i].quantity = cart
      /\ inv'[i].total = total /\ inv'[i].outstanding = total - paid
      /\ \A j \in Invoices \ {i} : inv'[j] = inv[j]
  BY DEF CreateInvoice, TypeOK
<1>4. /\ c = NoCustomer \/ paid = 0 => UNCHANGED <<received, allocated, allocations>>
      /\ ~(c = NoCustomer \/ paid = 0) =>
           /\ received' = [received EXCEPT ![c] = @ + paid]
           /\ allocated' = [allocated EXCEPT ![i] = @ + paid]
           /\ allocations' = [allocations EXCEPT ![i] = @ + 1]
  BY DEF CreateInvoice
<1>5. NoCustomer \notin Customers /\ received \in [Customers -> Int]
      /\ allocated \in [Invoices -> Int] /\ allocations \in [Invoices -> Nat]
  BY SalesAssumption DEF SalesAssumption, TypeOK
<1>2. paid \in Nat /\ total \in Nat
  BY <1>1, MoneyInt
<1> HIDE DEF total, paid
<1>3. inv'[i].total - inv'[i].outstanding = paid
  BY <1>1, <1>2
<1>6. ASSUME NEW d \in Customers
      PROVE  received'[d] = IF d = c THEN received[d] + paid ELSE received[d]
  BY <1>2, <1>4, <1>5
<1>7. ASSUME NEW j \in Invoices
      PROVE  /\ allocated'[j] = IF j = i /\ c # NoCustomer THEN allocated[j] + paid
                                ELSE allocated[j]
             /\ j # i => allocations'[j] = allocations[j]
  BY <1>2, <1>4, <1>5
<1> QED
  BY <1>1, <1>2, <1>3, <1>6, <1>7

LEMMA ReturnColumns ==
  ASSUME TypeOK, NEW r \in Returns, NEW i \in Invoices, NEW request \in Carts,
         NEW restocked \in SUBSET Products, CreateReturn(r, i, request, restocked)
  PROVE  /\ Live(i) /\ ret[r].status = "none"
         /\ inv'[i].status \in {"refunded", "partial"}
         /\ inv'[i].quantity = inv[i].quantity /\ inv'[i].customer = inv[i].customer
         /\ inv'[i].total = inv[i].total
         /\ inv'[i].outstanding = inv[i].outstanding
                                    - Least(Value(request), inv[i].outstanding)
         /\ \A j \in Invoices \ {i} : inv'[j] = inv[j]
         /\ ret'[r].status \in {"partially_refunded", "fully_refunded"}
         /\ ret'[r].invoice = i /\ ret'[r].quantity = request
         /\ ret'[r].restocked = restocked /\ ret'[r].refund = Value(request)
         /\ Value(request) \in Money
         /\ \A s \in Returns \ {r} : ret'[s] = ret[s]
<1> DEFINE returned == [p \in Products |-> inv[i].returned[p] + request[p]]
           credit == Least(Value(request), inv[i].outstanding)
           status == IF FullyReturned(i, returned) THEN "refunded" ELSE "partial"
<1>1. /\ Live(i) /\ ret[r].status = "none" /\ Value(request) \in Money
      /\ inv'[i] = Rebalanced(i, inv[i].outstanding - credit, credit > 0, returned, status)
      /\ \A j \in Invoices \ {i} : inv'[j] = inv[j]
  BY DEF CreateReturn, TypeOK
<1>2. /\ ret'[r].status \in {"partially_refunded", "fully_refunded"}
      /\ ret'[r].invoice = i /\ ret'[r].quantity = request
      /\ ret'[r].restocked = restocked /\ ret'[r].refund = Value(request)
      /\ \A s \in Returns \ {r} : ret'[s] = ret[s]
  BY DEF CreateReturn, TypeOK
<1>3. status \in {"refunded", "partial"}
  OBVIOUS
<1>4. inv[i] \in InvoiceRow
  BY DEF TypeOK
<1> HIDE DEF returned, status
<1>5. /\ inv'[i].status = status /\ inv'[i].quantity = inv[i].quantity
      /\ inv'[i].total = inv[i].total /\ inv'[i].outstanding = inv[i].outstanding - credit
      /\ inv'[i].customer = inv[i].customer
  BY <1>1, <1>4 DEF Rebalanced, InvoiceRow
<1> QED
  BY <1>1, <1>2, <1>3, <1>5

LEMMA ReturnTakenBackColumns ==
  ASSUME IInv, NEW r \in Returns, CancelReturn(r)
  PROVE  LET i == ret[r].invoice IN
         /\ i \in Invoices /\ Live(i) /\ LiveReturn(r)
         /\ inv'[i].status \in {"refunded", "partial", "paid"}
         /\ inv'[i].quantity = inv[i].quantity /\ inv'[i].customer = inv[i].customer
         /\ inv'[i].total = inv[i].total
         /\ \/ inv'[i].outstanding = inv[i].outstanding + ret[r].refund
            \/ inv'[i].outstanding >= inv[i].total
         /\ \A j \in Invoices \ {i} : inv'[j] = inv[j]
         /\ ret'[r].status = "cancelled"
         /\ \A s \in Returns \ {r} : ret'[s] = ret[s]
<1> TypeOK
  BY DEF IInv
<1>0. PICK i \in Invoices : i = ret[r].invoice
  BY DEF TypeOK, ReturnRow
<1> DEFINE room == inv[i].total - inv[i].outstanding
           credit == IF Least(ret[r].refund, room) > 0 THEN Least(ret[r].refund, room) ELSE 0
           left(p) == inv[i].returned[p] - ret[r].quantity[p]
           returned == [p \in Products |-> IF left(p) > 0 THEN left(p) ELSE 0]
           status == IF FullyReturned(i, returned) THEN "refunded"
                     ELSE IF \E p \in Products : returned[p] > 0 THEN "partial"
                     ELSE "paid"
<1>1. LiveReturn(r) /\ r \in LiveReturnsOf(i)
  BY <1>0 DEF CancelReturn, LiveReturnsOf
<1>2. Live(i)
  BY <1>1 DEF IInv, InvoiceOK, Closed, WellFormed, Live
<1>3. /\ inv'[i] = Rebalanced(i, inv[i].outstanding + credit, credit > 0, returned, status)
      /\ \A j \in Invoices \ {i} : inv'[j] = inv[j]
  BY <1>0 DEF CancelReturn, TypeOK
<1>4. ret'[r].status = "cancelled" /\ \A s \in Returns \ {r} : ret'[s] = ret[s]
  BY DEF CancelReturn, TypeOK, ReturnRow
<1>5. status \in {"refunded", "partial", "paid"}
  OBVIOUS
<1>6. inv[i] \in InvoiceRow /\ ret[r].refund \in Nat
  BY SalesAssumption DEF TypeOK, ReturnRow, SalesAssumption
<1>7. inv[i].total \in Int /\ inv[i].outstanding \in Int
  BY <1>6, MoneyInt DEF InvoiceRow
<1>8. \/ inv[i].outstanding + credit = inv[i].outstanding + ret[r].refund
      \/ inv[i].outstanding + credit >= inv[i].total
  BY <1>6, <1>7 DEF Least
<1> HIDE DEF returned, status, credit
<1>9. /\ inv'[i].status = status /\ inv'[i].quantity = inv[i].quantity
      /\ inv'[i].total = inv[i].total /\ inv'[i].outstanding = inv[i].outstanding + credit
      /\ inv'[i].customer = inv[i].customer
  BY <1>3, <1>6 DEF Rebalanced, InvoiceRow
<1> QED
  BY <1>0, <1>1, <1>2, <1>3, <1>4, <1>5, <1>8, <1>9

(***************************************************************************)
(* A payment gives to invoices of its customer, moves nothing but their    *)
(* money columns, and takes no more off what is outstanding than it gives  *)
(* and each of its allocations may forgive.                                *)
(***************************************************************************)
LEMMA PaymentColumns ==
  ASSUME TypeOK, NEW c \in Customers, NEW split \in [Invoices -> Money],
         CreatePayment(c, split), NEW j \in Invoices
  PROVE  /\ ret' = ret /\ split[j] \in Nat
         /\ split[j] > 0 => inv[j].customer = c /\ inv[j].status # "none"
         /\ inv'[j].status = inv[j].status /\ inv'[j].customer = inv[j].customer
         /\ inv'[j].quantity = inv[j].quantity /\ inv'[j].total = inv[j].total
         /\ allocated'[j] = allocated[j] + split[j]
         /\ inv'[j].outstanding >= inv[j].outstanding - split[j] - (allocations'[j] - allocations[j])
<1>1. inv[j] \in InvoiceRow /\ inv[j].outstanding \in Int /\ allocations[j] \in Nat
  BY DEF TypeOK, InvoiceRow
<1>2. PICK times, rest : PaymentWith(c, split, times, rest)
  BY PaymentEffects
<1> DEFINE due == LeftOver(inv[j].outstanding - split[j])
           payment == IF due = 0 THEN "paid" ELSE "partially_paid"
<1>3. ret' = ret /\ inv'[j] = IF split[j] = 0 THEN inv[j]
                              ELSE [inv[j] EXCEPT !.paid = @ + split[j], !.outstanding = due,
                                                  !.payment_status = payment]
  BY <1>2 DEF PaymentWith, Allocated
<1>4. /\ split[j] \in Nat /\ times[j] \in Nat /\ allocations'[j] = allocations[j] + times[j]
      /\ allocated'[j] = allocated[j] + split[j]
      /\ split[j] > 0 => times[j] > 0 /\ inv[j].status # "none" /\ inv[j].customer = c
  BY <1>2 DEF PaymentWith, Allocated
<1>5. due \in Int /\ due >= inv[j].outstanding - split[j] - 1
  BY <1>1, <1>4, LeftOverOf
<1> HIDE DEF due, payment
<1>7. allocations'[j] - allocations[j] = times[j]
  BY <1>1, <1>4
<1>6. /\ inv'[j].status = inv[j].status /\ inv'[j].customer = inv[j].customer
      /\ inv'[j].quantity = inv[j].quantity /\ inv'[j].total = inv[j].total
      /\ inv'[j].outstanding = IF split[j] = 0 THEN inv[j].outstanding ELSE due
  BY <1>1, <1>3 DEF InvoiceRow
<1>8. inv'[j].outstanding >= inv[j].outstanding - split[j] - (allocations'[j] - allocations[j])
  BY <1>1, <1>4, <1>5, <1>6, <1>7
<1> QED
  BY <1>3, <1>4, <1>6, <1>8

-----------------------------------------------------------------------------
(***************************************************************************)
(* The stock.  SoldBy and ShelvedBy are the two sums of StockReconciles    *)
(* over all rows, with nought for the rows it leaves out: their domains    *)
(* never change, so a step changes one value or none.                      *)
(***************************************************************************)
SoldBy(p) == [i \in Invoices |-> IF Live(i) THEN inv[i].quantity[p] ELSE 0]
ShelvedBy(p) ==
  [r \in Returns |-> IF LiveReturn(r) /\ p \in ret[r].restocked
                     THEN ret[r].quantity[p] ELSE 0]
Sold(p) == SumFunctionOnSet(SoldBy(p), Invoices)
Shelved(p) == SumFunctionOnSet(ShelvedBy(p), Returns)

StockInv ==
  /\ IInv
  /\ \A p \in Products :
       stock[p] = OpeningStock[p] + manualStock[p] - Sold(p) + Shelved(p)

(***************************************************************************)
(* The quantities of rows are integers, and so are their sums.             *)
(***************************************************************************)
LEMMA UnitsInt ==
  ASSUME TypeOK, NEW p \in Products
  PROVE  /\ \A i \in Invoices : SoldBy(p)[i] \in Int /\ inv[i].quantity[p] \in Int
         /\ \A r \in Returns : ShelvedBy(p)[r] \in Int /\ ret[r].quantity[p] \in Int
         /\ Sold(p) \in Int /\ Shelved(p) \in Int
<1>1. ASSUME NEW i \in Invoices PROVE SoldBy(p)[i] \in Int /\ inv[i].quantity[p] \in Int
  BY QuantityFunctions DEF TypeOK, InvoiceRow, Quantities, SoldBy
<1>2. ASSUME NEW r \in Returns PROVE ShelvedBy(p)[r] \in Int /\ ret[r].quantity[p] \in Int
  BY QuantityFunctions DEF TypeOK, ReturnRow, Quantities, ShelvedBy
<1>3. Sold(p) \in Int
  BY <1>1, SumInt, SalesAssumption DEF Sold, SalesAssumption
<1>4. Shelved(p) \in Int
  BY <1>2, SumInt, SalesAssumption DEF Shelved, SalesAssumption
<1> QED
  BY <1>1, <1>2, <1>3, <1>4

(***************************************************************************)
(* The sums of StockReconciles, written over all rows.                     *)
(***************************************************************************)
LEMMA StockSums ==
  ASSUME TypeOK, NEW p \in Products
  PROVE  /\ SumFunction([i \in {j \in Invoices : Live(j)} |-> inv[i].quantity[p]]) = Sold(p)
         /\ SumFunction([r \in {s \in Returns : LiveReturn(s) /\ p \in ret[s].restocked}
                          |-> ret[r].quantity[p]]) = Shelved(p)
<1> DEFINE f == [i \in {j \in Invoices : Live(j)} |-> inv[i].quantity[p]]
           g == [r \in {s \in Returns : LiveReturn(s) /\ p \in ret[s].restocked}
                   |-> ret[r].quantity[p]]
<1>1. /\ DOMAIN f \subseteq Invoices
      /\ \A i \in DOMAIN f : f[i] \in Int
      /\ \A i \in Invoices : SoldBy(p)[i] = IF i \in DOMAIN f THEN f[i] ELSE 0
  BY UnitsInt DEF SoldBy
<1>2. /\ DOMAIN g \subseteq Returns
      /\ \A r \in DOMAIN g : g[r] \in Int
      /\ \A r \in Returns : ShelvedBy(p)[r] = IF r \in DOMAIN g THEN g[r] ELSE 0
  BY UnitsInt DEF ShelvedBy
<1>3. IsFiniteSet(Invoices) /\ IsFiniteSet(Returns)
  BY SalesAssumption DEF SalesAssumption
<1> HIDE DEF f, g
<1>4. SumFunction(f) = SumFunctionOnSet(SoldBy(p), Invoices)
  BY <1>1, <1>3, SumOfSome
<1>5. SumFunction(g) = SumFunctionOnSet(ShelvedBy(p), Returns)
  BY <1>2, <1>3, SumOfSome
<1> QED
  BY <1>4, <1>5 DEF Sold, Shelved, f, g

(***************************************************************************)
(* A step that touches one invoice changes what was sold by what it        *)
(* changes there.                                                          *)
(***************************************************************************)
LEMMA SoldMoves ==
  ASSUME TypeOK, TypeOK', NEW p \in Products, NEW i \in Invoices,
         \A j \in Invoices \ {i} : inv'[j] = inv[j]
  PROVE  Sold(p)' = Sold(p) + (SoldBy(p)'[i] - SoldBy(p)[i])
<1> DEFINE f == SoldBy(p)  g == SoldBy(p)'
<1>1. \A j \in Invoices : f[j] \in Int /\ g[j] \in Int
  BY QuantityFunctions DEF TypeOK, InvoiceRow, Quantities, SoldBy
<1>2. \A j \in Invoices \ {i} : g[j] = f[j]
  BY DEF SoldBy, Live
<1>3. IsFiniteSet(Invoices)
  BY SalesAssumption DEF SalesAssumption
<1> HIDE DEF f, g
<1>4. SumFunctionOnSet(g, Invoices) = SumFunctionOnSet(f, Invoices) + (g[i] - f[i])
  BY <1>1, <1>2, <1>3, SumUpdate
<1> QED
  BY <1>4 DEF Sold, f, g

(***************************************************************************)
(* ... and one that touches one return what is back on the shelf.          *)
(***************************************************************************)
LEMMA ShelvedMoves ==
  ASSUME TypeOK, TypeOK', NEW p \in Products, NEW r \in Returns,
         \A s \in Returns \ {r} : ret'[s] = ret[s]
  PROVE  Shelved(p)' = Shelved(p) + (ShelvedBy(p)'[r] - ShelvedBy(p)[r])
<1> DEFINE f == ShelvedBy(p)  g == ShelvedBy(p)'
<1>1. \A s \in Returns : f[s] \in Int /\ g[s] \in Int
  BY QuantityFunctions DEF TypeOK, ReturnRow, Quantities, ShelvedBy
<1>2. \A s \in Returns \ {r} : g[s] = f[s]
  BY DEF ShelvedBy, LiveReturn
<1>3. IsFiniteSet(Returns)
  BY SalesAssumption DEF SalesAssumption
<1> HIDE DEF f, g
<1>4. SumFunctionOnSet(g, Returns) = SumFunctionOnSet(f, Returns) + (g[r] - f[r])
  BY <1>1, <1>2, <1>3, SumUpdate
<1> QED
  BY <1>4 DEF Shelved, f, g

(***************************************************************************)
(* A step that leaves the status and the quantities of every invoice, or   *)
(* every return, alone leaves the sums alone.                              *)
(***************************************************************************)
LEMMA UnitsStay ==
  ASSUME NEW p
  PROVE  /\ (\A j \in Invoices : inv'[j].status = inv[j].status
                                 /\ inv'[j].quantity = inv[j].quantity)
              => Sold(p)' = Sold(p)
         /\ ret' = ret => Shelved(p)' = Shelved(p)
<1>1. ASSUME \A j \in Invoices : inv'[j].status = inv[j].status
                                 /\ inv'[j].quantity = inv[j].quantity
      PROVE  Sold(p)' = Sold(p)
  <2>1. SoldBy(p)' = SoldBy(p)
    BY <1>1 DEF SoldBy, Live
  <2> QED
    BY <2>1 DEF Sold
<1>2. ASSUME ret' = ret PROVE Shelved(p)' = Shelved(p)
  BY <1>2 DEF Shelved, ShelvedBy, LiveReturn
<1> QED
  BY <1>1, <1>2

(***************************************************************************)
(* Every service function keeps the stock equal to the documents.          *)
(***************************************************************************)
LEMMA StockStep ==
  ASSUME StockInv, [Next]_vars
  PROVE  StockInv'
<1> IInv /\ TypeOK /\ IInv' /\ TypeOK'
  BY NextIInv, NextType DEF StockInv, IInv
<1> SUFFICES ASSUME NEW p \in Products
             PROVE  stock'[p] = OpeningStock[p] + manualStock'[p] - Sold(p)' + Shelved(p)'
  BY DEF StockInv
<1> DEFINE Goal == stock'[p] = OpeningStock[p] + manualStock'[p] - Sold(p)' + Shelved(p)'
<1>0. stock[p] = OpeningStock[p] + manualStock[p] - Sold(p) + Shelved(p)
  BY DEF StockInv
<1>t. /\ stock[p] \in Int /\ OpeningStock[p] \in Int /\ manualStock[p] \in Int
      /\ Sold(p) \in Int /\ Shelved(p) \in Int
      /\ \A i \in Invoices : inv[i].quantity[p] \in Int
      /\ \A r \in Returns : ret[r].quantity[p] \in Int
  BY UnitsInt, Bounds DEF TypeOK
<1>1. ASSUME NEW i \in Invoices, NEW c \in Customers \cup {NoCustomer},
             NEW cart \in Carts, NEW onCredit \in BOOLEAN,
             NEW isManager \in BOOLEAN, NEW paidNow \in Money,
             CreateInvoice(i, c, cart, onCredit, paidNow, isManager)
      PROVE  Goal
  <2>1. /\ inv[i].status = "none" /\ ret' = ret
        /\ inv'[i].status = "paid" /\ inv'[i].quantity = cart
        /\ \A j \in Invoices \ {i} : inv'[j] = inv[j]
    BY <1>1, SaleColumns
  <2>2. SoldBy(p)[i] = 0 /\ SoldBy(p)'[i] = cart[p]
    BY <2>1 DEF SoldBy, Live
  <2>3. Sold(p)' = Sold(p) + (cart[p] - 0)
    BY <2>1, <2>2, SoldMoves
  <2>4. Shelved(p)' = Shelved(p)
    BY <2>1, UnitsStay
  <2>5. stock'[p] = stock[p] - cart[p] /\ manualStock' = manualStock
    BY <1>1 DEF CreateInvoice
  <2>6. cart[p] \in Int
    BY QuantityFunctions DEF Quantities
  <2> QED
    BY <1>0, <1>t, <2>3, <2>4, <2>5, <2>6
<1>2. ASSUME NEW i \in Invoices, VoidInvoice(i) PROVE Goal
  <2>1. /\ Live(i) /\ inv'[i].status = "cancelled" /\ ret' = ret
        /\ \A j \in Invoices \ {i} : inv'[j] = inv[j]
        /\ stock'[p] = stock[p] + inv[i].quantity[p] /\ manualStock' = manualStock
    BY <1>2 DEF VoidInvoice, Voidable, TypeOK, InvoiceRow
  <2>2. SoldBy(p)[i] = inv[i].quantity[p] /\ SoldBy(p)'[i] = 0
    BY <2>1 DEF SoldBy, Live
  <2>3. Sold(p)' = Sold(p) + (0 - inv[i].quantity[p])
    BY <2>1, <2>2, SoldMoves
  <2>4. Shelved(p)' = Shelved(p)
    BY <2>1, UnitsStay
  <2> QED
    BY <1>0, <1>t, <2>1, <2>3, <2>4
<1>3. ASSUME NEW r \in Returns, NEW i \in Invoices, NEW request \in Carts,
             NEW restocked \in SUBSET Products,
             CreateReturn(r, i, request, restocked)
      PROVE  Goal
  <2>1. /\ Live(i) /\ ret[r].status = "none"
        /\ inv'[i].status \in {"refunded", "partial"}
        /\ inv'[i].quantity = inv[i].quantity
        /\ \A j \in Invoices \ {i} : inv'[j] = inv[j]
        /\ ret'[r].status \in {"partially_refunded", "fully_refunded"}
        /\ ret'[r].quantity = request /\ ret'[r].restocked = restocked
        /\ \A s \in Returns \ {r} : ret'[s] = ret[s]
    BY <1>3, ReturnColumns
  <2> DEFINE back == IF p \in restocked THEN request[p] ELSE 0
  <2>2. SoldBy(p)'[i] = SoldBy(p)[i] /\ SoldBy(p)[i] \in Int
    BY <2>1, UnitsInt DEF SoldBy, Live
  <2>3. Sold(p)' = Sold(p)
    BY <2>1, <2>2, <1>t, SoldMoves
  <2>4. ShelvedBy(p)[r] = 0 /\ ShelvedBy(p)'[r] = back
    BY <2>1 DEF ShelvedBy, LiveReturn
  <2>5. Shelved(p)' = Shelved(p) + (back - 0)
    BY <2>1, <2>4, ShelvedMoves
  <2>6. request[p] \in Int
    BY QuantityFunctions DEF Quantities
  <2>7. stock'[p] = stock[p] + back /\ manualStock' = manualStock
    BY <1>3, <1>t, <2>6 DEF CreateReturn, Restocked
  <2>8. back \in Int
    BY <2>6
  <2> HIDE DEF back
  <2> QED
    BY <1>0, <1>t, <2>3, <2>5, <2>7, <2>8
<1>4. ASSUME NEW r \in Returns, CancelReturn(r) PROVE Goal
  <2>0. PICK i \in Invoices : i = ret[r].invoice
    BY DEF TypeOK, ReturnRow
  <2>1. /\ Live(i) /\ LiveReturn(r)
        /\ inv'[i].status \in {"refunded", "partial", "paid"}
        /\ inv'[i].quantity = inv[i].quantity
        /\ \A j \in Invoices \ {i} : inv'[j] = inv[j]
        /\ ret'[r].status = "cancelled"
        /\ \A s \in Returns \ {r} : ret'[s] = ret[s]
    BY <1>4, <2>0, ReturnTakenBackColumns
  <2> DEFINE off == IF p \in ret[r].restocked THEN ret[r].quantity[p] ELSE 0
  <2>2. SoldBy(p)'[i] = SoldBy(p)[i] /\ SoldBy(p)[i] \in Int
    BY <2>1, UnitsInt DEF SoldBy, Live
  <2>3. Sold(p)' = Sold(p)
    BY <2>1, <2>2, <1>t, SoldMoves
  <2>4. ShelvedBy(p)[r] = off /\ ShelvedBy(p)'[r] = 0
    BY <2>1 DEF ShelvedBy, LiveReturn
  <2>5. Shelved(p)' = Shelved(p) + (0 - off)
    BY <2>1, <2>4, ShelvedMoves
  <2>7. stock'[p] = stock[p] - off /\ manualStock' = manualStock
    BY <1>4, <1>t DEF CancelReturn
  <2>8. off \in Int
    BY <1>t
  <2> HIDE DEF off
  <2> QED
    BY <1>0, <1>t, <2>3, <2>5, <2>7, <2>8
<1>5. ASSUME NEW c \in Customers, NEW split \in [Invoices -> Money], CreatePayment(c, split)
      PROVE  Goal
  <2>1. \A j \in Invoices : inv'[j].status = inv[j].status
                            /\ inv'[j].quantity = inv[j].quantity
    BY <1>5, PaymentColumns
  <2>2. ret' = ret /\ stock' = stock /\ manualStock' = manualStock
    BY <1>5, PaymentEffects DEF PaymentWith, Allocated
  <2>3. Sold(p)' = Sold(p) /\ Shelved(p)' = Shelved(p)
    BY <2>1, <2>2, UnitsStay
  <2> QED
    BY <1>0, <2>2, <2>3
<1>6. ASSUME NEW q \in Products, NEW level \in StockLevels, AdjustStock(q, level) PROVE Goal
  <2>1. Sold(p)' = Sold(p) /\ Shelved(p)' = Shelved(p)
    BY <1>6, UnitsStay DEF AdjustStock
  <2>2. \/ stock'[p] = stock[p] /\ manualStock'[p] = manualStock[p]
        \/ stock'[p] = level /\ manualStock'[p] = manualStock[p] + (level - stock[p])
    BY <1>6 DEF AdjustStock, TypeOK
  <2> QED
    BY <1>0, <1>t, <2>1, <2>2, Bounds
<1>7. ASSUME (\E c \in Customers, amount \in Adjustments : CreateLedgerAdjustment(c, amount))
             \/ UNCHANGED vars
      PROVE  Goal
  <2>1. inv' = inv /\ ret' = ret /\ stock' = stock /\ manualStock' = manualStock
    BY <1>7 DEF CreateLedgerAdjustment, vars
  <2>2. Sold(p)' = Sold(p) /\ Shelved(p)' = Shelved(p)
    BY <2>1, UnitsStay
  <2> QED
    BY <1>0, <2>1, <2>2
<1> QED
  BY <1>1, <1>2, <1>3, <1>4, <1>5, <1>6, <1>7 DEF Next

(***************************************************************************)
(* The stock on hand can be rebuilt from the documents whatever was sold,  *)
(* voided, returned, taken back or moved by hand: no service function      *)
(* writes inventory without the document that explains it, or the other    *)
(* way round.                                                              *)
(***************************************************************************)
THEOREM StockIsDocumented == Spec => []StockReconciles
<1>1. Init => StockInv
  <2> SUFFICES ASSUME Init PROVE StockInv
    OBVIOUS
  <2>1. IInv /\ TypeOK
    BY InitIInv DEF IInv
  <2> SUFFICES ASSUME NEW p \in Products
               PROVE  stock[p] = OpeningStock[p] + manualStock[p] - Sold(p) + Shelved(p)
    BY <2>1 DEF StockInv
  <2>2. \A i \in Invoices : SoldBy(p)[i] = 0
    BY DEF Init, NoInvoice, SoldBy, Live
  <2>3. \A r \in Returns : ShelvedBy(p)[r] = 0
    BY DEF Init, NoReturn, ShelvedBy, LiveReturn
  <2>4. IsFiniteSet(Invoices) /\ IsFiniteSet(Returns)
    BY SalesAssumption DEF SalesAssumption
  <2>5. Sold(p) = 0 /\ Shelved(p) = 0
    BY <2>2, <2>3, <2>4, SumZero DEF Sold, Shelved
  <2> QED
    BY <2>5, Bounds DEF Init
<1>2. StockInv /\ [Next]_vars => StockInv'
  BY StockStep
<1>3. StockInv => StockReconciles
  BY StockSums DEF StockInv, StockReconciles, IInv
<1> QED
  BY <1>1, <1>2, <1>3, PTL DEF Spec
-----------------------------------------------------------------------------
(***************************************************************************)
(* The customer's ledger.  FundsOf is what payments allocated to the       *)
(* invoices of a customer, RefundsOn what standing returns of an invoice   *)
(* refunded.  An invoice is funded if all that was taken off its total is  *)
(* accounted for by the two and by what its allocations may have forgiven: *)
(* a payment request that names an invoice twice takes off less than it    *)
(* allocates, and a return taken back puts back its refund, or the whole   *)
(* total, so neither breaks it.                                            *)
(***************************************************************************)
FundsOf(c) == [i \in Invoices |-> IF inv[i].customer = c THEN allocated[i] ELSE 0]
Funds(c) == SumFunctionOnSet(FundsOf(c), Invoices)
RefundsOf(i) ==
  [r \in Returns |-> IF LiveReturn(r) /\ ret[r].invoice = i THEN ret[r].refund ELSE 0]
RefundsOn(i) == SumFunctionOnSet(RefundsOf(i), Returns)

Funded(i) ==
  Live(i) /\ inv[i].customer # NoCustomer
    => inv[i].total - inv[i].outstanding <= allocated[i] + RefundsOn(i) + allocations[i]

LedgerInv ==
  /\ IInv
  /\ \A i \in Invoices : allocated[i] \in Nat /\ (inv[i].status = "none" => allocated[i] = 0)
  /\ \A c \in Customers : received[c] >= Funds(c)
  /\ \A i \in Invoices : Funded(i)

(***************************************************************************)
(* Amounts are integers, refunds are not negative, and their sums neither. *)
(***************************************************************************)
LEMMA AmountsInt ==
  ASSUME TypeOK
  PROVE  /\ \A i \in Invoices : /\ inv[i].total \in Int /\ inv[i].outstanding \in Int
                                /\ \A r \in Returns : RefundsOf(i)[r] \in Nat
                                /\ RefundsOn(i) \in Nat
         /\ \A r \in Returns : ret[r].refund \in Nat /\ ret[r].invoice \in Invoices
<1>1. \A i \in Invoices : inv[i].total \in Int /\ inv[i].outstanding \in Int
  BY MoneyInt DEF TypeOK, InvoiceRow
<1>2. \A r \in Returns : ret[r].refund \in Nat /\ ret[r].invoice \in Invoices
  BY SalesAssumption DEF TypeOK, ReturnRow, SalesAssumption
<1>3. ASSUME NEW i \in Invoices
      PROVE  (\A r \in Returns : RefundsOf(i)[r] \in Nat) /\ RefundsOn(i) \in Nat
  <2>1. \A r \in Returns : RefundsOf(i)[r] \in Nat
    BY <1>2 DEF RefundsOf
  <2>2. IsFiniteSet(Returns)
    BY SalesAssumption DEF SalesAssumption
  <2> QED
    BY <2>1, <2>2, SumNat DEF RefundsOn
<1> QED
  BY <1>1, <1>2, <1>3

(***************************************************************************)
(* The refunds of an invoice change with the return a step touches.        *)
(***************************************************************************)
LEMMA RefundsMove ==
  ASSUME TypeOK, TypeOK', NEW i \in Invoices, NEW r \in Returns,
         \A s \in Returns \ {r} : ret'[s] = ret[s]
  PROVE  RefundsOn(i)' = RefundsOn(i) + (RefundsOf(i)'[r] - RefundsOf(i)[r])
<1> DEFINE f == RefundsOf(i)  g == RefundsOf(i)'
<1>0. \A s \in Returns : ret[s].refund \in Int /\ ret'[s].refund \in Int
  BY MoneyInt DEF TypeOK, ReturnRow
<1>1. \A s \in Returns : f[s] \in Int /\ g[s] \in Int
  BY <1>0 DEF RefundsOf
<1>2. \A s \in Returns \ {r} : g[s] = f[s]
  BY DEF RefundsOf, LiveReturn
<1>3. IsFiniteSet(Returns)
  BY SalesAssumption DEF SalesAssumption
<1> HIDE DEF f, g
<1>4. SumFunctionOnSet(g, Returns) = SumFunctionOnSet(f, Returns) + (g[r] - f[r])
  BY <1>1, <1>2, <1>3, SumUpdate
<1> QED
  BY <1>4 DEF RefundsOn, f, g

(***************************************************************************)
(* A step that touches no return, and only adds to what is allocated while *)
(* it takes no more than that off the total, keeps an invoice funded.      *)
(***************************************************************************)
LEMMA FundedStays ==
  ASSUME NEW i \in Invoices, TypeOK, TypeOK', LedgerInv, ret' = ret, allocated'[i] \in Int,
         Live(i)' => Live(i),
         inv'[i].customer = inv[i].customer,
         Live(i)' => inv'[i].total - inv'[i].outstanding
                       <= inv[i].total - inv[i].outstanding + (allocated'[i] - allocated[i])
                            + (allocations'[i] - allocations[i])
  PROVE  Funded(i)'
<1>1. RefundsOn(i)' = RefundsOn(i)
  BY DEF RefundsOn, RefundsOf, LiveReturn
<1>2. /\ RefundsOn(i) \in Nat /\ inv[i].total \in Int /\ inv[i].outstanding \in Int
      /\ allocated[i] \in Nat /\ Funded(i)
  BY AmountsInt DEF LedgerInv
<1>3. /\ inv'[i].total \in Int /\ inv'[i].outstanding \in Int
      /\ allocations[i] \in Nat /\ allocations'[i] \in Nat
  BY MoneyInt DEF TypeOK, InvoiceRow
<1> QED
  BY <1>1, <1>2, <1>3 DEF Funded

(***************************************************************************)
(* A step that leaves the customer of every invoice and what is allocated  *)
(* to it alone leaves the funds alone.                                     *)
(***************************************************************************)
LEMMA FundsStay ==
  ASSUME NEW c, allocated' = allocated,
         \A j \in Invoices : inv'[j].customer = inv[j].customer
  PROVE  Funds(c)' = Funds(c)
<1>1. FundsOf(c)' = FundsOf(c)
  BY DEF FundsOf
<1> QED
  BY <1>1 DEF Funds

(***************************************************************************)
(* A sale that was paid in part or in full funds its invoice.              *)
(***************************************************************************)
LEMMA SaleLedger ==
  ASSUME LedgerInv, TypeOK, TypeOK', IInv',
         NEW i \in Invoices, NEW c \in Customers \cup {NoCustomer},
         NEW cart \in Carts, NEW onCredit \in BOOLEAN,
         NEW isManager \in BOOLEAN, NEW paidNow \in Money,
         CreateInvoice(i, c, cart, onCredit, paidNow, isManager)
  PROVE  LedgerInv'
<1>1. /\ inv[i].status = "none" /\ ret' = ret
      /\ inv'[i].status = "paid" /\ inv'[i].customer = c
      /\ \A j \in Invoices \ {i} : inv'[j] = inv[j]
  BY SaleColumns
<1>2. PICK paid \in Nat :
        /\ inv'[i].total - inv'[i].outstanding = paid
        /\ \A d \in Customers : received'[d] = IF d = c THEN received[d] + paid ELSE received[d]
        /\ \A j \in Invoices : allocated'[j] = IF j = i /\ c # NoCustomer
                                              THEN allocated[j] + paid ELSE allocated[j]
        /\ \A j \in Invoices : j # i => allocations'[j] = allocations[j]
  BY SaleColumns
<1>3. /\ allocated[i] = 0 /\ \A j \in Invoices : allocated[j] \in Nat
      /\ received \in [Customers -> Int]
      /\ \A j \in Invoices : allocations[j] \in Nat /\ allocations'[j] \in Nat
  BY <1>1 DEF LedgerInv, TypeOK
<1>4. /\ \A j \in Invoices \ {i} : allocated'[j] = allocated[j]
      /\ allocated'[i] = IF c = NoCustomer THEN 0 ELSE paid
  BY <1>2, <1>3
<1>5. ASSUME NEW j \in Invoices
      PROVE  allocated'[j] \in Nat /\ (inv'[j].status = "none" => allocated'[j] = 0)
  BY <1>1, <1>2, <1>3, <1>4 DEF LedgerInv
<1>6. ASSUME NEW d \in Customers PROVE received'[d] >= Funds(d)'
  <2> DEFINE f == FundsOf(d)  g == FundsOf(d)'
  <2>1. \A j \in Invoices : f[j] \in Int /\ g[j] \in Int
    BY <1>3, <1>5 DEF FundsOf
  <2>2. \A j \in Invoices \ {i} : g[j] = f[j]
    BY <1>1, <1>4 DEF FundsOf
  <2>3. f[i] = 0 /\ g[i] = IF c = d THEN paid ELSE 0
    <3>1. d # NoCustomer
      BY SalesAssumption DEF SalesAssumption
    <3> QED
      BY <1>1, <1>3, <1>4, <3>1 DEF FundsOf
  <2>4. IsFiniteSet(Invoices)
    BY SalesAssumption DEF SalesAssumption
  <2> HIDE DEF f, g
  <2>5. SumFunctionOnSet(g, Invoices) = SumFunctionOnSet(f, Invoices) + (g[i] - f[i])
    BY <2>1, <2>2, <2>4, SumUpdate
  <2>6. Funds(d)' = Funds(d) + (g[i] - f[i])
    BY <2>5 DEF Funds, f, g
  <2>7. Funds(d) \in Int
    BY <2>1, <2>4, SumInt DEF Funds, f
  <2> QED
    BY <1>2, <1>3, <2>3, <2>6, <2>7 DEF LedgerInv
<1>7. ASSUME NEW j \in Invoices PROVE Funded(j)'
  <2>1. CASE j = i
    <3>1. RefundsOn(i)' = RefundsOn(i) /\ RefundsOn(i) \in Nat
      BY <1>1, AmountsInt DEF RefundsOn, RefundsOf, LiveReturn
    <3> QED
      BY <1>1, <1>2, <1>3, <1>4, <2>1, <3>1 DEF Funded
  <2>2. CASE j # i
    <3>1. inv'[j] = inv[j] /\ allocated'[j] = allocated[j] /\ allocations'[j] = allocations[j]
      BY <1>1, <1>2, <1>4, <2>2
    <3>2. /\ inv[j].total \in Int /\ inv[j].outstanding \in Int /\ allocated[j] \in Int
          /\ allocations[j] \in Int
      BY <1>3, AmountsInt
    <3>3. Live(j)' => Live(j)
      BY <3>1 DEF Live
    <3> QED
      BY <1>1, <3>1, <3>2, <3>3, FundedStays
  <2> QED
    BY <2>1, <2>2
<1> QED
  BY <1>5, <1>6, <1>7 DEF LedgerInv

(***************************************************************************)
(* A payment funds the invoices it names, and they are the customer's.     *)
(***************************************************************************)
LEMMA PaymentLedger ==
  ASSUME LedgerInv, IInv, TypeOK, TypeOK', IInv', NEW c \in Customers,
         NEW split \in [Invoices -> Money], CreatePayment(c, split)
  PROVE  LedgerInv'
<1>9. PICK times, rest : PaymentWith(c, split, times, rest)
  BY PaymentEffects
<1>0. rest \in Nat /\ received' = [received EXCEPT ![c] = @ + SumFunction(split) + rest]
  BY <1>9 DEF PaymentWith
<1>1. ret' = ret
  BY <1>9 DEF PaymentWith, Allocated
<1>2. \A j \in Invoices :
        /\ split[j] \in Nat /\ (split[j] > 0 => inv[j].customer = c /\ inv[j].status # "none")
        /\ inv'[j].status = inv[j].status /\ inv'[j].customer = inv[j].customer
        /\ inv'[j].total = inv[j].total
        /\ allocated'[j] = allocated[j] + split[j]
        /\ inv'[j].outstanding >= inv[j].outstanding - split[j] - (allocations'[j] - allocations[j])
  BY PaymentColumns
<1>3. /\ \A j \in Invoices : allocated[j] \in Nat /\ allocated'[j] = allocated[j] + split[j]
      /\ received \in [Customers -> Int]
  BY <1>2 DEF LedgerInv, TypeOK
<1>4. ASSUME NEW j \in Invoices
      PROVE  allocated'[j] \in Nat /\ (inv'[j].status = "none" => allocated'[j] = 0)
  BY <1>2, <1>3 DEF LedgerInv
<1>5. ASSUME NEW d \in Customers PROVE received'[d] >= Funds(d)'
  <2> DEFINE f == FundsOf(d)  g == FundsOf(d)'
  <2>0. IsFiniteSet(Invoices)
    BY SalesAssumption DEF SalesAssumption
  <2>1. \A j \in Invoices : f[j] \in Int /\ split[j] \in Int
    BY <1>2, <1>3 DEF FundsOf
  <2>2. \A j \in Invoices : g[j] = IF d = c THEN f[j] + split[j] ELSE f[j]
    BY <1>2, <1>3 DEF FundsOf
  <2>3. SumFunction(split) = SumFunctionOnSet(split, Invoices)
    BY DEF SumFunction
  <2>4. SumFunctionOnSet(f, Invoices) \in Int /\ SumFunctionOnSet(split, Invoices) \in Int
    <3> HIDE DEF f
    <3> QED
      BY <2>0, <2>1, SumInt
  <2>5. received[d] >= SumFunctionOnSet(f, Invoices)
    BY DEF LedgerInv, Funds
  <2> HIDE DEF f, g
  <2>6. CASE d = c
    <3>1. SumFunctionOnSet(g, Invoices)
            = SumFunctionOnSet(f, Invoices) + SumFunctionOnSet(split, Invoices)
      BY <2>0, <2>1, <2>2, <2>6, SumPlus
    <3>2. /\ received'[d] = received[d] + SumFunction(split) + rest
          /\ received[d] \in Int /\ rest \in Nat
      BY <1>0, <1>3, <2>6
    <3>3. Funds(d)' = SumFunctionOnSet(g, Invoices)
      BY DEF Funds, g
    <3> QED
      BY <2>3, <2>4, <2>5, <3>1, <3>2, <3>3
  <2>7. CASE d # c
    <3>1. SumFunctionOnSet(g, Invoices) = SumFunctionOnSet(f, Invoices)
      BY <2>0, <2>2, <2>7, SumSame
    <3>2. received'[d] = received[d]
      BY <1>0, <1>3, <2>7
    <3> QED
      BY <2>5, <3>1, <3>2 DEF Funds, g
  <2> QED
    BY <2>6, <2>7
<1>6. ASSUME NEW j \in Invoices PROVE Funded(j)'
  <2>1. inv[j].total \in Int /\ inv[j].outstanding \in Int /\ inv'[j].outstanding \in Int
    BY AmountsInt, MoneyInt DEF TypeOK, InvoiceRow
  <2>2. Live(j)' => Live(j)
    BY <1>2 DEF Live
  <2>3. inv'[j].total - inv'[j].outstanding
          <= inv[j].total - inv[j].outstanding + (allocated'[j] - allocated[j])
               + (allocations'[j] - allocations[j])
    <3>1. allocations[j] \in Int /\ allocations'[j] \in Int
      BY DEF TypeOK
    <3> QED
      BY <1>2, <1>3, <2>1, <3>1
  <2> QED
    BY <1>1, <1>2, <1>4, <2>2, <2>3, FundedStays
<1> QED
  BY <1>4, <1>5, <1>6 DEF LedgerInv

(***************************************************************************)
(* The other steps: none of them touches what payments brought in.         *)
(***************************************************************************)
LEMMA OtherLedger ==
  ASSUME LedgerInv, TypeOK, TypeOK', IInv', UNCHANGED <<received, allocated>>,
         \A j \in Invoices : /\ inv'[j].customer = inv[j].customer
                             /\ inv'[j].status = "none" => inv[j].status = "none"
                             /\ Funded(j)'
  PROVE  LedgerInv'
<1>1. \A c \in Customers : Funds(c)' = Funds(c)
  BY FundsStay
<1> QED
  BY <1>1 DEF LedgerInv

LEMMA VoidLedger ==
  ASSUME LedgerInv, TypeOK, TypeOK', IInv', NEW i \in Invoices, VoidInvoice(i)
  PROVE  LedgerInv'
<1>1. /\ inv'[i].status = "cancelled" /\ inv'[i].customer = inv[i].customer
      /\ \A j \in Invoices \ {i} : inv'[j] = inv[j]
      /\ ret' = ret /\ received' = received /\ allocated' = allocated
      /\ allocations' = allocations
  BY DEF VoidInvoice, TypeOK, InvoiceRow
<1>2. ASSUME NEW j \in Invoices PROVE Funded(j)'
  <2>1. /\ inv'[j].customer = inv[j].customer
        /\ Live(j)' => Live(j) /\ inv'[j] = inv[j]
    BY <1>1 DEF Live
  <2>2. /\ inv[j].total \in Int /\ inv[j].outstanding \in Int /\ allocated[j] \in Int
        /\ allocated'[j] = allocated[j]
        /\ allocations[j] \in Int /\ allocations'[j] = allocations[j]
    BY <1>1, AmountsInt DEF LedgerInv, TypeOK
  <2> QED
    BY <1>1, <2>1, <2>2, FundedStays
<1>3. \A j \in Invoices : /\ inv'[j].customer = inv[j].customer
                          /\ inv'[j].status = "none" => inv[j].status = "none"
  BY <1>1
<1> QED
  BY <1>1, <1>2, <1>3, OtherLedger

(***************************************************************************)
(* A return takes no more off an invoice than it refunds.                  *)
(***************************************************************************)
LEMMA ReturnLedger ==
  ASSUME LedgerInv, TypeOK, TypeOK', IInv', NEW r \in Returns, NEW i \in Invoices,
         NEW request \in Carts, NEW restocked \in SUBSET Products,
         CreateReturn(r, i, request, restocked)
  PROVE  LedgerInv'
<1> DEFINE refund == Value(request)
<1>1. /\ Live(i) /\ ret[r].status = "none" /\ refund \in Money
      /\ inv'[i].status \in {"refunded", "partial"} /\ inv'[i].customer = inv[i].customer
      /\ inv'[i].total = inv[i].total
      /\ inv'[i].outstanding = inv[i].outstanding - Least(refund, inv[i].outstanding)
      /\ \A j \in Invoices \ {i} : inv'[j] = inv[j]
      /\ ret'[r].status \in {"partially_refunded", "fully_refunded"}
      /\ ret'[r].invoice = i /\ ret'[r].refund = refund
      /\ \A s \in Returns \ {r} : ret'[s] = ret[s]
  BY ReturnColumns
<1>2. received' = received /\ allocated' = allocated /\ allocations' = allocations
  BY DEF CreateReturn
<1> HIDE DEF refund
<1>3. ASSUME NEW j \in Invoices PROVE Funded(j)'
  <2>1. RefundsOf(j)[r] = 0 /\ RefundsOf(j)'[r] = IF j = i THEN refund ELSE 0
    BY <1>1 DEF RefundsOf, LiveReturn
  <2>2. RefundsOn(j)' = RefundsOn(j) + (IF j = i THEN refund ELSE 0)
    <3>1. RefundsOn(j)' = RefundsOn(j) + ((IF j = i THEN refund ELSE 0) - 0)
      BY <1>1, <2>1, RefundsMove
    <3> QED
      BY <1>1, <3>1, AmountsInt, MoneyInt
  <2>3. /\ inv[j].total \in Int /\ inv[j].outstanding \in Int /\ RefundsOn(j) \in Nat
        /\ allocated[j] \in Nat /\ refund \in Nat /\ Funded(j) /\ allocations[j] \in Nat
    BY <1>1, AmountsInt, MoneyInt DEF LedgerInv, TypeOK
  <2>4. CASE j = i
    <3>1. inv'[j].total - inv'[j].outstanding <= inv[j].total - inv[j].outstanding + refund
      BY <1>1, <2>3, <2>4 DEF Least
    <3>2. inv'[j].total \in Int /\ inv'[j].outstanding \in Int
      BY MoneyInt DEF TypeOK, InvoiceRow
    <3> QED
      BY <1>1, <1>2, <2>2, <2>3, <2>4, <3>1, <3>2 DEF Funded
  <2>5. CASE j # i
    <3>1. inv'[j] = inv[j]
      BY <1>1, <2>5
    <3> QED
      BY <1>2, <2>2, <2>3, <2>5, <3>1 DEF Funded, Live
  <2> QED
    BY <2>4, <2>5
<1>4. \A j \in Invoices : /\ inv'[j].customer = inv[j].customer
                          /\ inv'[j].status = "none" => inv[j].status = "none"
  BY <1>1
<1> QED
  BY <1>2, <1>3, <1>4, OtherLedger

(***************************************************************************)
(* Taking a return back puts its whole refund back on the invoice, or      *)
(* leaves nothing taken off it.                                            *)
(***************************************************************************)
LEMMA TakenBackLedger ==
  ASSUME LedgerInv, IInv, TypeOK, TypeOK', IInv', NEW r \in Returns, CancelReturn(r)
  PROVE  LedgerInv'
<1>0. PICK i \in Invoices : i = ret[r].invoice
  BY DEF TypeOK, ReturnRow
<1> DEFINE refund == ret[r].refund
<1>1. /\ Live(i) /\ LiveReturn(r)
      /\ inv'[i].status \in {"refunded", "partial", "paid"}
      /\ inv'[i].customer = inv[i].customer /\ inv'[i].total = inv[i].total
      /\ \/ inv'[i].outstanding = inv[i].outstanding + refund
         \/ inv'[i].outstanding >= inv[i].total
      /\ \A j \in Invoices \ {i} : inv'[j] = inv[j]
      /\ ret'[r].status = "cancelled"
      /\ \A s \in Returns \ {r} : ret'[s] = ret[s]
  BY <1>0, ReturnTakenBackColumns
<1>2. received' = received /\ allocated' = allocated /\ allocations' = allocations
  BY DEF CancelReturn
<1>5. refund \in Nat
  BY AmountsInt
<1>6. \A j \in Invoices :
        RefundsOf(j)[r] = (IF j = i THEN refund ELSE 0) /\ RefundsOf(j)'[r] = 0
  BY <1>0, <1>1 DEF RefundsOf, LiveReturn
<1>7. \A j \in Invoices : RefundsOn(j)' \in Nat
  <2> SUFFICES ASSUME NEW j \in Invoices PROVE RefundsOn(j)' \in Nat
    OBVIOUS
  <2> DEFINE g == RefundsOf(j)'
  <2>0. \A s \in Returns : ret'[s].refund \in Nat
    BY SalesAssumption DEF TypeOK, ReturnRow, SalesAssumption
  <2>1. \A s \in Returns : g[s] \in Nat
    BY <2>0 DEF RefundsOf
  <2>2. IsFiniteSet(Returns)
    BY SalesAssumption DEF SalesAssumption
  <2> HIDE DEF g
  <2>3. SumFunctionOnSet(g, Returns) \in Nat
    BY <2>1, <2>2, SumNat
  <2> QED
    BY <2>3 DEF g, RefundsOn
<1> HIDE DEF refund
<1>3. ASSUME NEW j \in Invoices PROVE Funded(j)'
  <2>1. RefundsOn(j)' = RefundsOn(j) + (0 - (IF j = i THEN refund ELSE 0))
    BY <1>1, <1>6, RefundsMove
  <2>3. /\ inv[j].total \in Int /\ inv[j].outstanding \in Int /\ RefundsOn(j) \in Nat
        /\ allocated[j] \in Nat /\ Funded(j) /\ allocations[j] \in Nat
    BY AmountsInt DEF LedgerInv, TypeOK
  <2>4. CASE j = i
    <3>2. inv'[j].total \in Int /\ inv'[j].outstanding \in Int
      BY MoneyInt DEF TypeOK, InvoiceRow
    <3> QED
      BY <1>1, <1>2, <1>5, <1>7, <2>1, <2>3, <2>4, <3>2 DEF Funded
  <2>5. CASE j # i
    <3>1. inv'[j] = inv[j] /\ RefundsOn(j)' = RefundsOn(j)
      BY <1>1, <2>1, <2>3, <2>5
    <3> QED
      BY <1>2, <2>3, <3>1 DEF Funded, Live
  <2> QED
    BY <2>4, <2>5
<1>4. \A j \in Invoices : /\ inv'[j].customer = inv[j].customer
                          /\ inv'[j].status = "none" => inv[j].status = "none"
  BY <1>1
<1> QED
  BY <1>2, <1>3, <1>4, OtherLedger

LEMMA LedgerStep ==
  ASSUME LedgerInv, [Next]_vars
  PROVE  LedgerInv'
<1> IInv /\ TypeOK /\ IInv' /\ TypeOK'
  BY NextIInv, NextType DEF LedgerInv, IInv
<1>1. ASSUME NEW i \in Invoices, NEW c \in Customers \cup {NoCustomer},
             NEW cart \in Carts, NEW onCredit \in BOOLEAN,
             NEW isManager \in BOOLEAN, NEW paidNow \in Money,
             CreateInvoice(i, c, cart, onCredit, paidNow, isManager)
      PROVE  LedgerInv'
  BY <1>1, SaleLedger
<1>2. ASSUME NEW i \in Invoices, VoidInvoice(i) PROVE LedgerInv'
  BY <1>2, VoidLedger
<1>3. ASSUME NEW r \in Returns, NEW i \in Invoices, NEW request \in Carts,
             NEW restocked \in SUBSET Products,
             CreateReturn(r, i, request, restocked)
      PROVE  LedgerInv'
  BY <1>3, ReturnLedger
<1>4. ASSUME NEW r \in Returns, CancelReturn(r) PROVE LedgerInv'
  BY <1>4, TakenBackLedger
<1>5. ASSUME NEW c \in Customers, NEW split \in [Invoices -> Money], CreatePayment(c, split)
      PROVE  LedgerInv'
  BY <1>5, PaymentLedger
<1>6. ASSUME \/ \E c \in Customers, amount \in Adjustments : CreateLedgerAdjustment(c, amount)
             \/ \E p \in Products, level \in StockLevels : AdjustStock(p, level)
             \/ UNCHANGED vars
      PROVE  LedgerInv'
  <2>1. inv' = inv /\ ret' = ret /\ UNCHANGED <<received, allocated, allocations>>
    BY <1>6 DEF CreateLedgerAdjustment, AdjustStock, vars
  <2>2. \A j \in Invoices : Funded(j)'
    BY <2>1 DEF LedgerInv, Funded, RefundsOn, RefundsOf, LiveReturn, Live
  <2> QED
    BY <2>1, <2>2, OtherLedger
<1> QED
  BY <1>1, <1>2, <1>3, <1>4, <1>5, <1>6 DEF Next

(***************************************************************************)
(* What was refunded to a customer, return by return, is what was refunded *)
(* on the customer's invoices, invoice by invoice.                         *)
(***************************************************************************)
LEMMA RefundsByInvoice ==
  ASSUME TypeOK, NEW c \in Customers
  PROVE  SumFunction([r \in {s \in Returns : LiveReturn(s) /\ inv[ret[s].invoice].customer = c}
                        |-> ret[r].refund])
           = SumFunctionOnSet([i \in Invoices |-> IF inv[i].customer = c THEN RefundsOn(i) ELSE 0],
                              Invoices)
<1> DEFINE mine == {i \in Invoices : inv[i].customer = c}
           f == [r \in Returns |-> IF LiveReturn(r) THEN ret[r].refund ELSE 0]
           group == [r \in Returns |-> ret[r].invoice]
           part == [i \in mine |-> RefundsOf(i)]
           g == [i \in Invoices |-> IF inv[i].customer = c THEN RefundsOn(i) ELSE 0]
           h == [r \in Returns |-> IF group[r] \in mine THEN f[r] ELSE 0]
           e == [r \in {s \in Returns : LiveReturn(s) /\ inv[ret[s].invoice].customer = c}
                   |-> ret[r].refund]
<1>1. IsFiniteSet(Invoices) /\ IsFiniteSet(Returns) /\ IsFiniteSet(mine)
  BY FS_Subset, SalesAssumption DEF SalesAssumption
<1>2. f \in [Returns -> Int] /\ DOMAIN group = Returns /\ DOMAIN part = mine
  BY AmountsInt
<1>3. \A i \in mine : g[i] = SumFunctionOnSet(part[i], Returns)
  BY DEF RefundsOn
<1>10. \A i \in mine : \A r \in Returns : part[i][r] = IF group[r] = i THEN f[r] ELSE 0
  BY DEF RefundsOf
<1>4. \A r \in Returns : h[r] = IF group[r] \in mine THEN f[r] ELSE 0
  OBVIOUS
<1>5. /\ DOMAIN e \subseteq Returns /\ \A r \in DOMAIN e : e[r] \in Int
      /\ \A r \in Returns : h[r] = IF r \in DOMAIN e THEN e[r] ELSE 0
  BY AmountsInt
<1>6. mine \in SUBSET Invoices /\ \A i \in Invoices : g[i] \in Int /\ (i \notin mine => g[i] = 0)
  BY AmountsInt
<1> HIDE DEF mine, f, group, part, g, h, e
<1>7. SumFunctionOnSet(g, mine) = SumFunctionOnSet(h, Returns)
  BY <1>1, <1>2, <1>3, <1>4, <1>10, SumByGroup
<1>8. SumFunction(e) = SumFunctionOnSet(h, Returns)
  BY <1>1, <1>5, SumOfSome
<1>9. SumFunctionOnSet(g, Invoices) = SumFunctionOnSet(g, mine)
  BY <1>1, <1>6, SumWithNoughts
<1> QED
  BY <1>7, <1>8, <1>9 DEF e, g

(***************************************************************************)
(* A ledger whose invoices are all funded claims no more than they do.     *)
(***************************************************************************)
LEMMA FundedLedger == LedgerInv => LedgerWithinOutstanding
<1> SUFFICES ASSUME LedgerInv, NEW c \in Customers
             PROVE  LedgerBalance(c) <= CustomerOutstanding(c)
                      + Tolerance * SumFunction([i \in InvoicesOf(c) |-> allocations[i]])
  BY DEF LedgerWithinOutstanding
<1> TypeOK
  BY DEF LedgerInv, IInv
<1> DEFINE total == [i \in InvoicesOf(c) |-> inv[i].total]
           owed == [i \in InvoicesOf(c) |-> inv[i].outstanding]
           refunded == [r \in {s \in Returns : LiveReturn(s) /\ inv[ret[s].invoice].customer = c}
                          |-> ret[r].refund]
           totals == [i \in Invoices |-> IF i \in InvoicesOf(c) THEN inv[i].total ELSE 0]
           owes == [i \in Invoices |-> IF i \in InvoicesOf(c) THEN inv[i].outstanding ELSE 0]
           refunds == [i \in Invoices |-> IF inv[i].customer = c THEN RefundsOn(i) ELSE 0]
           covered == [i \in Invoices |-> FundsOf(c)[i] + refunds[i]]
           named == [i \in InvoicesOf(c) |-> allocations[i]]
           forgiven == [i \in Invoices |-> IF i \in InvoicesOf(c) THEN allocations[i] ELSE 0]
           accounted == [i \in Invoices |-> covered[i] + owes[i]]
           claimed == [i \in Invoices |-> accounted[i] + forgiven[i]]
<1>1. IsFiniteSet(Invoices)
  BY SalesAssumption DEF SalesAssumption
<1>2. c # NoCustomer
  BY SalesAssumption DEF SalesAssumption
<1>0. \A i \in Invoices : /\ FundsOf(c)[i] \in Int /\ RefundsOn(i) \in Int
                          /\ allocations[i] \in Nat
  BY AmountsInt DEF FundsOf, LedgerInv, TypeOK
<1>3. \A i \in Invoices :
        /\ totals[i] \in Int /\ owes[i] \in Int /\ FundsOf(c)[i] \in Int /\ refunds[i] \in Int
        /\ covered[i] \in Int /\ covered[i] = FundsOf(c)[i] + refunds[i]
        /\ forgiven[i] \in Int
        /\ accounted[i] \in Int /\ accounted[i] = covered[i] + owes[i]
        /\ claimed[i] \in Int /\ claimed[i] = accounted[i] + forgiven[i]
  BY <1>0, AmountsInt
<1>4. \A i \in Invoices : totals[i] <= claimed[i]
  <2> SUFFICES ASSUME NEW i \in Invoices PROVE totals[i] <= claimed[i]
    OBVIOUS
  <2>1. /\ allocated[i] \in Nat /\ RefundsOn(i) \in Nat /\ allocations[i] \in Nat
        /\ inv[i].total \in Int /\ inv[i].outstanding \in Int
    BY <1>0, AmountsInt DEF LedgerInv
  <2>2. CASE i \in InvoicesOf(c)
    <3>1. /\ inv[i].customer = c
          /\ inv[i].total - inv[i].outstanding <= allocated[i] + RefundsOn(i) + allocations[i]
      BY <1>2, <2>2 DEF LedgerInv, Funded, InvoicesOf
    <3> QED
      BY <2>1, <2>2, <3>1 DEF FundsOf
  <2>3. CASE i \notin InvoicesOf(c)
    BY <2>1, <2>3 DEF FundsOf
  <2> QED
    BY <2>2, <2>3
<1>5. /\ DOMAIN total \subseteq Invoices /\ \A i \in DOMAIN total : total[i] \in Int
      /\ \A i \in Invoices : totals[i] = IF i \in DOMAIN total THEN total[i] ELSE 0
  BY AmountsInt DEF InvoicesOf
<1>6. /\ DOMAIN owed \subseteq Invoices /\ \A i \in DOMAIN owed : owed[i] \in Int
      /\ \A i \in Invoices : owes[i] = IF i \in DOMAIN owed THEN owed[i] ELSE 0
  BY AmountsInt DEF InvoicesOf
<1>7. SumFunction(refunded) = SumFunctionOnSet(refunds, Invoices)
  BY RefundsByInvoice
<1>8. /\ received[c] >= SumFunctionOnSet(FundsOf(c), Invoices)
      /\ adjusted[c] \in Int /\ received[c] \in Int
  BY DEF LedgerInv, Funds, TypeOK
<1>16. /\ DOMAIN named \subseteq Invoices /\ \A i \in DOMAIN named : named[i] \in Int
       /\ \A i \in Invoices : forgiven[i] = IF i \in DOMAIN named THEN named[i] ELSE 0
  BY <1>0 DEF InvoicesOf
<1>9. /\ LedgerBalance(c) = SumFunction(total) - received[c] - SumFunction(refunded) + adjusted[c]
      /\ CustomerOutstanding(c) = SumFunction(owed) + adjusted[c]
  BY DEF LedgerBalance, CustomerOutstanding
<1> HIDE DEF total, owed, named, refunded, totals, owes, refunds, covered, forgiven,
             accounted, claimed
<1>10. SumFunction(total) = SumFunctionOnSet(totals, Invoices)
  BY <1>1, <1>5, SumOfSome
<1>11. SumFunction(owed) = SumFunctionOnSet(owes, Invoices)
  BY <1>1, <1>6, SumOfSome
<1>12. SumFunctionOnSet(totals, Invoices) <= SumFunctionOnSet(claimed, Invoices)
  BY <1>1, <1>3, <1>4, SumAtMost
<1>17. SumFunction(named) = SumFunctionOnSet(forgiven, Invoices)
  BY <1>1, <1>16, SumOfSome
<1>18. SumFunctionOnSet(claimed, Invoices)
         = SumFunctionOnSet(accounted, Invoices) + SumFunctionOnSet(forgiven, Invoices)
  BY <1>1, <1>3, SumPlus
<1>13. SumFunctionOnSet(accounted, Invoices)
         = SumFunctionOnSet(covered, Invoices) + SumFunctionOnSet(owes, Invoices)
  BY <1>1, <1>3, SumPlus
<1>14. SumFunctionOnSet(covered, Invoices)
         = SumFunctionOnSet(FundsOf(c), Invoices) + SumFunctionOnSet(refunds, Invoices)
  BY <1>1, <1>3, SumPlus
<1>15. /\ SumFunctionOnSet(totals, Invoices) \in Int /\ SumFunctionOnSet(owes, Invoices) \in Int
       /\ SumFunctionOnSet(FundsOf(c), Invoices) \in Int
       /\ SumFunctionOnSet(refunds, Invoices) \in Int
       /\ SumFunctionOnSet(forgiven, Invoices) \in Int
  BY <1>1, <1>3, SumInt
<1>19. LedgerBalance(c) <= CustomerOutstanding(c) + SumFunction(named)
  BY <1>7, <1>8, <1>9, <1>10, <1>11, <1>12, <1>13, <1>14, <1>15, <1>17, <1>18
<1>20. Tolerance * SumFunction(named) = SumFunction(named)
  BY <1>15, <1>17 DEF Tolerance
<1> QED
  BY <1>19, <1>20 DEF named

(***************************************************************************)
(* The ledger page, worked out from invoices, payments, returns and        *)
(* adjustments, never claims more from a customer than the outstanding     *)
(* amounts on the invoices do, which sales, payments, returns and their    *)
(* undoing write one by one, and the tolerance each allocation may have    *)
(* forgiven; not even when a payment request names an invoice twice.       *)
(***************************************************************************)
THEOREM LedgerNeverOverclaims == Spec => []LedgerWithinOutstanding
<1>1. Init => LedgerInv
  <2> SUFFICES ASSUME Init PROVE LedgerInv
    OBVIOUS
  <2>1. IInv
    BY InitIInv
  <2>2. /\ \A i \in Invoices : allocated[i] = 0 /\ inv[i].status = "none"
        /\ \A c \in Customers : received[c] = 0
    BY DEF Init, NoInvoice
  <2>3. ASSUME NEW c \in Customers PROVE Funds(c) = 0
    <3>1. \A i \in Invoices : FundsOf(c)[i] = 0
      BY <2>2 DEF FundsOf
    <3>2. IsFiniteSet(Invoices)
      BY SalesAssumption DEF SalesAssumption
    <3> QED
      BY <3>1, <3>2, SumZero DEF Funds
  <2> QED
    BY <2>1, <2>2, <2>3 DEF LedgerInv, Funded, Live
<1>2. LedgerInv /\ [Next]_vars => LedgerInv'
  BY LedgerStep
<1>3. LedgerInv => LedgerWithinOutstanding
  BY FundedLedger
<1> QED
  BY <1>1, <1>2, <1>3, PTL DEF Spec
=============================================================================
