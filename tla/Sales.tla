------------------------------- MODULE Sales -------------------------------
(***************************************************************************)
(* Invoices, returns, customer payments and stock of one shop (tenant):    *)
(* backend/app/modules/sales, payments and inventory.                      *)
(*                                                                         *)
(* One action per service function.  Every function runs in one database   *)
(* session and ends in one commit, so an action is the whole function;     *)
(* interleavings inside a function are the subject of module Checkout and  *)
(* RestaurantBilling.  A function that raises leaves the tables alone, so  *)
(* its refusals are the negated guards here.                               *)
(*                                                                         *)
(* Money is in hundredths of the currency unit, as every column is rounded *)
(* to, and requests carry whole hundredths.  Tolerance is the 0.01 that    *)
(* create_payment lets a payment differ from what is owed; where it is     *)
(* compared without rounding, both outcomes of the float comparison are    *)
(* covered, since a refusal changes nothing.  Price is what one unit of a  *)
(* product contributes to the invoice after discount and tax.              *)
(***************************************************************************)
EXTENDS Integers, FiniteSets, Functions

CONSTANTS
  Products, Customers, Returns,
  Invoices,      \* invoice ids, in creation order (a set of naturals)
  NoCustomer,    \* a walk-in sale: Invoice.customer_id is NULL
  NoLimit,       \* Customer.credit_limit is NULL
  Money,         \* the amounts a money column may hold
  Price,         \* [Products -> Money]
  MaxQty,        \* bound on the quantity of one line
  MaxRepeats,    \* bound: how often one payment request names an invoice
  MaxAllocations,\* bound: payment_allocations rows of an invoice
  OpeningStock,  \* [Products -> Int]
  StockLevels,   \* bound: the levels a manual stock movement may leave
  Adjustments,   \* bound: amounts of one manual ledger adjustment
  MaxAdjusted,   \* bound: absolute net ledger adjustment of a customer
  AllowNegative, \* Settings.allow_negative_stock
  Credit         \* [Customers -> credit-control settings]

CreditSettings ==
  [limit : Money \cup {NoLimit}, autoBlock : BOOLEAN,
   allowBeyond : BOOLEAN, needsManager : BOOLEAN]

ASSUME SalesAssumption ==
  /\ Invoices \subseteq Nat /\ Invoices # {} /\ IsFiniteSet(Invoices)
  /\ Money \subseteq Nat /\ 0 \in Money
  /\ NoCustomer \notin Customers
  /\ NoLimit \notin Money
  /\ MaxQty \in Nat /\ MaxRepeats \in Nat /\ MaxAllocations \in Nat
  /\ IsFiniteSet(Returns)
  /\ Price \in [Products -> Money]
  /\ OpeningStock \in [Products -> Int]
  /\ StockLevels \subseteq Int
  /\ Adjustments \subseteq Int /\ MaxAdjusted \in Nat
  /\ AllowNegative \in BOOLEAN
  /\ Credit \in [Customers -> CreditSettings]

VARIABLES
  inv,         \* table invoices with invoice_items
  ret,         \* table returns with return_items
  stock,       \* inventory.quantity
  manualStock, \* net of the stock_history rows with source "manual"
  received,    \* per customer, the sum of payments.amount
  allocated,   \* per invoice, the sum of payment_allocations.amount
  allocations, \* per invoice, the number of its payment_allocations rows
  adjusted     \* per customer, the sum of customer_ledger_adjustments.amount

vars == <<inv, ret, stock, manualStock, received, allocated, allocations, adjusted>>
-----------------------------------------------------------------------------
Quantities == [Products -> 0..MaxQty]
Carts == Quantities \ {[p \in Products |-> 0]}

\* quantity 0 stands for "no such line": the cart holds one line per product.
InvoiceRow ==
  [status : {"none", "paid", "partial", "refunded", "cancelled"},
   payment_status : {"none", "paid", "partially_paid", "credit", "cancelled"},
   customer : Customers \cup {NoCustomer},
   has_due_date : BOOLEAN,
   total : Money, paid : Int, outstanding : Int,
   quantity : Quantities, returned : Quantities]

ReturnRow ==
  [status : {"none", "partially_refunded", "fully_refunded", "cancelled"},
   invoice : Invoices, quantity : Quantities,
   restocked : SUBSET Products, refund : Money]

NoInvoice ==
  [status |-> "none", payment_status |-> "none", customer |-> NoCustomer,
   has_due_date |-> FALSE, total |-> 0, paid |-> 0, outstanding |-> 0,
   quantity |-> [p \in Products |-> 0], returned |-> [p \in Products |-> 0]]

NoReturn ==
  [status |-> "none", invoice |-> CHOOSE i \in Invoices : TRUE,
   quantity |-> [p \in Products |-> 0], restocked |-> {}, refund |-> 0]

Issued == {i \in Invoices : inv[i].status # "none"}
Live(i) == inv[i].status \notin {"none", "cancelled"}
LiveReturn(r) == ret[r].status \in {"partially_refunded", "fully_refunded"}
LiveReturnsOf(i) == {r \in Returns : LiveReturn(r) /\ ret[r].invoice = i}

\* Mutant: the smaller of two amounts is not taken.
LeastIgnored(a, b) == a
Least(a, b) == IF a <= b THEN a ELSE b
Value(q) == SumFunction([p \in Products |-> Price[p] * q[p]])

\* Mutant: the invoice status "partial" stored as payment_status.
PartialForPartiallyPaid(paid, total) ==
  IF paid >= total THEN "paid" ELSE IF paid <= 0 THEN "credit" ELSE "partial"

DerivePaymentStatus(paid, total) ==
  IF paid >= total THEN "paid"
  ELSE IF paid <= 0 THEN "credit" ELSE "partially_paid"

InvoicesOf(c) == {i \in Invoices : Live(i) /\ inv[i].customer = c}
\* Mutant: the manual ledger adjustments are forgotten.
OutstandingWithoutAdjustments(c) ==
  SumFunction([i \in InvoicesOf(c) |-> inv[i].outstanding])

CustomerOutstanding(c) ==
  SumFunction([i \in InvoicesOf(c) |-> inv[i].outstanding]) + adjusted[c]

\* isManager: the role of the requesting user is owner or manager.
CreditAllowed(c, extra, isManager) ==
  \/ extra <= 0
  \/ /\ Credit[c].needsManager => isManager
     /\ \/ Credit[c].limit = NoLimit
        \/ CustomerOutstanding(c) + extra <= Credit[c].limit
        \/ ~Credit[c].autoBlock /\ (Credit[c].allowBeyond \/ isManager)
-----------------------------------------------------------------------------
Init ==
  /\ inv = [i \in Invoices |-> NoInvoice]
  /\ ret = [r \in Returns |-> NoReturn]
  /\ stock = OpeningStock
  /\ manualStock = [p \in Products |-> 0]
  /\ received = [c \in Customers |-> 0]
  /\ allocated = [i \in Invoices |-> 0] /\ allocations = [i \in Invoices |-> 0]
  /\ adjusted = [c \in Customers |-> 0]

\* Mutant: the check looks for any stock, not for enough of it.
SomeStock(cart) == \A p \in Products : cart[p] > 0 => stock[p] > 0
InStock(cart) == \A p \in Products : cart[p] > 0 => stock[p] >= cart[p]

\* A replayed idempotency key returns the stored invoice and changes nothing.
CreateInvoice(i, c, cart, onCredit, paidNow, isManager) ==
  /\ inv[i].status = "none"
  /\ \A j \in Invoices : j < i => inv[j].status # "none"
  /\ AllowNegative \/ InStock(cart)
  /\ LET total == Value(cart)
         paid == IF onCredit THEN paidNow ELSE total
     IN /\ total \in Money
        /\ ~onCredit => paidNow = 0   \* read for partial and credit sales only
        /\ onCredit => /\ c # NoCustomer
                       /\ paidNow <= total
                       /\ CreditAllowed(c, total - paidNow, isManager)
        /\ inv' = [inv EXCEPT ![i] =
             [status |-> "paid",
              payment_status |-> IF onCredit THEN DerivePaymentStatus(paid, total)
                                 ELSE "paid",
              customer |-> c, has_due_date |-> onCredit,
              total |-> total, paid |-> paid, outstanding |-> total - paid,
              quantity |-> cart, returned |-> [p \in Products |-> 0]]]
        \* record_initial_payment: nothing is recorded for a walk-in or an unpaid sale
        /\ IF c = NoCustomer \/ paid = 0
           THEN UNCHANGED <<received, allocated, allocations>>
           ELSE /\ received' = [received EXCEPT ![c] = @ + paid]
                /\ allocated' = [allocated EXCEPT ![i] = @ + paid]
                /\ allocations' = [allocations EXCEPT ![i] = @ + 1]
  /\ stock' = [p \in Products |-> stock[p] - cart[p]]
  /\ UNCHANGED <<ret, manualStock, adjusted>>

\* Mutant: the refusal of invoices with returns is missing.
VoidableWithReturns(i) ==
  Live(i) /\ (inv[i].paid > 0 => inv[i].payment_status = "paid")
Voidable(i) ==
  /\ Live(i)
  /\ inv[i].status \notin {"partial", "refunded"}
  /\ inv[i].paid > 0 => inv[i].payment_status = "paid"

VoidInvoice(i) ==
  /\ Voidable(i)
  /\ inv' = [inv EXCEPT ![i].status = "cancelled",
                        ![i].payment_status = "cancelled",
                        ![i].outstanding = 0]
  /\ stock' = [p \in Products |-> stock[p] + inv[i].quantity[p]]
  /\ UNCHANGED <<ret, manualStock, received, allocated, allocations, adjusted>>
-----------------------------------------------------------------------------
\* The invoice row after its outstanding amount and returned quantities change.
Rebalanced(i, outstanding, changed, returned, status) ==
  LET paid == IF changed THEN inv[i].total - outstanding ELSE inv[i].paid
  IN [inv[i] EXCEPT
        !.outstanding = outstanding,
        !.paid = paid,
        !.payment_status = IF changed THEN DerivePaymentStatus(paid, inv[i].total)
                           ELSE @,
        !.returned = returned,
        !.status = status]

FullyReturned(i, returned) ==
  \A p \in Products : returned[p] >= inv[i].quantity[p]

\* Mutant: earlier returns of the item are not deducted.
RemainingIgnoringReturns(i, p) == inv[i].quantity[p]
Remaining(i, p) == inv[i].quantity[p] - inv[i].returned[p]

\* Mutant: damaged and discarded items go back on the shelf too.
AlwaysRestocked(request, restocked) == [p \in Products |-> stock[p] + request[p]]
Restocked(request, restocked) ==
  [p \in Products |-> IF p \in restocked THEN stock[p] + request[p] ELSE stock[p]]

CreateReturn(r, i, request, restocked) ==
  /\ ret[r].status = "none"
  /\ Live(i)
  /\ \A p \in Products : request[p] <= Remaining(i, p)
  /\ restocked \subseteq {p \in Products : request[p] > 0}
  /\ LET refund == Value(request)
         credit == Least(refund, inv[i].outstanding)
         returned == [p \in Products |-> inv[i].returned[p] + request[p]]
         full == FullyReturned(i, returned)
     IN /\ refund \in Money
        /\ inv' = [inv EXCEPT ![i] =
             Rebalanced(i, inv[i].outstanding - credit, credit > 0, returned,
                        IF full THEN "refunded" ELSE "partial")]
        /\ ret' = [ret EXCEPT ![r] =
             [status |-> IF full THEN "fully_refunded" ELSE "partially_refunded",
              invoice |-> i, quantity |-> request,
              restocked |-> restocked, refund |-> refund]]
  /\ stock' = Restocked(request, restocked)
  /\ UNCHANGED <<manualStock, received, allocated, allocations, adjusted>>

CancelReturn(r) ==
  /\ LiveReturn(r)
  /\ LET i == ret[r].invoice
         room == inv[i].total - inv[i].outstanding
         credit == IF Least(ret[r].refund, room) > 0 THEN Least(ret[r].refund, room)
                   ELSE 0
         left(p) == inv[i].returned[p] - ret[r].quantity[p]
         returned == [p \in Products |-> IF left(p) > 0 THEN left(p) ELSE 0]
     IN inv' = [inv EXCEPT ![i] =
          Rebalanced(i, inv[i].outstanding + credit, credit > 0, returned,
                     IF FullyReturned(i, returned) THEN "refunded"
                     ELSE IF \E p \in Products : returned[p] > 0 THEN "partial"
                     ELSE "paid")]
  /\ ret' = [ret EXCEPT ![r].status = "cancelled"]
  /\ stock' = [p \in Products |-> IF p \in ret[r].restocked
                                  THEN stock[p] - ret[r].quantity[p] ELSE stock[p]]
  /\ UNCHANGED <<manualStock, received, allocated, allocations, adjusted>>
-----------------------------------------------------------------------------
\* The order list_outstanding_invoices and create_payment read invoices in:
\* due date first (NULLs last), then creation.  All due dates are equal here.
DueBefore(i, j) ==
  \/ inv[i].has_due_date /\ ~inv[j].has_due_date
  \/ inv[i].has_due_date = inv[j].has_due_date /\ i < j

Payable(c) == {i \in InvoicesOf(c) : inv[i].outstanding > 0}

\* 0.01
Tolerance == 1

\* A balance of up to Tolerance is forgiven.
LeftOver(due) == IF due <= Tolerance THEN 0 ELSE due

\* The payment's rows: split is what it gives each invoice, in how many allocations.
Allocated(split, times) ==
  /\ \E i \in Invoices : split[i] > 0
  /\ \A i \in Invoices : allocations[i] + times[i] <= MaxAllocations
  /\ allocated' = [i \in Invoices |-> allocated[i] + split[i]]
  /\ allocations' = [i \in Invoices |-> allocations[i] + times[i]]
  /\ inv' = [i \in Invoices |->
       IF split[i] = 0 THEN inv[i]
       ELSE [inv[i] EXCEPT
               !.paid = @ + split[i],
               !.outstanding = LeftOver(@ - split[i]),
               !.payment_status = IF LeftOver(inv[i].outstanding - split[i]) = 0
                                  THEN "paid" ELSE "partially_paid"]]
  /\ UNCHANGED <<ret, stock, manualStock, adjusted>>

\* The amount is applied oldest first; rest is what is left of it then.
OldestFirst(c, split, rest) ==
  /\ \A i \in Invoices : split[i] > 0 => i \in Payable(c) /\ split[i] <= inv[i].outstanding
  /\ \A i, j \in Payable(c) :
       DueBefore(i, j) /\ split[j] > 0 => split[i] = inv[i].outstanding
  /\ rest > 0 => \A i \in Payable(c) : split[i] = inv[i].outstanding
  /\ Allocated(split, [i \in Invoices |-> IF split[i] > 0 THEN 1 ELSE 0])
  /\ received' = [received EXCEPT ![c] = @ + SumFunction(split) + rest]

\* Each requested allocation, of which several may name one invoice, is compared
\* with what is outstanding before the request.
Requested(c, split, times) ==
  /\ \A i \in Invoices :
       /\ times[i] <= split[i]
       /\ split[i] <= times[i] * (inv[i].outstanding + Tolerance)
  /\ Allocated(split, times)
  /\ received' = [received EXCEPT ![c] = @ + SumFunction(split)]

\* payload.allocations is empty, or names invoices of the customer, cancelled ones
\* too.  An invoice with no room for an allocation under the bound is left out first.
CreatePayment(c, split) ==
  /\ \A i \in Invoices :
       split[i] > 0 => /\ i \in Issued /\ inv[i].customer = c
                       /\ allocations[i] < MaxAllocations
  /\ \/ \E rest \in 0..Tolerance : OldestFirst(c, split, rest)
     \/ \E times \in [Invoices -> 0..MaxRepeats] : Requested(c, split, times)

CreateLedgerAdjustment(c, amount) ==
  /\ adjusted[c] + amount \in -MaxAdjusted..MaxAdjusted
  /\ adjusted' = [adjusted EXCEPT ![c] = @ + amount]
  /\ UNCHANGED <<inv, ret, stock, manualStock, received, allocated, allocations>>

\* The movement types "add" (to any higher level), "reduce" (never below zero)
\* and "set" (to any level that is not negative).
AdjustStock(p, level) ==
  /\ level > stock[p] \/ level >= 0
  /\ stock' = [stock EXCEPT ![p] = level]
  /\ manualStock' = [manualStock EXCEPT ![p] = @ + (level - stock[p])]
  /\ UNCHANGED <<inv, ret, received, allocated, allocations, adjusted>>
-----------------------------------------------------------------------------
Next ==
  \/ \E i \in Invoices, c \in Customers \cup {NoCustomer}, cart \in Carts,
        onCredit, isManager \in BOOLEAN, paidNow \in Money :
       CreateInvoice(i, c, cart, onCredit, paidNow, isManager)
  \/ \E i \in Invoices : VoidInvoice(i)
  \/ \E r \in Returns, i \in Invoices, request \in Carts,
        restocked \in SUBSET Products : CreateReturn(r, i, request, restocked)
  \/ \E r \in Returns : CancelReturn(r)
  \/ \E c \in Customers, split \in [Invoices -> Money] : CreatePayment(c, split)
  \/ \E c \in Customers, amount \in Adjustments : CreateLedgerAdjustment(c, amount)
  \/ \E p \in Products, level \in StockLevels : AdjustStock(p, level)

Spec == Init /\ [][Next]_vars
-----------------------------------------------------------------------------
(***************************************************************************)
(* Every table holds rows of its type.                                     *)
(***************************************************************************)
TypeOK ==
  /\ inv \in [Invoices -> InvoiceRow]
  /\ ret \in [Returns -> ReturnRow]
  /\ stock \in [Products -> Int]
  /\ manualStock \in [Products -> Int]
  /\ received \in [Customers -> Int]
  /\ allocated \in [Invoices -> Int] /\ allocations \in [Invoices -> Nat]
  /\ adjusted \in [Customers -> Int]

(***************************************************************************)
(* The three money columns of an invoice never drift apart, although five  *)
(* functions write them separately: while something is outstanding, it is  *)
(* exactly what was not paid; once nothing is, no more than the tolerance  *)
(* was forgiven (more than the total may have been paid: a settled invoice *)
(* takes the tolerance again and again).  payment_status is the one those  *)
(* amounts stand for, although create_payment sets it by hand and the      *)
(* other paths derive it from two of them.                                 *)
(***************************************************************************)
AmountsAgree ==
  \A i \in Invoices : Live(i) =>
    /\ inv[i].outstanding \in 0..inv[i].total
    /\ IF inv[i].outstanding > 0
       THEN /\ inv[i].paid + inv[i].outstanding = inv[i].total
            /\ inv[i].payment_status = IF inv[i].paid = 0 THEN "credit" ELSE "partially_paid"
       ELSE /\ inv[i].paid >= inv[i].total - Tolerance
            /\ inv[i].payment_status = "paid"

(***************************************************************************)
(* A cancelled invoice is closed for good: nothing is owed on it, none of  *)
(* its returns is live and none of its items counts as returned, so        *)
(* cancel_return, which does not look at the invoice's status, can never   *)
(* bring it back to life.                                                  *)
(***************************************************************************)
CancelledIsClosed ==
  \A i \in Invoices : inv[i].status = "cancelled" =>
    /\ inv[i].outstanding = 0
    /\ LiveReturnsOf(i) = {}
    /\ \A p \in Products : inv[i].returned[p] = 0

\* The units of product p that standing returns took back from invoice i.
UnitsBack(i, p) ==
  {u \in Returns \X (1..MaxQty) : u[1] \in LiveReturnsOf(i) /\ u[2] <= ret[u[1]].quantity[p]}

(***************************************************************************)
(* returned_quantity of an item counts the units the standing returns      *)
(* took back, it never exceeds what was sold, and the invoice's status     *)
(* says whether none, some or all of the items are back.                   *)
(***************************************************************************)
ReturnsAccountedFor ==
  \A i \in Invoices : Live(i) =>
    /\ \A p \in Products :
         /\ inv[i].returned[p] = Cardinality(UnitsBack(i, p))
         /\ inv[i].returned[p] <= inv[i].quantity[p]
    /\ inv[i].status = IF inv[i].returned = inv[i].quantity THEN "refunded"
                       ELSE IF LiveReturnsOf(i) # {} THEN "partial"
                       ELSE "paid"

(***************************************************************************)
(* The stock on hand can be rebuilt from the documents: opening stock,     *)
(* manual movements, less the items of every invoice that was not voided,  *)
(* plus what standing returns put back on the shelf.                       *)
(***************************************************************************)
StockReconciles ==
  \A p \in Products :
    stock[p] = OpeningStock[p] + manualStock[p]
      - SumFunction([i \in {j \in Invoices : Live(j)} |-> inv[i].quantity[p]])
      + SumFunction([r \in {s \in Returns : LiveReturn(s) /\ p \in ret[s].restocked}
                     |-> ret[r].quantity[p]])

(***************************************************************************)
(* With allow_negative_stock off, only undoing a return (which takes the   *)
(* goods off the shelf again without a check) can drive stock below zero:  *)
(* no sale or manual movement lowers it there.                             *)
(***************************************************************************)
OnlyCancelReturnGoesNegative ==
  [][\A p \in Products :
       ~AllowNegative /\ stock'[p] < 0 /\ stock'[p] < stock[p]
         => \E r \in Returns : LiveReturn(r) /\ ret'[r].status = "cancelled"]_vars

(***************************************************************************)
(* A cancelled invoice is not reopened by any of the functions that load   *)
(* invoices without looking at their status: its row is never written      *)
(* again, but for a payment that names it, which is turned down beyond the *)
(* tolerance; what it is given is counted as paid, and nothing else moves. *)
(***************************************************************************)
CancelledIsFinal ==
  [][\A i \in Invoices : inv[i].status = "cancelled" =>
       LET given == allocated'[i] - allocated[i]
       IN /\ inv'[i] = IF given = 0 THEN inv[i]
                       ELSE [inv[i] EXCEPT !.paid = @ + given, !.payment_status = "paid"]
          /\ given <= Tolerance * (allocations'[i] - allocations[i])]_vars

(***************************************************************************)
(* get_customer_ledger's closing balance.                                  *)
(***************************************************************************)
LedgerBalance(c) ==
  SumFunction([i \in InvoicesOf(c) |-> inv[i].total])
  - received[c]
  - SumFunction([r \in {s \in Returns : LiveReturn(s)
                          /\ inv[ret[s].invoice].customer = c} |-> ret[r].refund])
  + adjusted[c]

(***************************************************************************)
(* The ledger, rebuilt from invoices, payments, returns and adjustments,   *)
(* claims no more from a customer than the invoices' own outstanding       *)
(* amounts do, but for the tolerance, which each allocation of a payment   *)
(* may have forgiven once.                                                 *)
(***************************************************************************)
LedgerWithinOutstanding ==
  \A c \in Customers :
    LedgerBalance(c) <= CustomerOutstanding(c)
                        + Tolerance * SumFunction([i \in InvoicesOf(c) |-> allocations[i]])

(***************************************************************************)
(* sales/service.py:773-776: cancelling a return cannot restore more credit *)
(* than was ever actually applied, so what was paid in money is never owed *)
(* a second time.                                                          *)
(***************************************************************************)
MoneyPaidIsNotOwedAgain ==
  \A i \in Invoices : Live(i) /\ inv[i].customer # NoCustomer =>
    allocated[i] + inv[i].outstanding <= inv[i].total
=============================================================================
