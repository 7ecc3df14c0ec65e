---------------------------- MODULE Procurement ----------------------------
(***************************************************************************)
(* Buying from vendors: the screens of billing-app features/procurement     *)
(* over backend modules/procurement.  Purchases are entered as drafts or as *)
(* received, confirmed, partly sent back, paid and cancelled; three ledgers *)
(* are kept of it by hand: what is owed on each purchase, what is owed to    *)
(* each vendor, and the stock.                                             *)
(*                                                                         *)
(* A press takes its content from what the database held when its screen    *)
(* was read and is served any time later or never: none of these calls has   *)
(* an idempotency key, so a call whose answer was lost is simply pressed     *)
(* again.  The service handles a call in one transaction.                    *)
(*                                                                         *)
(* A purchase here is one line of the one product at a unit price of one      *)
(* hundredth, so quantity, total and refund are the same number.  The payment *)
(* dialog names no purchases; other callers of the service may (PaidByName).   *)
(***************************************************************************)
EXTENDS Integers, FiniteSets, Functions

CONSTANTS
    Vendors, Purchases, Returns, NoVendor, NoPurchase, NoReturn,
    Screens,      \* screens with a press under way; each awaits one at a time
    PaidByName,   \* the vendors also paid past the dialog, by naming purchases
    MaxQty,       \* bound: units on a purchase
    MaxPayment,   \* bound: amount of a payment
    MaxNamings,   \* bound: how often one payment names a purchase
    MaxCalls      \* bound: presses

ASSUME ProcurementAssumption ==
    /\ MaxQty \in Nat /\ MaxPayment \in Nat /\ MaxCalls \in Nat /\ MaxNamings \in Nat
    /\ PaidByName \subseteq Vendors
    /\ IsFiniteSet(Purchases) /\ IsFiniteSet(Returns) /\ IsFiniteSet(Vendors)
    /\ NoVendor \notin Vendors /\ NoPurchase \notin Purchases /\ NoReturn \notin Returns

VARIABLES
    vendor,     \* vendor |-> [known, outstanding, its VendorPayment rows: their sum, how many]
    purchase,   \* purchase |-> its row
    ret,        \* return |-> its row
    stock,      \* Inventory.quantity
    reqs,       \* screen |-> its press not yet served
    calls       \* presses so far, for their bound

ledgers == <<vendor, purchase, ret, stock>>
vars == <<ledgers, reqs, calls>>

PurchaseRow ==
    [status : {"none", "draft", "received", "cancelled"}, vendor : Vendors \union {NoVendor},
     quantity : 0..MaxQty, immediate : BOOLEAN, payment_status : {"unpaid", "partial", "paid"},
     paid : Nat, outstanding : Nat, returned : Nat]
ReturnRow ==
    [status : {"none", "completed", "cancelled"}, purchase : Purchases \union {NoPurchase},
     quantity : 0..MaxQty, applied_credit : Nat]

NoEntry == [status |-> "none", vendor |-> NoVendor, quantity |-> 0, immediate |-> FALSE,
            payment_status |-> "unpaid", paid |-> 0, outstanding |-> 0, returned |-> 0]
NoReturnYet == [status |-> "none", purchase |-> NoPurchase, quantity |-> 0,
                applied_credit |-> 0]

Unnamed == [p \in Purchases |-> 0]

Kinds == {"vendor", "delete", "create", "confirm", "cancel", "return", "unreturn", "pay"}
Press(kind) ==
    [kind |-> kind, vendor |-> NoVendor, purchase |-> NoPurchase, ret |-> NoReturn,
     quantity |-> 0, received |-> FALSE, immediate |-> FALSE, split |-> Unnamed]
Idle == Press("none")

EntriesOf(v) == {p \in Purchases : purchase[p].vendor = v}
Received(v) == {p \in EntriesOf(v) : purchase[p].status = "received"}
Remaining(p) == purchase[p].quantity - purchase[p].returned

\* Rows refer to rows there are, and every press to what its screen showed.
TypeOK ==
    /\ vendor \in [Vendors -> [known : BOOLEAN, outstanding : Nat, payments : Nat, times : Nat]]
    /\ purchase \in [Purchases -> PurchaseRow]
    /\ ret \in [Returns -> ReturnRow]
    /\ stock \in Int /\ calls \in 0..MaxCalls
    /\ \A p \in Purchases :
           purchase[p].status # "none" => /\ purchase[p].vendor \in Vendors
                                          /\ vendor[purchase[p].vendor].known
    /\ \A r \in Returns :
           ret[r].status # "none" => /\ ret[r].purchase \in Purchases
                                     /\ purchase[ret[r].purchase].status \in {"received", "cancelled"}
    /\ DOMAIN reqs = Screens
    /\ \A s \in Screens : /\ reqs[s].kind \in Kinds \union {"none"}
                          /\ DOMAIN reqs[s] = DOMAIN Idle

Init ==
    /\ vendor = [v \in Vendors |-> [known |-> FALSE, outstanding |-> 0, payments |-> 0, times |-> 0]]
    /\ purchase = [p \in Purchases |-> NoEntry]
    /\ ret = [r \in Returns |-> NoReturnYet]
    /\ stock = 0 /\ reqs = [s \in Screens |-> Idle] /\ calls = 0

-----------------------------------------------------------------------------
(* The screens. *)

Send(r) ==
    /\ calls < MaxCalls
    /\ calls' = calls + 1
    /\ \E s \in Screens : reqs[s] = Idle /\ reqs' = [reqs EXCEPT ![s] = r]
    /\ UNCHANGED ledgers

\* VendorFormDialog; editing a vendor changes nothing kept here.
VendorFormDialog == Send(Press("vendor"))

VendorTable(v) ==
    /\ vendor[v].known
    /\ Send([Press("delete") EXCEPT !.vendor = v])

\* Saved as a draft or recorded as received, to be paid later or paid on the spot.
PurchaseEntryFormDialog(v) ==
    /\ vendor[v].known
    /\ \E q \in 1..MaxQty, received, immediate \in BOOLEAN :
           Send([Press("create") EXCEPT !.vendor = v, !.quantity = q,
                                        !.received = received, !.immediate = immediate])

canConfirm(p) ==
    /\ purchase[p].status = "draft"
    /\ Send([Press("confirm") EXCEPT !.purchase = p])

\* From the list of purchases or from the page of one.
canCancel(p) ==
    /\ purchase[p].status \notin {"none", "cancelled"}
    /\ Send([Press("cancel") EXCEPT !.purchase = p])

PurchaseReturnFormDialog(p) ==
    /\ purchase[p].status = "received"
    /\ \E q \in 1..Remaining(p) :
           Send([Press("return") EXCEPT !.purchase = p, !.quantity = q])

PurchaseReturnTable(r) ==
    /\ ret[r].status = "completed"
    /\ Send([Press("unreturn") EXCEPT !.ret = r])

\* The dialog shows what is outstanding and takes any amount.
VendorPaymentFormDialog(v) ==
    /\ vendor[v].known
    /\ \E amount \in 1..MaxPayment :
           Send([Press("pay") EXCEPT !.vendor = v, !.quantity = amount])

\* POST /vendor-payments with allocations: what each purchase of the vendor is given.
NamedPayment(v) ==
    /\ v \in PaidByName /\ vendor[v].known
    /\ \E split \in [Purchases -> 0..MaxPayment] :
           /\ split # Unnamed /\ SumFunction(split) <= MaxPayment
           /\ \A p \in Purchases : split[p] > 0 => p \in EntriesOf(v)
           /\ Send([Press("pay") EXCEPT !.vendor = v, !.split = split,
                                        !.quantity = SumFunction(split)])

-----------------------------------------------------------------------------
(* The service. *)

Serve(r) ==
    /\ \E s \in Screens : reqs[s] = r /\ reqs' = [reqs EXCEPT ![s] = Idle]
    /\ UNCHANGED calls

\* Any answer may be lost, and a request with it; a refusal changes nothing either.
Vanish(r) == Serve(r) /\ UNCHANGED ledgers

Owes(v, amount) == vendor' = [vendor EXCEPT ![v].outstanding = @ + amount]
\* max(0.0, outstanding - amount)
Settles(v, amount) ==
    vendor' = [vendor EXCEPT ![v].outstanding = IF @ > amount THEN @ - amount ELSE 0]

create_vendor(r) ==
    /\ r.kind = "vendor"
    /\ \E v \in Vendors : ~vendor[v].known /\ vendor' = [vendor EXCEPT ![v].known = TRUE]
    /\ Serve(r) /\ UNCHANGED <<purchase, ret, stock>>

\* Mutant of delete_vendor: purchases entered since the screen was read are not looked for.
DeleteAnyway(r) ==
    /\ r.kind = "delete" /\ vendor[r.vendor].known
    /\ vendor' = [vendor EXCEPT ![r.vendor].known = FALSE]
    /\ Serve(r) /\ UNCHANGED <<purchase, ret, stock>>

delete_vendor(r) ==
    /\ r.kind = "delete" /\ vendor[r.vendor].known
    /\ EntriesOf(r.vendor) = {}
    /\ vendor' = [vendor EXCEPT ![r.vendor].known = FALSE]
    /\ Serve(r) /\ UNCHANGED <<purchase, ret, stock>>

\* What receiving a purchase does to its own row: paid in full or owed in full.
ReceivedRow(row) ==
    [row EXCEPT !.status = "received",
                !.payment_status = IF row.immediate THEN "paid" ELSE @,
                !.paid = IF row.immediate THEN row.quantity ELSE @,
                !.outstanding = IF row.immediate THEN @ ELSE row.quantity]

\* ... to the vendor's balance and to the stock.
apply_receipt_effects(row) ==
    /\ stock' = stock + row.quantity
    /\ Owes(row.vendor, IF row.immediate THEN 0 ELSE row.quantity)

create_purchase_entry(r) ==
    /\ r.kind = "create" /\ vendor[r.vendor].known
    /\ LET row == [NoEntry EXCEPT !.status = "draft", !.vendor = r.vendor,
                                  !.quantity = r.quantity, !.immediate = r.immediate]
       IN /\ \E p \in Purchases :
                /\ purchase[p].status = "none"
                /\ purchase' = [purchase EXCEPT ![p] = IF r.received THEN ReceivedRow(row) ELSE row]
          /\ IF r.received THEN apply_receipt_effects(row) ELSE UNCHANGED <<vendor, stock>>
    /\ Serve(r) /\ UNCHANGED ret

\* Mutant of confirm_purchase_entry: a second confirmation receives the goods again.
ConfirmAgain(r) ==
    /\ r.kind = "confirm" /\ purchase[r.purchase].status \in {"draft", "received"}
    /\ purchase' = [purchase EXCEPT ![r.purchase] = ReceivedRow(@)]
    /\ apply_receipt_effects(purchase[r.purchase])
    /\ Serve(r) /\ UNCHANGED ret

confirm_purchase_entry(r) ==
    /\ r.kind = "confirm" /\ purchase[r.purchase].status = "draft"
    /\ purchase' = [purchase EXCEPT ![r.purchase] = ReceivedRow(@)]
    /\ apply_receipt_effects(purchase[r.purchase])
    /\ Serve(r) /\ UNCHANGED ret

\* The whole quantity leaves the stock, what was sent back before included; the row
\* keeps the amount outstanding it had.
cancel_purchase_entry(r) ==
    /\ r.kind = "cancel" /\ purchase[r.purchase].status # "cancelled"
    /\ LET row == purchase[r.purchase]
       IN IF row.status = "received"
          THEN stock' = stock - row.quantity /\ Settles(row.vendor, row.outstanding)
          ELSE UNCHANGED <<stock, vendor>>
    /\ purchase' = [purchase EXCEPT ![r.purchase].status = "cancelled"]
    /\ Serve(r) /\ UNCHANGED ret

LesserOf(a, b) == IF a < b THEN a ELSE b

\* A return of r.quantity units is a credit against what is still owed on the purchase.
Returned(r) ==
    LET row == purchase[r.purchase]
        credit == LesserOf(r.quantity, row.outstanding)
    IN /\ \E new \in {s \in Returns : ret[s].status = "none"} :
              ret' = [ret EXCEPT ![new] = [status |-> "completed", purchase |-> r.purchase,
                                           quantity |-> r.quantity, applied_credit |-> credit]]
       /\ purchase' = [purchase EXCEPT ![r.purchase].returned = @ + r.quantity,
                                       ![r.purchase].outstanding = @ - credit]
       /\ Settles(row.vendor, credit)
       /\ stock' = stock - r.quantity

\* Mutant of create_purchase_return: what is left to send back is not looked at again.
ReturnAnyway(r) ==
    /\ r.kind = "return" /\ purchase[r.purchase].status = "received"
    /\ Returned(r)
    /\ Serve(r)

create_purchase_return(r) ==
    /\ r.kind = "return" /\ purchase[r.purchase].status = "received"
    /\ r.quantity <= Remaining(r.purchase)
    /\ Returned(r)
    /\ Serve(r)

\* The credit put back is worked out anew from the refund, whatever was applied then
\* and whatever became of the purchase.
cancel_purchase_return(r) ==
    /\ r.kind = "unreturn" /\ ret[r.ret].status = "completed"
    /\ ret' = [ret EXCEPT ![r.ret].status = "cancelled", ![r.ret].applied_credit = 0]
    /\ LET refund == ret[r.ret].quantity
           p == ret[r.ret].purchase
           credit == LesserOf(refund, purchase[p].quantity - purchase[p].outstanding)
       IN /\ purchase' = [purchase EXCEPT ![p].returned = @ - refund,
                                          ![p].outstanding = @ + credit]
          /\ Owes(purchase[p].vendor, credit)
          /\ stock' = stock + refund
    /\ Serve(r)

\* Mutant of Outstanding: cancelled purchases are still there to be paid.
OutstandingEver(v) == {p \in EntriesOf(v) : purchase[p].outstanding > 0}

Outstanding(v) == {p \in Received(v) : purchase[p].outstanding > 0}

\* 0.01
Tolerance == 1

\* What is left owed of a purchase: up to Tolerance is forgiven.
LeftOver(due) == IF due <= Tolerance THEN 0 ELSE due

\* Oldest due first: each purchase in turn is paid in full while the amount lasts, and
\* what lasts beyond them all is Tolerance at most.  Due dates are left out, so the
\* turns are any.
Applied(v, amount) ==
    {split \in [Purchases -> 0..amount] :
        /\ split # Unnamed
        /\ \A p \in Purchases : split[p] > 0 => /\ p \in Outstanding(v)
                                                /\ split[p] <= purchase[p].outstanding
        /\ Cardinality({p \in Outstanding(v) :
                            split[p] > 0 /\ split[p] < purchase[p].outstanding}) <= 1
        /\ \/ SumFunction(split) = amount
           \/ /\ amount - SumFunction(split) \in 1..Tolerance
              /\ \A p \in Outstanding(v) : split[p] = purchase[p].outstanding}

\* Named purchases are the vendor's, of any status; each naming is compared with what is
\* outstanding before the request.
Allocated(v, split) ==
    \A p \in Purchases : split[p] > 0 =>
        /\ p \in EntriesOf(v)
        /\ \E times \in 1..MaxNamings :
              times <= split[p] /\ split[p] <= times * (purchase[p].outstanding + Tolerance)

\* What a purchase given amount becomes.
PaidRow(row, amount) ==
    IF amount = 0 THEN row
    ELSE [row EXCEPT !.paid = @ + amount, !.outstanding = LeftOver(@ - amount),
                     !.payment_status = IF LeftOver(row.outstanding - amount) = 0
                                        THEN "paid" ELSE "partial"]

\* An amount without such a split is refused.
create_vendor_payment(r) ==
    /\ r.kind = "pay" /\ vendor[r.vendor].known
    /\ \E split \in IF r.split = Unnamed THEN Applied(r.vendor, r.quantity) ELSE {r.split} :
           /\ r.split # Unnamed => Allocated(r.vendor, split)
           /\ purchase' = [p \in Purchases |-> PaidRow(purchase[p], split[p])]
    /\ vendor' = [vendor EXCEPT ![r.vendor].payments = @ + r.quantity,
                                ![r.vendor].times = @ + 1,
                                ![r.vendor].outstanding = IF @ > r.quantity THEN @ - r.quantity ELSE 0]
    /\ Serve(r) /\ UNCHANGED <<ret, stock>>

-----------------------------------------------------------------------------

ScreenStep ==
    \/ VendorFormDialog
    \/ \E v \in Vendors : \/ VendorTable(v) \/ PurchaseEntryFormDialog(v)
                          \/ VendorPaymentFormDialog(v) \/ NamedPayment(v)
    \/ \E p \in Purchases : canConfirm(p) \/ canCancel(p) \/ PurchaseReturnFormDialog(p)
    \/ \E r \in Returns : PurchaseReturnTable(r)

ServiceStep ==
    \E r \in {reqs[s] : s \in Screens} \ {Idle} :
        \/ create_vendor(r) \/ delete_vendor(r) \/ create_purchase_entry(r)
        \/ confirm_purchase_entry(r) \/ cancel_purchase_entry(r) \/ create_purchase_return(r)
        \/ cancel_purchase_return(r) \/ create_vendor_payment(r) \/ Vanish(r)

Next == ScreenStep \/ ServiceStep

Spec == Init /\ [][Next]_vars

-----------------------------------------------------------------------------
(* Properties. *)

Owed(S) == SumFunction([p \in S |-> purchase[p].outstanding])

\* A return was taken back, of a purchase that is cancelled by now.
TakenBack(v) ==
    \E r \in Returns : /\ ret[r].status = "cancelled"
                       /\ ret[r].purchase \in EntriesOf(v) \ Received(v)

\* The balance of a vendor covers what the received purchases say is owed, whatever was
\* pressed twice or late, so that flooring it at zero never hides a debt; and it is no
\* more than that and what each payment may have forgiven, unless a return of a
\* cancelled purchase was taken back.  So it is as long as a vendor is paid from the
\* dialog: a payment that names a purchase twice, or one that is not received, takes
\* from the balance what it does not take from what is owed.
PayablesReconcile ==
    \A v \in Vendors \ PaidByName :
        /\ vendor[v].outstanding >= Owed(Received(v))
        /\ \/ TakenBack(v)
           \/ vendor[v].outstanding <= Owed(Received(v)) + Tolerance * vendor[v].times

\* Mutant of get_vendor_ledger: a purchase paid on the spot has no offsetting credit.
LedgerWithoutOffset(v) ==
    SumFunction([p \in Received(v) |-> purchase[p].quantity])
    - SumFunction([r \in {s \in Returns : ret[s].status = "completed"
                                          /\ ret[s].purchase \in EntriesOf(v)} |-> ret[r].applied_credit])
    - vendor[v].payments

\* Mutant of get_vendor_ledger: the whole refund of a return is credited.
LedgerOfRefunds(v) ==
    SumFunction([p \in Received(v) |-> purchase[p].quantity
                                      - IF purchase[p].immediate THEN purchase[p].paid ELSE 0])
    - SumFunction([r \in {s \in Returns : ret[s].status = "completed"
                                          /\ ret[s].purchase \in EntriesOf(v)} |-> ret[r].quantity])
    - vendor[v].payments

\* The closing balance of the vendor's ledger page, worked out from the documents.
get_vendor_ledger(v) ==
    SumFunction([p \in Received(v) |-> purchase[p].quantity
                                      - IF purchase[p].immediate THEN purchase[p].paid ELSE 0])
    - SumFunction([r \in {s \in Returns : ret[s].status = "completed"
                                          /\ ret[s].purchase \in EntriesOf(v)} |-> ret[r].applied_credit])
    - vendor[v].payments

Cancelled(v) ==
    \/ \E p \in EntriesOf(v) : purchase[p].status = "cancelled"
    \/ \E r \in Returns : ret[r].status = "cancelled" /\ ret[r].purchase \in EntriesOf(v)

\* The ledger page and the balance kept on the vendor's row are worked out separately;
\* they say the same, up to the tolerance of each payment, as long as the vendor is
\* paid from the dialog and nothing of it was cancelled.
LedgerAgreesUntilCancelled ==
    \A v \in Vendors \ PaidByName :
        \/ Cancelled(v)
        \/ /\ get_vendor_ledger(v) <= vendor[v].outstanding
           /\ vendor[v].outstanding <= get_vendor_ledger(v) + Tolerance * vendor[v].times

\* Whatever was cancelled, taken back, paid too much or paid by name, the ledger page
\* never claims more than the balance does.
LedgerWithinBalance == \A v \in Vendors : get_vendor_ledger(v) <= vendor[v].outstanding

Units(S) == SumFunction([p \in S |-> purchase[p].quantity])
SentBack(S) == SumFunction([r \in {s \in Returns : ret[s].status = "completed" /\ ret[s].purchase \in S}
                                |-> ret[r].quantity])
InState(status) == {p \in Purchases : purchase[p].status = status}

\* Goods enter the stock once per purchase and leave it once per return, however often a
\* button is pressed; what was sent back of a purchase cancelled since has left twice.
StockReconciles ==
    stock = Units(InState("received")) - SentBack(Purchases)

\* A purchase never has more sent back and owed together than bought, and what it says
\* was sent back is what its returns say.
ReturnsFitThePurchase ==
    \A p \in Purchases :
        /\ purchase[p].returned = SentBack({p})
        /\ purchase[p].returned + purchase[p].outstanding <= purchase[p].quantity

\* A cancelled purchase stays cancelled, late as a press may come: nothing more is sent
\* back, and nothing is paid on it but by a payment that names it.
CancelledIsOver ==
    [][\A p \in InState("cancelled") :
          /\ purchase'[p].status = "cancelled"
          /\ purchase'[p].returned <= purchase[p].returned
          /\ \/ purchase'[p].paid = purchase[p].paid
             \/ \E s \in Screens : /\ reqs[s].split[p] > 0 /\ reqs'[s] = Idle
                                   /\ purchase'[p].paid = purchase[p].paid + reqs[s].split[p]]_vars

\* "The vendor ledger reads this back instead of refund_amount so it agrees with
\* vendor.outstanding_amount" (models/procurement.py): always.
LedgerAgrees == \A v \in Vendors : get_vendor_ledger(v) = vendor[v].outstanding

\* "This ... restores the vendor's outstanding balance" (PurchaseReturnTable.tsx): no more
\* is owed on a purchase than was never paid of it.
NothingPaidIsOwedAgain ==
    \A p \in Purchases : purchase[p].paid + purchase[p].outstanding <= purchase[p].quantity
=============================================================================
