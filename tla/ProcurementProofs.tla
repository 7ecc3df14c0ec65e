------------------------- MODULE ProcurementProofs -------------------------
(***************************************************************************)
(* Theorems about Procurement.  The columns of its tables are integers       *)
(* only because no purchase owes or has sent back more than was bought, so   *)
(* the types are proved with the rows they rest on: Kept.  To it are added    *)
(* the stock (StockInv), what a vendor's documents claim at most (ClaimInv)    *)
(* and, of the dialog alone, the balances of the vendors (BalanceInv).  The    *)
(* sums of the properties, over the rows of one status or of one vendor, are   *)
(* written here over all rows with nought for the others: their domains never *)
(* change, and a step changes one value.                                     *)
(***************************************************************************)
EXTENDS Procurement, SumLemmas, FiniteSetTheorems, TLAPS

Presses ==
    [kind : Kinds \union {"none"}, vendor : Vendors \union {NoVendor},
     purchase : Purchases \union {NoPurchase}, ret : Returns \union {NoReturn},
     quantity : Nat, received : BOOLEAN, immediate : BOOLEAN,
     split : [Purchases -> Nat]]

\* What a press under way says, and what has become of what it names.
PressOK(r) ==
    /\ r.kind \in {"delete", "create", "pay"} => r.vendor \in Vendors
    /\ r.kind = "create" => r.quantity \in 1..MaxQty
    /\ r.kind \in {"confirm", "cancel", "return"} =>
           r.purchase \in Purchases /\ purchase[r.purchase].status # "none"
    /\ r.kind = "unreturn" => r.ret \in Returns
    /\ r.kind = "pay" /\ r.vendor \notin PaidByName => r.split = Unnamed

\* The units a return has sent back, of purchase p and of any purchase.
BackOf(p) == [r \in Returns |-> IF ret[r].status = "completed" /\ ret[r].purchase = p
                                THEN ret[r].quantity ELSE 0]
Back(p) == SumFunctionOnSet(BackOf(p), Returns)

\* Nothing is owed on or sent back of a draft, and of no purchase more together than was
\* bought; what was received paid for is paid in full.
RowOK(p) ==
    /\ purchase[p].status \in {"none", "draft"} => /\ purchase[p].outstanding = 0
                                                   /\ purchase[p].returned = 0
    /\ purchase[p].returned = Back(p)
    /\ purchase[p].returned + purchase[p].outstanding <= purchase[p].quantity
    /\ purchase[p].status = "received" /\ purchase[p].immediate =>
           purchase[p].paid >= purchase[p].quantity

\* What a screen has under way is a press it could make, every purchase is in order, and
\* no return is credited with more than it sent back.
Kept ==
    /\ TypeOK
    /\ \A s \in Screens : reqs[s] \in Presses /\ PressOK(reqs[s])
    /\ \A p \in Purchases : RowOK(p)
    /\ \A r \in Returns : ret[r].applied_credit <= ret[r].quantity

-----------------------------------------------------------------------------

BoughtBy == [p \in Purchases |-> IF purchase[p].status = "received"
                                 THEN purchase[p].quantity ELSE 0]
SentBy == [r \in Returns |-> IF ret[r].status = "completed" THEN ret[r].quantity ELSE 0]

\* The stock against the documents.
StockInv ==
    /\ Kept
    /\ stock = SumFunctionOnSet(BoughtBy, Purchases) - SumFunctionOnSet(SentBy, Returns)

-----------------------------------------------------------------------------

\* What is owed to vendor v, what it billed and what it credits, row by row.
OwedBy(v) == [p \in Purchases |-> IF p \in Received(v) THEN purchase[p].outstanding ELSE 0]
BilledBy(v) ==
    [p \in Purchases |-> IF p \in Received(v)
                         THEN purchase[p].quantity - (IF purchase[p].immediate
                                                      THEN purchase[p].paid ELSE 0)
                         ELSE 0]
CreditedBy(v) ==
    [r \in Returns |-> IF ret[r].status = "completed" /\ ret[r].purchase \in EntriesOf(v)
                       THEN ret[r].applied_credit ELSE 0]

OwedTo(v) == SumFunctionOnSet(OwedBy(v), Purchases)
LedgerOf(v) == SumFunctionOnSet(BilledBy(v), Purchases)
               - SumFunctionOnSet(CreditedBy(v), Returns) - vendor[v].payments

\* A purchase paid on the spot owes nothing until a return of it is taken back.
PaidOnTheSpot(p) ==
    purchase[p].vendor \notin PaidByName /\ purchase[p].status = "received"
      /\ purchase[p].immediate =>
        \/ purchase[p].outstanding = 0 /\ purchase[p].paid = purchase[p].quantity
        \/ \E r \in Returns : ret[r].status = "cancelled" /\ ret[r].purchase = p

\* What the balance of vendor v covers at least, row by row: a purchase paid on the spot
\* claims what is owed on it again, and its returns are not counted.
ClaimedBy(v) ==
    [p \in Purchases |-> IF p \in Received(v)
                         THEN IF purchase[p].immediate THEN purchase[p].outstanding
                                                       ELSE purchase[p].quantity
                         ELSE 0]
OnTheSpot(v) == {p \in Received(v) : purchase[p].immediate}
ForgoneBy(v) ==
    [r \in Returns |-> IF ret[r].status = "completed"
                          /\ ret[r].purchase \in EntriesOf(v) \ OnTheSpot(v)
                       THEN ret[r].applied_credit ELSE 0]

Claimed(v) == SumFunctionOnSet(ClaimedBy(v), Purchases)
Forgone(v) == SumFunctionOnSet(ForgoneBy(v), Returns)

ClaimInv ==
    /\ Kept
    /\ \A v \in Vendors :
           vendor[v].outstanding >= Claimed(v) - Forgone(v) - vendor[v].payments

-----------------------------------------------------------------------------

\* The balance of a vendor and its ledger page, against the documents.
Balanced(v) ==
    /\ vendor[v].outstanding >= OwedTo(v)
    /\ TakenBack(v) \/ vendor[v].outstanding <= OwedTo(v) + vendor[v].times
    /\ \/ Cancelled(v)
       \/ /\ LedgerOf(v) <= vendor[v].outstanding
          /\ vendor[v].outstanding <= LedgerOf(v) + vendor[v].times

BalanceInv ==
    /\ Kept
    /\ \A p \in Purchases : PaidOnTheSpot(p)
    /\ \A v \in Vendors \ PaidByName : Balanced(v)

-----------------------------------------------------------------------------
(***************************************************************************)
(* Presses and rows as the records they are.                               *)
(***************************************************************************)
VendorRows == [Vendors -> [known : BOOLEAN, outstanding : Nat, payments : Nat, times : Nat]]

LEMMA PressIs ==
  ASSUME NEW kind \in Kinds \union {"none"}
  PROVE  Press(kind) \in Presses
<1>1. Unnamed \in [Purchases -> Nat]
  BY DEF Unnamed
<1> QED
  BY <1>1 DEF Press, Presses

LEMMA IdleOK == Idle \in Presses /\ PressOK(Idle)
  BY PressIs DEF Idle, PressOK, Press

LEMMA NatBounds == 0..MaxQty \subseteq Nat /\ 1..MaxQty \subseteq 0..MaxQty
  BY ProcurementAssumption DEF ProcurementAssumption

LEMMA ReceivedRowIs ==
  ASSUME NEW row \in PurchaseRow
  PROVE  LET new == ReceivedRow(row) IN
         /\ new \in PurchaseRow
         /\ new.status = "received" /\ new.vendor = row.vendor /\ new.quantity = row.quantity
         /\ new.immediate = row.immediate /\ new.returned = row.returned
         /\ new.paid = IF row.immediate THEN row.quantity ELSE row.paid
         /\ new.outstanding = IF row.immediate THEN row.outstanding ELSE row.quantity
<1> row.quantity \in Nat
  BY NatBounds DEF PurchaseRow
<1> DEFINE status == IF row.immediate THEN "paid" ELSE row.payment_status
           paid == IF row.immediate THEN row.quantity ELSE row.paid
           outstanding == IF row.immediate THEN row.outstanding ELSE row.quantity
<1>1. status \in {"unpaid", "partial", "paid"} /\ paid \in Nat /\ outstanding \in Nat
  BY DEF PurchaseRow
<1>2. ReceivedRow(row) = [row EXCEPT !.status = "received", !.payment_status = status,
                                     !.paid = paid, !.outstanding = outstanding]
  BY DEF ReceivedRow, PurchaseRow
<1> HIDE DEF status, paid, outstanding
<1>3. /\ ReceivedRow(row) \in PurchaseRow
      /\ ReceivedRow(row).status = "received" /\ ReceivedRow(row).paid = paid
      /\ ReceivedRow(row).outstanding = outstanding
      /\ ReceivedRow(row).vendor = row.vendor /\ ReceivedRow(row).quantity = row.quantity
      /\ ReceivedRow(row).immediate = row.immediate /\ ReceivedRow(row).returned = row.returned
  BY <1>1, <1>2 DEF PurchaseRow
<1> QED
  BY <1>3 DEF paid, outstanding

(***************************************************************************)
(* What owing more and settling do to the rows of the vendors.             *)
(***************************************************************************)
LEMMA OwesIs ==
  ASSUME vendor \in VendorRows, NEW v \in Vendors, NEW amount \in Nat, Owes(v, amount)
  PROVE  /\ vendor' \in VendorRows
         /\ \A w \in Vendors :
               /\ vendor'[w].known = vendor[w].known /\ vendor'[w].payments = vendor[w].payments
               /\ vendor'[w].times = vendor[w].times
               /\ vendor'[w].outstanding = vendor[w].outstanding + IF w = v THEN amount ELSE 0
<1>1. vendor[v] \in [known : BOOLEAN, outstanding : Nat, payments : Nat, times : Nat]
  BY DEF VendorRows
<1>2. vendor[v].outstanding + amount \in Nat
  BY <1>1
<1> QED
  BY <1>1, <1>2 DEF Owes, VendorRows

LEMMA SettlesIs ==
  ASSUME vendor \in VendorRows, NEW v \in Vendors, NEW amount \in Nat, Settles(v, amount)
  PROVE  /\ vendor' \in VendorRows
         /\ \A w \in Vendors :
               /\ vendor'[w].known = vendor[w].known /\ vendor'[w].payments = vendor[w].payments
               /\ vendor'[w].times = vendor[w].times
               /\ w # v => vendor'[w].outstanding = vendor[w].outstanding
         /\ vendor'[v].outstanding = IF vendor[v].outstanding > amount
                                     THEN vendor[v].outstanding - amount ELSE 0
<1>1. vendor[v] \in [known : BOOLEAN, outstanding : Nat, payments : Nat, times : Nat]
  BY DEF VendorRows
<1> DEFINE left == IF vendor[v].outstanding > amount THEN vendor[v].outstanding - amount ELSE 0
<1>2. left \in Nat
  BY <1>1
<1>3. vendor' = [vendor EXCEPT ![v].outstanding = left]
  BY <1>1 DEF Settles
<1> HIDE DEF left
<1>4. /\ vendor' \in VendorRows /\ vendor'[v].outstanding = left
      /\ \A w \in Vendors : /\ vendor'[w].known = vendor[w].known
                            /\ vendor'[w].payments = vendor[w].payments
                            /\ vendor'[w].times = vendor[w].times
                            /\ w # v => vendor'[w] = vendor[w]
  BY <1>1, <1>2, <1>3 DEF VendorRows
<1> QED
  BY <1>4 DEF left

(***************************************************************************)
(* The presses still under way after one is sent and after one is served.  *)
(***************************************************************************)
LEMMA SendKept ==
  ASSUME Kept, NEW r \in Presses, PressOK(r), Send(r)
  PROVE  Kept'
<1>1. PICK s \in Screens : reqs' = [reqs EXCEPT ![s] = r]
  BY DEF Send
<1>2. /\ vendor' = vendor /\ purchase' = purchase /\ ret' = ret /\ stock' = stock
      /\ calls' \in 0..MaxCalls
  BY ProcurementAssumption DEF Send, ledgers, Kept, TypeOK, ProcurementAssumption
<1>3. DOMAIN reqs' = Screens /\ \A t \in Screens : reqs'[t] = IF t = s THEN r ELSE reqs[t]
  BY <1>1 DEF Kept, TypeOK
<1>4. \A t \in Screens : reqs'[t] \in Presses /\ PressOK(reqs[t])'
  BY <1>2, <1>3 DEF Kept, PressOK
<1>5. \A t \in Screens : reqs'[t].kind \in Kinds \union {"none"} /\ DOMAIN reqs'[t] = DOMAIN Idle
  BY <1>4, IdleOK DEF Presses
<1>6. \A p \in Purchases : RowOK(p)'
  BY <1>2 DEF Kept, RowOK, Back, BackOf
<1> QED
  BY <1>2, <1>3, <1>4, <1>5, <1>6 DEF Kept, TypeOK, EntriesOf

LEMMA ServeKeeps ==
  ASSUME Kept, NEW r, Serve(r),
         \A p \in Purchases : purchase[p].status # "none" => purchase'[p].status # "none"
  PROVE  /\ calls' \in 0..MaxCalls /\ DOMAIN reqs' = Screens
         /\ \A s \in Screens : /\ reqs'[s] \in Presses /\ PressOK(reqs[s])'
                               /\ reqs'[s].kind \in Kinds \union {"none"}
                               /\ DOMAIN reqs'[s] = DOMAIN Idle
<1>1. PICK s \in Screens : reqs' = [reqs EXCEPT ![s] = Idle]
  BY DEF Serve
<1>2. calls' \in 0..MaxCalls
  BY DEF Serve, Kept, TypeOK
<1>3. DOMAIN reqs' = Screens /\ \A t \in Screens : reqs'[t] = IF t = s THEN Idle ELSE reqs[t]
  BY <1>1 DEF Kept, TypeOK
<1>4. ASSUME NEW t \in Screens PROVE reqs'[t] \in Presses /\ PressOK(reqs[t])'
  <2>1. CASE reqs'[t] = Idle
    BY <2>1, IdleOK DEF PressOK, Press, Idle
  <2>2. CASE reqs'[t] = reqs[t]
    BY <2>2 DEF Kept, PressOK
  <2> QED
    BY <1>3, <2>1, <2>2
<1>5. \A t \in Screens : reqs'[t].kind \in Kinds \union {"none"} /\ DOMAIN reqs'[t] = DOMAIN Idle
  BY <1>4, IdleOK DEF Presses
<1> QED
  BY <1>2, <1>3, <1>4, <1>5

-----------------------------------------------------------------------------
(***************************************************************************)
(* What the calls of the service do to the columns.                        *)
(***************************************************************************)
\* create_purchase_entry and confirm_purchase_entry.
Entered(p) ==
    /\ purchase[p].status \in {"none", "draft"}
    /\ purchase' \in [Purchases -> PurchaseRow]
    /\ \A q \in Purchases \ {p} : purchase'[q] = purchase[q]
    /\ purchase'[p].status \in {"draft", "received"}
    /\ purchase'[p].vendor \in Vendors /\ vendor[purchase'[p].vendor].known
    /\ purchase[p].status = "draft" => purchase'[p].vendor = purchase[p].vendor
    /\ purchase'[p].returned = 0
    /\ purchase'[p].status = "received" /\ purchase'[p].immediate =>
           purchase'[p].paid = purchase'[p].quantity
    /\ purchase'[p].outstanding = IF purchase'[p].status = "received" /\ ~purchase'[p].immediate
                                  THEN purchase'[p].quantity ELSE 0
    /\ vendor' \in VendorRows
    /\ \A w \in Vendors :
          /\ vendor'[w].known = vendor[w].known /\ vendor'[w].payments = vendor[w].payments
          /\ vendor'[w].times = vendor[w].times
          /\ vendor'[w].outstanding
                = vendor[w].outstanding + IF w = purchase'[p].vendor
                                          THEN purchase'[p].outstanding ELSE 0
    /\ stock' = stock + IF purchase'[p].status = "received" THEN purchase'[p].quantity ELSE 0
    /\ ret' = ret

\* cancel_purchase_entry.
Withdrawn(p) ==
    /\ purchase[p].status \in {"draft", "received"}
    /\ purchase' \in [Purchases -> PurchaseRow]
    /\ \A q \in Purchases \ {p} : purchase'[q] = purchase[q]
    /\ purchase'[p] = [purchase[p] EXCEPT !.status = "cancelled"]
    /\ IF purchase[p].status = "received"
       THEN stock' = stock - purchase[p].quantity
            /\ Settles(purchase[p].vendor, purchase[p].outstanding)
       ELSE stock' = stock /\ vendor' = vendor
    /\ ret' = ret

\* create_purchase_return, of which new is the return.
SentOff(p, new) ==
    /\ purchase[p].status = "received" /\ ret[new].status = "none"
    /\ purchase' \in [Purchases -> PurchaseRow]
    /\ \A q \in Purchases \ {p} : purchase'[q] = purchase[q]
    /\ purchase'[p].status = purchase[p].status /\ purchase'[p].vendor = purchase[p].vendor
    /\ purchase'[p].quantity = purchase[p].quantity
    /\ purchase'[p].immediate = purchase[p].immediate /\ purchase'[p].paid = purchase[p].paid
    /\ purchase'[p].returned = purchase[p].returned + ret'[new].quantity
    /\ purchase'[p].returned + purchase'[p].outstanding <= purchase[p].quantity
    /\ purchase'[p].outstanding = purchase[p].outstanding - ret'[new].applied_credit
    /\ ret'[new].applied_credit <= ret'[new].quantity
    /\ ret' \in [Returns -> ReturnRow]
    /\ \A r \in Returns \ {new} : ret'[r] = ret[r]
    /\ ret'[new].status = "completed" /\ ret'[new].purchase = p
    /\ Settles(purchase[p].vendor, ret'[new].applied_credit)
    /\ stock' = stock - ret'[new].quantity

\* cancel_purchase_return.
TakenIn(p, old) ==
    /\ ret[old].status = "completed" /\ ret[old].purchase = p
    /\ purchase' \in [Purchases -> PurchaseRow]
    /\ \A q \in Purchases \ {p} : purchase'[q] = purchase[q]
    /\ purchase'[p].status = purchase[p].status /\ purchase'[p].vendor = purchase[p].vendor
    /\ purchase'[p].quantity = purchase[p].quantity
    /\ purchase'[p].immediate = purchase[p].immediate /\ purchase'[p].paid = purchase[p].paid
    /\ purchase'[p].returned = purchase[p].returned - ret[old].quantity
    /\ purchase'[p].outstanding = purchase[p].outstanding + ret[old].quantity
    /\ ret' \in [Returns -> ReturnRow]
    /\ \A r \in Returns \ {old} : ret'[r] = ret[r]
    /\ ret'[old].status = "cancelled" /\ ret'[old].purchase = p /\ ret'[old].applied_credit = 0
    /\ Owes(purchase[p].vendor, ret[old].quantity)
    /\ stock' = stock + ret[old].quantity

\* Some press being served names purchase p, with the amount n.
Asked(p, n) == \E s \in Screens : reqs[s].split[p] = n /\ reqs'[s] = Idle

\* What payments from the dialog leave: see Applied.
ByTheDialog(v, amount, split) ==
    /\ \A p \in Purchases : /\ split[p] <= purchase[p].outstanding
                            /\ split[p] > 0 => p \in Received(v)
    /\ \A p, q \in Purchases :
           /\ split[p] > 0 /\ split[p] < purchase[p].outstanding
           /\ split[q] > 0 /\ split[q] < purchase[q].outstanding
           => p = q
    /\ amount - SumFunctionOnSet(split, Purchases) \in 0..1
    /\ amount # SumFunctionOnSet(split, Purchases) =>
           \A p \in Received(v) : split[p] = purchase[p].outstanding

\* create_vendor_payment of amount, of which split[p] falls to purchase p.
Settled(v, amount, split) ==
    /\ \A p \in Purchases : /\ split[p] \in Nat
                            /\ split[p] > 0 => /\ p \in EntriesOf(v)
                                               /\ p \in Received(v) \/ Asked(p, split[p])
    /\ v \notin PaidByName => ByTheDialog(v, amount, split)
    /\ purchase' \in [Purchases -> PurchaseRow]
    /\ \A p \in Purchases :
          /\ purchase'[p].status = purchase[p].status /\ purchase'[p].vendor = purchase[p].vendor
          /\ purchase'[p].quantity = purchase[p].quantity
          /\ purchase'[p].immediate = purchase[p].immediate
          /\ purchase'[p].returned = purchase[p].returned
          /\ purchase'[p].paid = purchase[p].paid + split[p]
          /\ purchase'[p].outstanding = IF split[p] = 0 THEN purchase[p].outstanding
                                        ELSE LeftOver(purchase[p].outstanding - split[p])
    /\ vendor' \in VendorRows
    /\ \A w \in Vendors : /\ vendor'[w].known = vendor[w].known
                          /\ w # v => vendor'[w] = vendor[w]
    /\ vendor'[v].payments = vendor[v].payments + amount
    /\ vendor'[v].times = vendor[v].times + 1
    /\ vendor'[v].outstanding = IF vendor[v].outstanding > amount
                                THEN vendor[v].outstanding - amount ELSE 0
    /\ ret' = ret /\ stock' = stock

LEMMA KeptRows ==
  ASSUME Kept
  PROVE  /\ vendor \in VendorRows /\ purchase \in [Purchases -> PurchaseRow]
         /\ ret \in [Returns -> ReturnRow] /\ stock \in Int
         /\ \A p \in Purchases : purchase[p].quantity \in Nat
         /\ \A r \in Returns : ret[r].quantity \in Nat
  BY NatBounds DEF Kept, TypeOK, VendorRows, PurchaseRow, ReturnRow

LEMMA CreateEnters ==
  ASSUME Kept, NEW r \in Presses, PressOK(r), create_purchase_entry(r)
  PROVE  \E p \in Purchases : Entered(p)
<1> DEFINE row == [NoEntry EXCEPT !.status = "draft", !.vendor = r.vendor,
                                  !.quantity = r.quantity, !.immediate = r.immediate]
           new == IF r.received THEN ReceivedRow(row) ELSE row
<1>1. r.vendor \in Vendors /\ vendor[r.vendor].known /\ r.quantity \in 0..MaxQty
      /\ r.quantity \in Nat /\ r.immediate \in BOOLEAN /\ r.received \in BOOLEAN
  BY NatBounds DEF create_purchase_entry, PressOK, Presses
<1>2. /\ row \in PurchaseRow /\ row.status = "draft" /\ row.vendor = r.vendor
      /\ row.quantity = r.quantity /\ row.immediate = r.immediate
      /\ row.paid = 0 /\ row.outstanding = 0 /\ row.returned = 0
  BY <1>1 DEF NoEntry, PurchaseRow
<1>3. PICK p \in Purchases : purchase[p].status = "none" /\ purchase' = [purchase EXCEPT ![p] = new]
  BY DEF create_purchase_entry
<1>4. /\ IF r.received THEN apply_receipt_effects(row) ELSE UNCHANGED <<vendor, stock>>
      /\ ret' = ret
  BY DEF create_purchase_entry
<1> HIDE DEF row
<1>5. /\ new \in PurchaseRow /\ new.vendor = r.vendor /\ new.quantity = r.quantity
      /\ new.status = (IF r.received THEN "received" ELSE "draft")
      /\ new.immediate = r.immediate /\ new.returned = 0
      /\ new.paid = IF r.received /\ r.immediate THEN r.quantity ELSE 0
      /\ new.outstanding = IF r.received /\ ~r.immediate THEN r.quantity ELSE 0
  BY <1>1, <1>2, ReceivedRowIs
<1> HIDE DEF new
<1>6. /\ purchase' \in [Purchases -> PurchaseRow] /\ purchase'[p] = new
      /\ \A q \in Purchases \ {p} : purchase'[q] = purchase[q]
  BY <1>3, <1>5, KeptRows
<1>7. /\ vendor' \in VendorRows
      /\ \A w \in Vendors :
           /\ vendor'[w].known = vendor[w].known /\ vendor'[w].payments = vendor[w].payments
           /\ vendor'[w].times = vendor[w].times
           /\ vendor'[w].outstanding
                = vendor[w].outstanding + IF w = r.vendor THEN new.outstanding ELSE 0
      /\ stock' = stock + IF r.received THEN r.quantity ELSE 0
  <2>1. CASE r.received
    <3>1. Owes(r.vendor, new.outstanding) /\ stock' = stock + r.quantity
      BY <1>1, <1>2, <1>4, <1>5, <2>1 DEF apply_receipt_effects
    <3>2. new.outstanding \in Nat
      BY <1>5 DEF PurchaseRow
    <3> QED
      BY <1>1, <2>1, <3>1, <3>2, OwesIs, KeptRows
  <2>2. CASE ~r.received
    <3>1. vendor' = vendor /\ stock' = stock /\ new.outstanding = 0
      BY <1>4, <1>5, <2>2
    <3>2. \A w \in Vendors : vendor[w].outstanding \in Nat
      BY KeptRows DEF VendorRows
    <3> QED
      BY <2>2, <3>1, <3>2, KeptRows
  <2> QED
    BY <1>1, <2>1, <2>2
<1> QED
  BY <1>1, <1>3, <1>4, <1>5, <1>6, <1>7 DEF Entered

LEMMA ConfirmEnters ==
  ASSUME Kept, NEW r \in Presses, PressOK(r), confirm_purchase_entry(r)
  PROVE  \E p \in Purchases : Entered(p)
<1>1. PICK p \in Purchases : p = r.purchase
  BY DEF confirm_purchase_entry, PressOK
<1> DEFINE row == purchase[p]
           new == ReceivedRow(row)
<1>2. row.status = "draft" /\ ret' = ret /\ purchase' = [purchase EXCEPT ![p] = new]
      /\ apply_receipt_effects(row)
  BY <1>1 DEF confirm_purchase_entry
<1>3. /\ row \in PurchaseRow /\ row.outstanding = 0 /\ row.returned = 0
      /\ row.vendor \in Vendors /\ vendor[row.vendor].known /\ row.quantity \in Nat
      /\ row.immediate \in BOOLEAN
  BY <1>2, KeptRows DEF Kept, RowOK, TypeOK, PurchaseRow
<1>4. /\ new \in PurchaseRow /\ new.vendor = row.vendor /\ new.quantity = row.quantity
      /\ new.status = "received" /\ new.immediate = row.immediate /\ new.returned = 0
      /\ row.immediate => new.paid = row.quantity
      /\ new.outstanding = IF ~row.immediate THEN row.quantity ELSE 0
  BY <1>3, ReceivedRowIs
<1> HIDE DEF new
<1>5. /\ purchase' \in [Purchases -> PurchaseRow] /\ purchase'[p] = new
      /\ \A q \in Purchases \ {p} : purchase'[q] = purchase[q]
  BY <1>2, <1>4, KeptRows
<1>6. Owes(row.vendor, new.outstanding) /\ stock' = stock + row.quantity
  BY <1>2, <1>3, <1>4 DEF apply_receipt_effects
<1>7. new.outstanding \in Nat
  BY <1>4 DEF PurchaseRow
<1>8. /\ vendor' \in VendorRows
      /\ \A w \in Vendors :
           /\ vendor'[w].known = vendor[w].known /\ vendor'[w].payments = vendor[w].payments
           /\ vendor'[w].times = vendor[w].times
           /\ vendor'[w].outstanding
                = vendor[w].outstanding + IF w = row.vendor THEN new.outstanding ELSE 0
  BY <1>3, <1>6, <1>7, OwesIs, KeptRows
<1> HIDE DEF row
<1> QED
  BY <1>2, <1>3, <1>4, <1>5, <1>6, <1>8 DEF Entered, row

LEMMA CancelWithdraws ==
  ASSUME Kept, NEW r \in Presses, PressOK(r), cancel_purchase_entry(r)
  PROVE  \E p \in Purchases : Withdrawn(p)
<1>1. PICK p \in Purchases : p = r.purchase
  BY DEF cancel_purchase_entry, PressOK
<1>2. purchase[p].status \in {"draft", "received"}
  BY <1>1, KeptRows DEF cancel_purchase_entry, PressOK, PurchaseRow
<1>3. /\ purchase' = [purchase EXCEPT ![p].status = "cancelled"] /\ ret' = ret
      /\ IF purchase[p].status = "received"
         THEN stock' = stock - purchase[p].quantity
              /\ Settles(purchase[p].vendor, purchase[p].outstanding)
         ELSE stock' = stock /\ vendor' = vendor
  BY <1>1 DEF cancel_purchase_entry
<1>4. /\ purchase' \in [Purchases -> PurchaseRow]
      /\ purchase'[p] = [purchase[p] EXCEPT !.status = "cancelled"]
      /\ \A q \in Purchases \ {p} : purchase'[q] = purchase[q]
  BY <1>3, KeptRows DEF PurchaseRow
<1> QED
  BY <1>2, <1>3, <1>4 DEF Withdrawn

(***************************************************************************)
(* The credit of a return is no more than either of the two it is taken from. *)
(***************************************************************************)
LEMMA LesserIs ==
  ASSUME NEW a \in Nat, NEW b \in Nat
  PROVE  /\ LesserOf(a, b) \in Nat /\ LesserOf(a, b) <= a /\ LesserOf(a, b) <= b
         /\ LesserOf(a, b) \in {a, b}
  BY DEF LesserOf

LEMMA ReturnSendsOff ==
  ASSUME Kept, NEW r \in Presses, PressOK(r), create_purchase_return(r)
  PROVE  \E p \in Purchases, new \in Returns : SentOff(p, new)
<1>1. PICK p \in Purchases : p = r.purchase
  BY DEF create_purchase_return, PressOK
<1> DEFINE row == purchase[p]
           credit == LesserOf(r.quantity, row.outstanding)
           fresh == [status |-> "completed", purchase |-> p, quantity |-> r.quantity,
                     applied_credit |-> credit]
<1>2. row \in PurchaseRow /\ row.outstanding \in Nat /\ row.returned \in Nat
      /\ row.quantity \in Nat /\ r.quantity \in Nat /\ row.quantity \in 0..MaxQty
  BY KeptRows DEF PurchaseRow, Presses
<1>3. row.status = "received" /\ r.quantity <= row.quantity - row.returned /\ Returned(r)
  BY <1>1 DEF create_purchase_return, Remaining
<1>4. credit \in Nat /\ credit <= row.outstanding /\ credit <= r.quantity
      /\ credit \in {r.quantity, row.outstanding}
  BY <1>2, LesserIs
<1>5. PICK new \in Returns : ret[new].status = "none" /\ ret' = [ret EXCEPT ![new] = fresh]
  BY <1>1, <1>3 DEF Returned
<1>6. /\ purchase' = [purchase EXCEPT ![p].returned = @ + r.quantity,
                                      ![p].outstanding = @ - credit]
      /\ Settles(row.vendor, credit) /\ stock' = stock - r.quantity
  BY <1>1, <1>3 DEF Returned
<1> DEFINE returned == row.returned + r.quantity
           outstanding == row.outstanding - credit
<1>7. returned \in Nat /\ outstanding \in Nat /\ returned + outstanding <= row.quantity
  <2>1. row.returned + row.outstanding <= row.quantity
    BY DEF Kept, RowOK
  <2> HIDE DEF credit
  <2> QED
    BY <1>2, <1>3, <1>4, <2>1
<1>8. r.quantity \in 0..MaxQty
  BY <1>2, <1>3, ProcurementAssumption DEF ProcurementAssumption
<1> HIDE DEF credit
<1>9. purchase' = [purchase EXCEPT ![p] = [row EXCEPT !.returned = returned,
                                                      !.outstanding = outstanding]]
  BY <1>2, <1>6, KeptRows DEF PurchaseRow
<1> HIDE DEF returned, outstanding
<1>10. /\ purchase' \in [Purchases -> PurchaseRow]
       /\ \A q \in Purchases \ {p} : purchase'[q] = purchase[q]
       /\ purchase'[p].status = row.status /\ purchase'[p].vendor = row.vendor
       /\ purchase'[p].quantity = row.quantity
       /\ purchase'[p].immediate = row.immediate /\ purchase'[p].paid = row.paid
       /\ purchase'[p].returned = returned /\ purchase'[p].outstanding = outstanding
  BY <1>2, <1>7, <1>9, KeptRows DEF PurchaseRow
<1>11. fresh \in ReturnRow
  BY <1>4, <1>8 DEF ReturnRow
<1>12. /\ ret' \in [Returns -> ReturnRow] /\ ret'[new] = fresh
       /\ \A s \in Returns \ {new} : ret'[s] = ret[s]
  BY <1>5, <1>11, KeptRows
<1> QED
  BY <1>3, <1>4, <1>5, <1>6, <1>7, <1>10, <1>12 DEF SentOff, returned, outstanding

(***************************************************************************)
(* A return that stands is part of what its purchase says was returned.    *)
(***************************************************************************)
LEMMA BackInt ==
  ASSUME Kept, NEW p \in Purchases
  PROVE  /\ \A r \in Returns : BackOf(p)[r] \in Nat /\ BackOf(p)[r] <= Back(p)
         /\ Back(p) \in Nat
<1>1. \A r \in Returns : BackOf(p)[r] \in Nat
  BY KeptRows DEF BackOf
<1>2. IsFiniteSet(Returns)
  BY ProcurementAssumption DEF ProcurementAssumption
<1> QED
  BY <1>1, <1>2, SumNat DEF Back

LEMMA UnreturnTakesIn ==
  ASSUME Kept, NEW r \in Presses, PressOK(r), cancel_purchase_return(r)
  PROVE  \E p \in Purchases, old \in Returns : TakenIn(p, old)
<1>1. PICK old \in Returns : old = r.ret
  BY DEF cancel_purchase_return, PressOK
<1>2. ret[old].status = "completed"
  BY <1>1 DEF cancel_purchase_return
<1>3. PICK p \in Purchases : p = ret[old].purchase
  BY <1>2 DEF Kept, TypeOK
<1> DEFINE row == purchase[p]
           refund == ret[old].quantity
           credit == LesserOf(refund, row.quantity - row.outstanding)
<1>4. row \in PurchaseRow /\ row.outstanding \in Nat /\ row.returned \in Nat
      /\ row.quantity \in Nat /\ refund \in Nat /\ RowOK(p)
  BY KeptRows DEF PurchaseRow, Kept
<1>5. row.quantity - row.outstanding \in Nat /\ refund <= row.returned
      /\ refund <= row.quantity - row.outstanding
  BY <1>2, <1>3, <1>4, BackInt DEF RowOK, BackOf
<1>6. credit = refund
  BY <1>4, <1>5 DEF LesserOf
<1>7. /\ ret' = [ret EXCEPT ![old].status = "cancelled", ![old].applied_credit = 0]
      /\ purchase' = [purchase EXCEPT ![p].returned = @ - refund, ![p].outstanding = @ + credit]
      /\ Owes(row.vendor, credit) /\ stock' = stock + refund
  BY <1>1, <1>3 DEF cancel_purchase_return
<1> DEFINE returned == row.returned - refund
           outstanding == row.outstanding + credit
<1>8. /\ returned \in Nat /\ outstanding \in Nat /\ outstanding = row.outstanding + refund
  BY <1>4, <1>5, <1>6
<1> HIDE DEF credit
<1>9. purchase' = [purchase EXCEPT ![p] = [row EXCEPT !.returned = returned,
                                                      !.outstanding = outstanding]]
  BY <1>4, <1>7, KeptRows DEF PurchaseRow
<1> HIDE DEF outstanding
<1>10. /\ purchase' \in [Purchases -> PurchaseRow]
       /\ \A q \in Purchases \ {p} : purchase'[q] = purchase[q]
       /\ purchase'[p].status = row.status /\ purchase'[p].vendor = row.vendor
       /\ purchase'[p].quantity = row.quantity
       /\ purchase'[p].immediate = row.immediate /\ purchase'[p].paid = row.paid
       /\ purchase'[p].returned = returned /\ purchase'[p].outstanding = outstanding
  <2> HIDE DEF returned
  <2> QED
    BY <1>4, <1>8, <1>9, KeptRows DEF PurchaseRow
<1>11. ret' = [ret EXCEPT ![old] = [ret[old] EXCEPT !.status = "cancelled", !.applied_credit = 0]]
  BY <1>7, KeptRows DEF ReturnRow
<1>12. /\ ret' \in [Returns -> ReturnRow]
       /\ ret'[old].status = "cancelled" /\ ret'[old].purchase = p
       /\ ret'[old].applied_credit = 0
       /\ \A s \in Returns \ {old} : ret'[s] = ret[s]
  BY <1>3, <1>11, KeptRows DEF ReturnRow
<1>13. /\ Owes(row.vendor, refund)
       /\ purchase'[p].returned = row.returned - refund
       /\ purchase'[p].outstanding = row.outstanding + refund
  BY <1>6, <1>7, <1>8, <1>10
<1> QED
  BY <1>2, <1>3, <1>7, <1>10, <1>12, <1>13 DEF TakenIn

(***************************************************************************)
(* Of a set of one member at most, any two members are the same.           *)
(***************************************************************************)
LEMMA AtMostOne ==
  ASSUME NEW S, IsFiniteSet(S), Cardinality(S) <= 1, NEW x \in S, NEW y \in S
  PROVE  x = y
<1> SUFFICES ASSUME x # y PROVE FALSE
  OBVIOUS
<1>1. IsFiniteSet({x}) /\ Cardinality({x}) = 1
  BY FS_Singleton
<1>2. Cardinality({x} \cup {y}) = 2
  BY <1>1, FS_AddElement
<1>3. {x} \cup {y} \in SUBSET S
  OBVIOUS
<1>4. Cardinality({x} \cup {y}) <= Cardinality(S) /\ Cardinality(S) \in Nat
  BY <1>3, FS_Subset, FS_CardinalityType
<1> QED
  BY <1>2, <1>4

(***************************************************************************)
(* What is left owed is forgiven up to the tolerance.                      *)
(***************************************************************************)
LEMMA LeftOverIs ==
  ASSUME NEW o \in Nat, NEW n \in Nat
  PROVE  /\ LeftOver(o - n) \in Nat /\ LeftOver(o - n) <= o
         /\ n <= o => o - n - LeftOver(o - n) \in 0..1
         /\ n = o => LeftOver(o - n) = 0
  BY DEF LeftOver, Tolerance

(***************************************************************************)
(* A split from the dialog.                                                *)
(***************************************************************************)
LEMMA AppliedIs ==
  ASSUME Kept, NEW v, NEW amount \in Nat, NEW split \in Applied(v, amount)
  PROVE  /\ \A p \in Purchases : split[p] \in Nat /\ (split[p] > 0 => p \in Received(v))
         /\ DOMAIN split = Purchases
         /\ ByTheDialog(v, amount, split)
<1>1. /\ split \in [Purchases -> 0..amount]
      /\ \A p \in Purchases : split[p] > 0 => /\ p \in Outstanding(v)
                                              /\ split[p] <= purchase[p].outstanding
      /\ Cardinality({p \in Outstanding(v) :
                          split[p] > 0 /\ split[p] < purchase[p].outstanding}) <= 1
      /\ \/ SumFunction(split) = amount
         \/ /\ amount - SumFunction(split) \in 1..Tolerance
            /\ \A p \in Outstanding(v) : split[p] = purchase[p].outstanding
  BY DEF Applied
<1>2. IsFiniteSet(Purchases) /\ Outstanding(v) \subseteq Received(v)
      /\ Received(v) \subseteq Purchases
  BY ProcurementAssumption DEF ProcurementAssumption, Outstanding, Received, EntriesOf
<1>3. \A p \in Purchases : split[p] \in Nat /\ purchase[p].outstanding \in Nat
  BY <1>1, KeptRows DEF PurchaseRow
<1>4. \A p \in Purchases : /\ split[p] <= purchase[p].outstanding
                           /\ split[p] > 0 => p \in Received(v)
  BY <1>1, <1>2, <1>3
<1>5. ASSUME NEW p \in Purchases, NEW q \in Purchases,
             split[p] > 0, split[p] < purchase[p].outstanding,
             split[q] > 0, split[q] < purchase[q].outstanding
      PROVE  p = q
  <2> DEFINE part == {x \in Outstanding(v) : split[x] > 0 /\ split[x] < purchase[x].outstanding}
  <2>1. p \in part /\ q \in part
    BY <1>1, <1>5
  <2>2. IsFiniteSet(part) /\ Cardinality(part) <= 1
    BY <1>1, <1>2, FS_Subset
  <2> HIDE DEF part
  <2> QED
    BY <2>1, <2>2, AtMostOne
<1>6. SumFunction(split) = SumFunctionOnSet(split, Purchases) /\ DOMAIN split = Purchases
  BY <1>1 DEF SumFunction
<1>7. SumFunctionOnSet(split, Purchases) \in Nat
  BY <1>2, <1>3, SumNat
<1>8. amount - SumFunctionOnSet(split, Purchases) \in 0..1
  BY <1>1, <1>6, <1>7 DEF Tolerance
<1>9. ASSUME amount # SumFunctionOnSet(split, Purchases), NEW p \in Received(v)
      PROVE  split[p] = purchase[p].outstanding
  <2>1. CASE p \in Outstanding(v)
    BY <1>1, <1>6, <1>9, <2>1
  <2>2. CASE p \notin Outstanding(v)
    BY <1>2, <1>3, <1>4, <2>2 DEF Outstanding
  <2> QED
    BY <2>1, <2>2
<1> QED
  BY <1>3, <1>4, <1>5, <1>6, <1>8, <1>9 DEF ByTheDialog

(***************************************************************************)
(* The row of a purchase that is given amount n.                           *)
(***************************************************************************)
LEMMA PaidRowIs ==
  ASSUME NEW row \in PurchaseRow, NEW n \in Nat
  PROVE  /\ PaidRow(row, n) \in PurchaseRow
         /\ PaidRow(row, n).status = row.status /\ PaidRow(row, n).vendor = row.vendor
         /\ PaidRow(row, n).quantity = row.quantity /\ PaidRow(row, n).immediate = row.immediate
         /\ PaidRow(row, n).returned = row.returned
         /\ PaidRow(row, n).paid = row.paid + n
         /\ PaidRow(row, n).outstanding = IF n = 0 THEN row.outstanding
                                          ELSE LeftOver(row.outstanding - n)
<1>1. row.paid \in Nat /\ row.outstanding \in Nat
  BY DEF PurchaseRow
<1>2. CASE n = 0
  BY <1>1, <1>2 DEF PaidRow
<1>3. CASE n # 0
  <2> DEFINE sum == row.paid + n
             left == LeftOver(row.outstanding - n)
             status == IF left = 0 THEN "paid" ELSE "partial"
  <2>1. sum \in Nat /\ left \in Nat /\ status \in {"unpaid", "partial", "paid"}
    BY <1>1, LeftOverIs
  <2>2. PaidRow(row, n) = [row EXCEPT !.paid = sum, !.outstanding = left,
                                      !.payment_status = status]
    BY <1>3 DEF PaidRow, PurchaseRow
  <2> HIDE DEF sum, left, status
  <2>3. /\ PaidRow(row, n) \in PurchaseRow
        /\ PaidRow(row, n).status = row.status /\ PaidRow(row, n).vendor = row.vendor
        /\ PaidRow(row, n).quantity = row.quantity /\ PaidRow(row, n).immediate = row.immediate
        /\ PaidRow(row, n).returned = row.returned
        /\ PaidRow(row, n).paid = sum /\ PaidRow(row, n).outstanding = left
    BY <2>1, <2>2 DEF PurchaseRow
  <2> QED
    BY <1>3, <2>3 DEF sum, left
<1> QED
  BY <1>2, <1>3

LEMMA PaymentSettles ==
  ASSUME Kept, NEW s \in Screens, create_vendor_payment(reqs[s])
  PROVE  \E v \in Vendors, amount \in Nat : \E split : Settled(v, amount, split)
<1> DEFINE r == reqs[s]
<1>0. /\ r \in Presses /\ PressOK(r) /\ create_vendor_payment(r)
      /\ \E t \in Screens : reqs[t] = r /\ reqs'[t] = Idle
  BY DEF Kept, TypeOK, create_vendor_payment, Serve
<1> HIDE DEF r
<1>1. PICK v \in Vendors : v = r.vendor
  BY <1>0 DEF create_vendor_payment, PressOK
<1>2. r.quantity \in Nat /\ r.split \in [Purchases -> Nat]
  BY <1>0 DEF Presses
<1>3. PICK split \in IF r.split = Unnamed THEN Applied(v, r.quantity) ELSE {r.split} :
           /\ r.split # Unnamed => Allocated(v, split)
           /\ purchase' = [p \in Purchases |-> PaidRow(purchase[p], split[p])]
  BY <1>0, <1>1 DEF create_vendor_payment
<1>4. /\ \A p \in Purchases : /\ split[p] \in Nat
                              /\ split[p] > 0 => /\ p \in EntriesOf(v)
                                                 /\ p \in Received(v) \/ Asked(p, split[p])
      /\ v \notin PaidByName => ByTheDialog(v, r.quantity, split)
  <2>1. CASE r.split = Unnamed
    <3>1. split \in Applied(v, r.quantity)
      BY <1>3, <2>1
    <3> QED
      BY <1>2, <3>1, AppliedIs DEF Received
  <2>2. CASE r.split # Unnamed
    <3>1. split = r.split /\ v \in PaidByName /\ Allocated(v, split)
      BY <1>0, <1>1, <1>3, <2>2 DEF PressOK, create_vendor_payment
    <3>2. \A p \in Purchases : Asked(p, split[p])
      BY <1>0, <3>1 DEF Asked
    <3> QED
      BY <1>2, <3>1, <3>2 DEF Allocated
  <2> QED
    BY <2>1, <2>2
<1>5. \A p \in Purchases : /\ purchase[p] \in PurchaseRow /\ split[p] \in Nat
                           /\ purchase'[p] = PaidRow(purchase[p], split[p])
  BY <1>3, <1>4, KeptRows
<1>6. \A p \in Purchases :
          /\ purchase'[p] \in PurchaseRow
          /\ purchase'[p].status = purchase[p].status /\ purchase'[p].vendor = purchase[p].vendor
          /\ purchase'[p].quantity = purchase[p].quantity
          /\ purchase'[p].immediate = purchase[p].immediate
          /\ purchase'[p].returned = purchase[p].returned
          /\ purchase'[p].paid = purchase[p].paid + split[p]
          /\ purchase'[p].outstanding = IF split[p] = 0 THEN purchase[p].outstanding
                                        ELSE LeftOver(purchase[p].outstanding - split[p])
  BY <1>5, PaidRowIs
<1>7. purchase' \in [Purchases -> PurchaseRow]
  <2>1. DOMAIN purchase' = Purchases /\ purchase' = [p \in Purchases |-> purchase'[p]]
    BY <1>3
  <2> QED
    BY <1>6, <2>1
<1>8. /\ vendor' \in VendorRows
      /\ \A w \in Vendors : vendor'[w].known = vendor[w].known /\ (w # v => vendor'[w] = vendor[w])
      /\ vendor'[v].payments = vendor[v].payments + r.quantity
      /\ vendor'[v].times = vendor[v].times + 1
      /\ vendor'[v].outstanding = IF vendor[v].outstanding > r.quantity
                                  THEN vendor[v].outstanding - r.quantity ELSE 0
  <2> DEFINE row == vendor[v]
             left == IF row.outstanding > r.quantity THEN row.outstanding - r.quantity ELSE 0
             sum == row.payments + r.quantity
             more == row.times + 1
  <2>1. row \in [known : BOOLEAN, outstanding : Nat, payments : Nat, times : Nat]
    BY KeptRows DEF VendorRows
  <2>2. left \in Nat /\ sum \in Nat /\ more \in Nat
    BY <1>2, <2>1
  <2>3. vendor' = [vendor EXCEPT ![v] = [row EXCEPT !.payments = sum, !.times = more,
                                                    !.outstanding = left]]
    BY <1>0, <1>1, <2>1, KeptRows DEF create_vendor_payment, VendorRows
  <2> HIDE DEF left, sum, more
  <2>4. /\ vendor' \in VendorRows
        /\ \A w \in Vendors : vendor'[w].known = vendor[w].known /\ (w # v => vendor'[w] = vendor[w])
        /\ vendor'[v].payments = sum /\ vendor'[v].times = more /\ vendor'[v].outstanding = left
    BY <2>1, <2>2, <2>3, KeptRows DEF VendorRows
  <2> QED
    BY <2>4 DEF left, sum, more
<1>9. ret' = ret /\ stock' = stock
  BY <1>0 DEF create_vendor_payment
<1>10. Settled(v, r.quantity, split)
  BY <1>4, <1>6, <1>7, <1>8, <1>9 DEF Settled
<1> QED
  BY <1>2, <1>10

-----------------------------------------------------------------------------
(***************************************************************************)
(* Types and rows, shape by shape.                                         *)
(***************************************************************************)
LEMMA KeptIf ==
  ASSUME Kept, NEW r, Serve(r), vendor' \in VendorRows,
         purchase' \in [Purchases -> PurchaseRow], ret' \in [Returns -> ReturnRow],
         stock' \in Int,
         \A p \in Purchases : /\ purchase[p].status # "none" => purchase'[p].status # "none"
                              /\ purchase'[p].status # "none" =>
                                    /\ purchase'[p].vendor \in Vendors
                                    /\ vendor'[purchase'[p].vendor].known
                              /\ RowOK(p)',
         \A s \in Returns : ret'[s].status # "none" =>
                                /\ ret'[s].purchase \in Purchases
                                /\ purchase'[ret'[s].purchase].status \in {"received", "cancelled"},
         \A s \in Returns : ret'[s].applied_credit <= ret'[s].quantity
  PROVE  Kept'
<1>1. /\ calls' \in 0..MaxCalls /\ DOMAIN reqs' = Screens
      /\ \A s \in Screens : /\ reqs'[s] \in Presses /\ PressOK(reqs[s])'
                            /\ reqs'[s].kind \in Kinds \union {"none"}
                            /\ DOMAIN reqs'[s] = DOMAIN Idle
  BY ServeKeeps
<1> QED
  BY <1>1 DEF Kept, TypeOK, VendorRows

LEMMA BackStays ==
  ASSUME ret' = ret, NEW p
  PROVE  Back(p)' = Back(p)
  BY DEF Back, BackOf

LEMMA EnteredKept ==
  ASSUME Kept, NEW r, Serve(r), NEW p \in Purchases, Entered(p)
  PROVE  Kept'
<1>1. /\ vendor' \in VendorRows /\ purchase' \in [Purchases -> PurchaseRow] /\ ret' = ret
      /\ \A w \in Vendors : vendor'[w].known = vendor[w].known
      /\ \A q \in Purchases \ {p} : purchase'[q] = purchase[q]
      /\ purchase[p].status \in {"none", "draft"}
  BY DEF Entered
<1>2. purchase'[p].quantity \in Nat /\ purchase'[p].status \in {"draft", "received"}
      /\ purchase'[p].vendor \in Vendors /\ vendor[purchase'[p].vendor].known
  BY <1>1, NatBounds DEF Entered, PurchaseRow
<1>3. stock' \in Int
  BY <1>2, KeptRows DEF Entered
<1>4. Back(p) = 0 /\ \A q \in Purchases : Back(q)' = Back(q)
  BY <1>1, BackStays DEF Kept, RowOK
<1>5. RowOK(p)'
  BY <1>2, <1>4 DEF Entered, RowOK
<1>6. \A q \in Purchases : RowOK(q)'
  BY <1>1, <1>4, <1>5 DEF Kept, RowOK
<1>7. \A q \in Purchases : /\ purchase[q].status # "none" => purchase'[q].status # "none"
                           /\ purchase'[q].status # "none" =>
                                 /\ purchase'[q].vendor \in Vendors
                                 /\ vendor'[purchase'[q].vendor].known
  BY <1>1, <1>2 DEF Kept, TypeOK
<1>8. \A s \in Returns : ret'[s].status # "none" =>
                                /\ ret'[s].purchase \in Purchases
                                /\ purchase'[ret'[s].purchase].status \in {"received", "cancelled"}
  BY <1>1 DEF Kept, TypeOK
<1>9. \A s \in Returns : ret'[s].applied_credit <= ret'[s].quantity
  BY <1>1 DEF Kept
<1> QED
  BY <1>1, <1>3, <1>6, <1>7, <1>8, <1>9, KeptRows, KeptIf

(***************************************************************************)
(* A withdrawn purchase keeps all its columns but the status, and its      *)
(* vendor keeps all but the balance.                                       *)
(***************************************************************************)
LEMMA WithdrawnColumns ==
  ASSUME Kept, NEW p \in Purchases, Withdrawn(p)
  PROVE  /\ purchase[p].vendor \in Vendors
         /\ purchase'[p].status = "cancelled"
         /\ purchase'[p].vendor = purchase[p].vendor /\ purchase'[p].quantity = purchase[p].quantity
         /\ purchase'[p].immediate = purchase[p].immediate /\ purchase'[p].paid = purchase[p].paid
         /\ purchase'[p].outstanding = purchase[p].outstanding
         /\ purchase'[p].returned = purchase[p].returned
         /\ vendor' \in VendorRows /\ stock' \in Int
         /\ \A w \in Vendors :
               /\ vendor'[w].known = vendor[w].known /\ vendor'[w].payments = vendor[w].payments
               /\ vendor'[w].times = vendor[w].times
               /\ w # purchase[p].vendor => vendor'[w].outstanding = vendor[w].outstanding
<1>1. purchase[p] \in PurchaseRow /\ purchase[p].outstanding \in Nat
      /\ purchase[p].quantity \in Nat /\ stock \in Int /\ vendor \in VendorRows
  BY KeptRows DEF PurchaseRow
<1>2. purchase[p].vendor \in Vendors
  BY DEF Withdrawn, Kept, TypeOK
<1>3. purchase'[p] = [purchase[p] EXCEPT !.status = "cancelled"]
  BY DEF Withdrawn
<1>4. /\ vendor' \in VendorRows /\ stock' \in Int
      /\ \A w \in Vendors :
            /\ vendor'[w].known = vendor[w].known /\ vendor'[w].payments = vendor[w].payments
            /\ vendor'[w].times = vendor[w].times
            /\ w # purchase[p].vendor => vendor'[w].outstanding = vendor[w].outstanding
  <2>1. CASE purchase[p].status = "received"
    BY <1>1, <1>2, <2>1, SettlesIs DEF Withdrawn
  <2>2. CASE purchase[p].status # "received"
    BY <1>1, <2>2 DEF Withdrawn
  <2> QED
    BY <2>1, <2>2
<1> QED
  BY <1>1, <1>2, <1>3, <1>4 DEF PurchaseRow

LEMMA WithdrawnKept ==
  ASSUME Kept, NEW r, Serve(r), NEW p \in Purchases, Withdrawn(p)
  PROVE  Kept'
<1>1. /\ purchase' \in [Purchases -> PurchaseRow] /\ ret' = ret
      /\ \A q \in Purchases \ {p} : purchase'[q] = purchase[q]
      /\ purchase[p].status \in {"draft", "received"}
  BY DEF Withdrawn
<1>2. \A q \in Purchases : Back(q)' = Back(q)
  BY <1>1, BackStays
<1>3. \A q \in Purchases : RowOK(q)'
  BY <1>1, <1>2, WithdrawnColumns DEF Kept, RowOK
<1>4. \A q \in Purchases : /\ purchase[q].status # "none" => purchase'[q].status # "none"
                           /\ purchase'[q].status # "none" =>
                                 /\ purchase'[q].vendor \in Vendors
                                 /\ vendor'[purchase'[q].vendor].known
  BY <1>1, WithdrawnColumns DEF Kept, TypeOK
<1>5. \A s \in Returns : ret'[s].status # "none" =>
                                /\ ret'[s].purchase \in Purchases
                                /\ purchase'[ret'[s].purchase].status \in {"received", "cancelled"}
  BY <1>1, WithdrawnColumns DEF Kept, TypeOK
<1>6. \A s \in Returns : ret'[s].applied_credit <= ret'[s].quantity
  BY <1>1 DEF Kept
<1> QED
  BY <1>1, <1>3, <1>4, <1>5, <1>6, KeptRows, WithdrawnColumns, KeptIf

(***************************************************************************)
(* One return of the sum changes: Back changes by as much for the purchase *)
(* of that return, and for no other.                                       *)
(***************************************************************************)
LEMMA BackMoves ==
  ASSUME Kept, NEW r \in Returns, \A s \in Returns \ {r} : ret'[s] = ret[s],
         ret' \in [Returns -> ReturnRow], NEW p \in Purchases
  PROVE  Back(p)' = Back(p) + (BackOf(p)'[r] - BackOf(p)[r])
<1>1. \A s \in Returns : BackOf(p)[s] \in Int /\ BackOf(p)'[s] \in Int
  BY KeptRows, NatBounds DEF BackOf, ReturnRow
<1>2. \A s \in Returns \ {r} : BackOf(p)'[s] = BackOf(p)[s]
  BY DEF BackOf
<1>3. IsFiniteSet(Returns)
  BY ProcurementAssumption DEF ProcurementAssumption
<1>4. Back(p) = SumFunctionOnSet(BackOf(p), Returns)
      /\ Back(p)' = SumFunctionOnSet(BackOf(p)', Returns)
  BY DEF Back
<1> QED
  BY <1>1, <1>2, <1>3, <1>4, SumUpdate

LEMMA SentOffColumns ==
  ASSUME Kept, NEW p \in Purchases, NEW new \in Returns, SentOff(p, new)
  PROVE  /\ purchase[p].vendor \in Vendors
         /\ ret'[new].quantity \in Nat /\ ret'[new].applied_credit \in Nat
         /\ ret'[new].applied_credit <= purchase[p].outstanding
         /\ purchase[p].outstanding \in Nat /\ purchase'[p].outstanding \in Nat
         /\ vendor' \in VendorRows /\ stock' \in Int
         /\ \A w \in Vendors :
               /\ vendor'[w].known = vendor[w].known /\ vendor'[w].payments = vendor[w].payments
               /\ vendor'[w].times = vendor[w].times
               /\ w # purchase[p].vendor => vendor'[w].outstanding = vendor[w].outstanding
         /\ LET v == purchase[p].vendor IN
            vendor'[v].outstanding = IF vendor[v].outstanding > ret'[new].applied_credit
                                     THEN vendor[v].outstanding - ret'[new].applied_credit ELSE 0
<1>1. purchase[p].outstanding \in Nat /\ purchase'[p].outstanding \in Nat
      /\ stock \in Int /\ vendor \in VendorRows
  BY KeptRows DEF PurchaseRow, SentOff
<1>2. purchase[p].vendor \in Vendors
  BY DEF SentOff, Kept, TypeOK
<1>3. ret'[new].quantity \in Nat /\ ret'[new].applied_credit \in Nat
  BY NatBounds DEF SentOff, ReturnRow
<1>4. ret'[new].applied_credit <= purchase[p].outstanding /\ stock' \in Int
  BY <1>1, <1>3 DEF SentOff
<1> QED
  BY <1>1, <1>2, <1>3, <1>4, SettlesIs DEF SentOff

LEMMA SentOffKept ==
  ASSUME Kept, NEW r, Serve(r), NEW p \in Purchases, NEW new \in Returns, SentOff(p, new)
  PROVE  Kept'
<1>1. /\ purchase' \in [Purchases -> PurchaseRow] /\ ret' \in [Returns -> ReturnRow]
      /\ \A q \in Purchases \ {p} : purchase'[q] = purchase[q]
      /\ \A s \in Returns \ {new} : ret'[s] = ret[s]
      /\ purchase[p].status = "received" /\ purchase'[p].status = "received"
      /\ purchase'[p].vendor = purchase[p].vendor
      /\ ret[new].status = "none" /\ ret'[new].status = "completed" /\ ret'[new].purchase = p
  BY DEF SentOff
<1>2. ASSUME NEW q \in Purchases
      PROVE  Back(q)' = Back(q) + IF q = p THEN ret'[new].quantity ELSE 0
  <2>1. /\ BackOf(q)[new] = 0
        /\ BackOf(q)'[new] = IF q = p THEN ret'[new].quantity ELSE 0
    BY <1>1 DEF BackOf
  <2>2. Back(q) \in Nat /\ ret'[new].quantity \in Nat
    BY BackInt, SentOffColumns
  <2> QED
    BY <1>1, <2>1, <2>2, BackMoves
<1>3. RowOK(p)'
  <2>1. purchase'[p].returned = Back(p)'
    BY <1>2 DEF SentOff, Kept, RowOK
  <2>2. purchase[p].immediate => purchase[p].paid >= purchase[p].quantity
    BY <1>1 DEF Kept, RowOK
  <2> QED
    BY <1>1, <2>1, <2>2 DEF SentOff, RowOK
<1>4. ASSUME NEW q \in Purchases \ {p} PROVE RowOK(q)'
  <2>1. Back(q)' = Back(q)
    BY <1>2, BackInt
  <2> QED
    BY <1>1, <2>1 DEF Kept, RowOK
<1>5. \A q \in Purchases : /\ purchase[q].status # "none" => purchase'[q].status # "none"
                           /\ purchase'[q].status # "none" =>
                                 /\ purchase'[q].vendor \in Vendors
                                 /\ vendor'[purchase'[q].vendor].known
  BY <1>1, SentOffColumns DEF Kept, TypeOK
<1>6. \A s \in Returns : ret'[s].status # "none" =>
                                /\ ret'[s].purchase \in Purchases
                                /\ purchase'[ret'[s].purchase].status \in {"received", "cancelled"}
  BY <1>1 DEF Kept, TypeOK
<1>7. \A s \in Returns : ret'[s].applied_credit <= ret'[s].quantity
  BY <1>1 DEF Kept, SentOff
<1> QED
  BY <1>1, <1>3, <1>4, <1>5, <1>6, <1>7, SentOffColumns, KeptIf

LEMMA TakenInColumns ==
  ASSUME Kept, NEW p \in Purchases, NEW old \in Returns, TakenIn(p, old)
  PROVE  /\ purchase[p].vendor \in Vendors /\ ret[old].quantity \in Nat
         /\ purchase[p].status \in {"received", "cancelled"}
         /\ purchase[p].outstanding \in Nat /\ purchase'[p].outstanding \in Nat
         /\ vendor' \in VendorRows /\ stock' \in Int
         /\ \A w \in Vendors :
               /\ vendor'[w].known = vendor[w].known /\ vendor'[w].payments = vendor[w].payments
               /\ vendor'[w].times = vendor[w].times
               /\ vendor'[w].outstanding
                    = vendor[w].outstanding
                        + IF w = purchase[p].vendor THEN ret[old].quantity ELSE 0
<1>1. purchase[p].outstanding \in Nat /\ purchase'[p].outstanding \in Nat
      /\ stock \in Int /\ vendor \in VendorRows /\ ret[old].quantity \in Nat
  BY KeptRows DEF PurchaseRow, TakenIn
<1>2. purchase[p].vendor \in Vendors /\ purchase[p].status \in {"received", "cancelled"}
  BY DEF TakenIn, Kept, TypeOK
<1>3. stock' \in Int
  BY <1>1 DEF TakenIn
<1> QED
  BY <1>1, <1>2, <1>3, OwesIs DEF TakenIn

LEMMA TakenInKept ==
  ASSUME Kept, NEW r, Serve(r), NEW p \in Purchases, NEW old \in Returns, TakenIn(p, old)
  PROVE  Kept'
<1>1. /\ purchase' \in [Purchases -> PurchaseRow] /\ ret' \in [Returns -> ReturnRow]
      /\ \A q \in Purchases \ {p} : purchase'[q] = purchase[q]
      /\ \A s \in Returns \ {old} : ret'[s] = ret[s]
      /\ purchase'[p].status = purchase[p].status
      /\ purchase'[p].vendor = purchase[p].vendor
      /\ ret[old].status = "completed" /\ ret[old].purchase = p
      /\ ret'[old].status = "cancelled" /\ ret'[old].purchase = p
  BY DEF TakenIn
<1>2. ASSUME NEW q \in Purchases
      PROVE  Back(q)' = Back(q) - IF q = p THEN ret[old].quantity ELSE 0
  <2>1. /\ BackOf(q)'[old] = 0
        /\ BackOf(q)[old] = IF q = p THEN ret[old].quantity ELSE 0
    BY <1>1 DEF BackOf
  <2>2. Back(q) \in Nat /\ ret[old].quantity \in Nat
    BY BackInt, TakenInColumns
  <2> QED
    BY <1>1, <2>1, <2>2, BackMoves
<1>3. RowOK(p)'
  <2>1. purchase'[p].returned = Back(p)'
    BY <1>2 DEF TakenIn, Kept, RowOK
  <2>2. purchase'[p].returned + purchase'[p].outstanding <= purchase[p].quantity
    <3>1. /\ purchase[p].quantity \in Nat /\ purchase[p].returned \in Nat
          /\ ret[old].quantity \in Nat /\ purchase[p].outstanding \in Nat
      BY KeptRows DEF PurchaseRow
    <3>2. purchase[p].returned + purchase[p].outstanding <= purchase[p].quantity
      BY DEF Kept, RowOK
    <3> QED
      BY <3>1, <3>2 DEF TakenIn
  <2>3. /\ purchase[p].status \in {"received", "cancelled"}
        /\ purchase[p].status = "received" /\ purchase[p].immediate =>
              purchase[p].paid >= purchase[p].quantity
    BY TakenInColumns DEF Kept, RowOK
  <2> QED
    BY <1>1, <2>1, <2>2, <2>3 DEF TakenIn, RowOK
<1>4. ASSUME NEW q \in Purchases \ {p} PROVE RowOK(q)'
  <2>1. Back(q)' = Back(q)
    BY <1>2, BackInt
  <2> QED
    BY <1>1, <2>1 DEF Kept, RowOK
<1>5. \A q \in Purchases : /\ purchase[q].status # "none" => purchase'[q].status # "none"
                           /\ purchase'[q].status # "none" =>
                                 /\ purchase'[q].vendor \in Vendors
                                 /\ vendor'[purchase'[q].vendor].known
  BY <1>1, TakenInColumns DEF Kept, TypeOK
<1>6. \A s \in Returns : ret'[s].status # "none" =>
                                /\ ret'[s].purchase \in Purchases
                                /\ purchase'[ret'[s].purchase].status \in {"received", "cancelled"}
  BY <1>1 DEF Kept, TypeOK
<1>7. \A s \in Returns : ret'[s].applied_credit <= ret'[s].quantity
  <2>1. ret'[old].quantity \in Nat
    BY <1>1, NatBounds DEF ReturnRow
  <2> QED
    BY <1>1, <2>1 DEF Kept, TakenIn
<1> QED
  BY <1>1, <1>3, <1>4, <1>5, <1>6, <1>7, TakenInColumns, KeptIf

LEMMA SettledKept ==
  ASSUME Kept, NEW r, Serve(r), NEW v \in Vendors, NEW amount, NEW split, Settled(v, amount, split)
  PROVE  Kept'
<1>1. /\ purchase' \in [Purchases -> PurchaseRow] /\ ret' = ret /\ stock' = stock
      /\ vendor' \in VendorRows /\ \A w \in Vendors : vendor'[w].known = vendor[w].known
  BY DEF Settled
<1>2. ASSUME NEW p \in Purchases PROVE RowOK(p)'
  <2>1. Back(p)' = Back(p)
    BY <1>1, BackStays
  <2>2. /\ RowOK(p) /\ split[p] \in Nat /\ purchase[p].outstanding \in Nat
        /\ purchase[p].quantity \in Nat /\ purchase[p].returned \in Nat /\ purchase[p].paid \in Nat
    BY KeptRows DEF Kept, Settled, PurchaseRow
  <2>3. /\ purchase'[p].status = purchase[p].status /\ purchase'[p].quantity = purchase[p].quantity
        /\ purchase'[p].immediate = purchase[p].immediate
        /\ purchase'[p].returned = purchase[p].returned
        /\ purchase'[p].paid = purchase[p].paid + split[p]
        /\ purchase'[p].outstanding = IF split[p] = 0 THEN purchase[p].outstanding
                                      ELSE LeftOver(purchase[p].outstanding - split[p])
    BY DEF Settled
  <2>4. purchase'[p].outstanding \in Nat /\ purchase'[p].outstanding <= purchase[p].outstanding
    <3>1. /\ LeftOver(purchase[p].outstanding - split[p]) \in Nat
          /\ LeftOver(purchase[p].outstanding - split[p]) <= purchase[p].outstanding
      BY <2>2, LeftOverIs
    <3> QED
      BY <2>2, <2>3, <3>1
  <2> QED
    BY <2>1, <2>2, <2>3, <2>4 DEF RowOK
<1>3. \A q \in Purchases : /\ purchase[q].status # "none" => purchase'[q].status # "none"
                           /\ purchase'[q].status # "none" =>
                                 /\ purchase'[q].vendor \in Vendors
                                 /\ vendor'[purchase'[q].vendor].known
  BY <1>1 DEF Settled, Kept, TypeOK
<1>4. \A s \in Returns : ret'[s].status # "none" =>
                                /\ ret'[s].purchase \in Purchases
                                /\ purchase'[ret'[s].purchase].status \in {"received", "cancelled"}
  BY <1>1 DEF Settled, Kept, TypeOK
<1>5. \A s \in Returns : ret'[s].applied_credit <= ret'[s].quantity
  BY <1>1 DEF Kept
<1> QED
  BY <1>1, <1>2, <1>3, <1>4, <1>5, KeptRows, KeptIf

\* create_vendor and delete_vendor.
Registered ==
    /\ purchase' = purchase /\ ret' = ret /\ stock' = stock /\ vendor' \in VendorRows
    /\ \A w \in Vendors : /\ vendor'[w].outstanding = vendor[w].outstanding
                          /\ vendor'[w].payments = vendor[w].payments
                          /\ vendor'[w].times = vendor[w].times
                          /\ EntriesOf(w) # {} /\ vendor[w].known => vendor'[w].known

LEMMA RegisteredKept ==
  ASSUME Kept, NEW r, Serve(r), Registered
  PROVE  Kept'
<1>1. purchase' = purchase /\ ret' = ret /\ stock' = stock /\ vendor' \in VendorRows
  BY DEF Registered
<1>2. \A p \in Purchases : RowOK(p)'
  BY <1>1, BackStays DEF Kept, RowOK
<1>3. ASSUME NEW p \in Purchases, purchase'[p].status # "none"
      PROVE  purchase'[p].vendor \in Vendors /\ vendor'[purchase'[p].vendor].known
  <2>1. PICK w \in Vendors : w = purchase[p].vendor /\ vendor[w].known
    BY <1>1, <1>3 DEF Kept, TypeOK
  <2>2. p \in EntriesOf(w)
    BY <2>1 DEF EntriesOf
  <2>3. vendor'[w].known
    BY <2>1, <2>2 DEF Registered
  <2> QED
    BY <1>1, <2>1, <2>3
<1>4. \A s \in Returns : ret'[s].status # "none" =>
                                /\ ret'[s].purchase \in Purchases
                                /\ purchase'[ret'[s].purchase].status \in {"received", "cancelled"}
  BY <1>1 DEF Kept, TypeOK
<1>5. \A s \in Returns : ret'[s].applied_credit <= ret'[s].quantity
  BY <1>1 DEF Kept
<1> QED
  BY <1>1, <1>2, <1>3, <1>4, <1>5, KeptRows, KeptIf

LEMMA CreateRegisters ==
  ASSUME Kept, NEW r, create_vendor(r)
  PROVE  Registered
<1>1. PICK v \in Vendors : vendor' = [vendor EXCEPT ![v].known = TRUE]
  BY DEF create_vendor
<1>2. vendor \in VendorRows
  BY KeptRows
<1> QED
  BY <1>1, <1>2 DEF create_vendor, Registered, VendorRows

LEMMA DeleteRegisters ==
  ASSUME Kept, NEW r \in Presses, PressOK(r), delete_vendor(r)
  PROVE  Registered
<1>1. PICK v \in Vendors : v = r.vendor
  BY DEF delete_vendor, PressOK
<1>2. vendor' = [vendor EXCEPT ![v].known = FALSE] /\ EntriesOf(v) = {}
  BY <1>1 DEF delete_vendor
<1>3. vendor \in VendorRows
  BY KeptRows
<1>4. /\ vendor' \in VendorRows
      /\ \A w \in Vendors : /\ vendor'[w].outstanding = vendor[w].outstanding
                            /\ vendor'[w].payments = vendor[w].payments
                            /\ vendor'[w].times = vendor[w].times
                            /\ w # v => vendor'[w].known = vendor[w].known
  BY <1>2, <1>3 DEF VendorRows
<1> QED
  BY <1>2, <1>4 DEF delete_vendor, Registered

(***************************************************************************)
(* The presses the screens send name what the screens showed.              *)
(***************************************************************************)
LEMMA ScreenKept ==
  ASSUME Kept, ScreenStep
  PROVE  Kept' /\ UNCHANGED ledgers
<1>0. ASSUME NEW r, Send(r) PROVE UNCHANGED ledgers
  BY <1>0 DEF Send
<1>1. CASE VendorFormDialog
  <2>1. Press("vendor") \in Presses /\ PressOK(Press("vendor"))
    BY PressIs DEF Kinds, Press, PressOK
  <2> QED
    BY <1>0, <1>1, <2>1, SendKept DEF VendorFormDialog
<1>2. ASSUME NEW v \in Vendors, VendorTable(v) PROVE Kept' /\ UNCHANGED ledgers
  <2> DEFINE r == [Press("delete") EXCEPT !.vendor = v]
  <2>1. r \in Presses /\ PressOK(r)
    BY PressIs DEF Kinds, Press, Presses, PressOK
  <2>2. Send(r)
    BY <1>2 DEF VendorTable
  <2> QED
    BY <1>0, <2>1, <2>2, SendKept
<1>3. ASSUME NEW v \in Vendors, PurchaseEntryFormDialog(v) PROVE Kept' /\ UNCHANGED ledgers
  <2>1. PICK q \in 1..MaxQty, received \in BOOLEAN, immediate \in BOOLEAN :
           Send([Press("create") EXCEPT !.vendor = v, !.quantity = q,
                                        !.received = received, !.immediate = immediate])
    BY <1>3 DEF PurchaseEntryFormDialog
  <2> DEFINE r == [Press("create") EXCEPT !.vendor = v, !.quantity = q,
                                          !.received = received, !.immediate = immediate]
  <2>2. q \in Nat
    BY ProcurementAssumption DEF ProcurementAssumption
  <2>3. r \in Presses /\ PressOK(r)
    BY <2>2, PressIs DEF Kinds, Press, Presses, PressOK
  <2> QED
    BY <1>0, <2>1, <2>3, SendKept
<1>4. ASSUME NEW v \in Vendors, VendorPaymentFormDialog(v) PROVE Kept' /\ UNCHANGED ledgers
  <2>1. PICK amount \in 1..MaxPayment :
           Send([Press("pay") EXCEPT !.vendor = v, !.quantity = amount])
    BY <1>4 DEF VendorPaymentFormDialog
  <2> DEFINE r == [Press("pay") EXCEPT !.vendor = v, !.quantity = amount]
  <2>2. amount \in Nat
    BY ProcurementAssumption DEF ProcurementAssumption
  <2>3. r \in Presses /\ PressOK(r)
    BY <2>2, PressIs DEF Kinds, Press, Presses, PressOK
  <2> QED
    BY <1>0, <2>1, <2>3, SendKept
<1>5. ASSUME NEW p \in Purchases, canConfirm(p) PROVE Kept' /\ UNCHANGED ledgers
  <2> DEFINE r == [Press("confirm") EXCEPT !.purchase = p]
  <2>1. r \in Presses /\ PressOK(r)
    BY <1>5, PressIs DEF Kinds, Press, Presses, PressOK, canConfirm
  <2>2. Send(r)
    BY <1>5 DEF canConfirm
  <2> QED
    BY <1>0, <2>1, <2>2, SendKept
<1>6. ASSUME NEW p \in Purchases, canCancel(p) PROVE Kept' /\ UNCHANGED ledgers
  <2> DEFINE r == [Press("cancel") EXCEPT !.purchase = p]
  <2>1. r \in Presses /\ PressOK(r)
    BY <1>6, PressIs DEF Kinds, Press, Presses, PressOK, canCancel
  <2>2. Send(r)
    BY <1>6 DEF canCancel
  <2> QED
    BY <1>0, <2>1, <2>2, SendKept
<1>7. ASSUME NEW p \in Purchases, PurchaseReturnFormDialog(p) PROVE Kept' /\ UNCHANGED ledgers
  <2>1. PICK q \in 1..Remaining(p) :
           Send([Press("return") EXCEPT !.purchase = p, !.quantity = q])
    BY <1>7 DEF PurchaseReturnFormDialog
  <2> DEFINE r == [Press("return") EXCEPT !.purchase = p, !.quantity = q]
  <2>2. q \in Nat
    <3>1. Remaining(p) \in Int
      BY KeptRows DEF Remaining, PurchaseRow
    <3> QED
      BY <3>1
  <2>3. purchase[p].status = "received"
    BY <1>7 DEF PurchaseReturnFormDialog
  <2>4. r \in Presses /\ PressOK(r)
    BY <2>2, <2>3, PressIs DEF Kinds, Press, Presses, PressOK
  <2> QED
    BY <1>0, <2>1, <2>4, SendKept
<1>8. ASSUME NEW s \in Returns, PurchaseReturnTable(s) PROVE Kept' /\ UNCHANGED ledgers
  <2> DEFINE r == [Press("unreturn") EXCEPT !.ret = s]
  <2>1. r \in Presses /\ PressOK(r)
    BY PressIs DEF Kinds, Press, Presses, PressOK
  <2>2. Send(r)
    BY <1>8 DEF PurchaseReturnTable
  <2> QED
    BY <1>0, <2>1, <2>2, SendKept
<1>9. ASSUME NEW v \in Vendors, NamedPayment(v) PROVE Kept' /\ UNCHANGED ledgers
  <2>1. PICK split \in [Purchases -> 0..MaxPayment] :
           Send([Press("pay") EXCEPT !.vendor = v, !.split = split,
                                     !.quantity = SumFunction(split)])
    BY <1>9 DEF NamedPayment
  <2> DEFINE r == [Press("pay") EXCEPT !.vendor = v, !.split = split,
                                       !.quantity = SumFunction(split)]
  <2>2. split \in [Purchases -> Nat] /\ IsFiniteSet(Purchases) /\ v \in PaidByName
    BY <1>9, ProcurementAssumption DEF NamedPayment, ProcurementAssumption
  <2>3. SumFunction(split) = SumFunctionOnSet(split, Purchases)
    BY DEF SumFunction
  <2>4. SumFunction(split) \in Nat
    BY <2>2, <2>3, SumNat
  <2>5. r \in Presses /\ PressOK(r)
    BY <2>2, <2>4, PressIs DEF Kinds, Press, Presses, PressOK
  <2> QED
    BY <1>0, <2>1, <2>5, SendKept
<1> QED
  BY <1>1, <1>2, <1>3, <1>4, <1>5, <1>6, <1>7, <1>8, <1>9 DEF ScreenStep

(***************************************************************************)
(* Every step keeps types and rows, and has one of the shapes.             *)
(***************************************************************************)
Shapes ==
    \/ UNCHANGED ledgers
    \/ Registered
    \/ \E p \in Purchases : Entered(p) \/ Withdrawn(p)
    \/ \E p \in Purchases, r \in Returns : SentOff(p, r) \/ TakenIn(p, r)
    \/ \E v \in Vendors, amount \in Nat : \E split : Settled(v, amount, split)

LEMMA VanishKept ==
  ASSUME Kept, NEW r, Vanish(r)
  PROVE  Kept' /\ UNCHANGED ledgers
<1>1. Serve(r) /\ vendor' = vendor /\ purchase' = purchase /\ ret' = ret /\ stock' = stock
  BY DEF Vanish, ledgers
<1>2. Registered
  BY <1>1, KeptRows DEF Registered
<1> QED
  BY <1>1, <1>2, RegisteredKept DEF ledgers

LEMMA NextKept ==
  ASSUME Kept, [Next]_vars
  PROVE  Kept' /\ Shapes
<1>1. CASE ScreenStep
  BY <1>1, ScreenKept DEF Shapes
<1>2. CASE UNCHANGED vars
  <2>1. /\ vendor' = vendor /\ purchase' = purchase /\ ret' = ret /\ stock' = stock
        /\ reqs' = reqs /\ calls' = calls
    BY <1>2 DEF vars, ledgers
  <2>2. \A p \in Purchases : RowOK(p)'
    BY <2>1, BackStays DEF Kept, RowOK
  <2>3. \A s \in Screens : reqs'[s] \in Presses /\ PressOK(reqs[s])'
    BY <2>1 DEF Kept, PressOK
  <2>4. TypeOK'
    BY <2>1 DEF Kept, TypeOK
  <2> QED
    BY <2>1, <2>2, <2>3, <2>4 DEF Kept, Shapes, ledgers
<1>3. CASE ServiceStep
  <2>1. PICK s \in Screens :
          LET r == reqs[s] IN
          \/ create_vendor(r) \/ delete_vendor(r) \/ create_purchase_entry(r)
          \/ confirm_purchase_entry(r) \/ cancel_purchase_entry(r) \/ create_purchase_return(r)
          \/ cancel_purchase_return(r) \/ create_vendor_payment(r) \/ Vanish(r)
    BY <1>3 DEF ServiceStep
  <2> DEFINE r == reqs[s]
  <2>2. r \in Presses /\ PressOK(r)
    BY DEF Kept
  <2> HIDE DEF r
  <2>3. CASE create_vendor(r)
    BY <2>3, CreateRegisters, RegisteredKept DEF create_vendor, Shapes
  <2>4. CASE delete_vendor(r)
    BY <2>2, <2>4, DeleteRegisters, RegisteredKept DEF delete_vendor, Shapes
  <2>5. CASE create_purchase_entry(r)
    BY <2>2, <2>5, CreateEnters, EnteredKept DEF create_purchase_entry, Shapes
  <2>6. CASE confirm_purchase_entry(r)
    BY <2>2, <2>6, ConfirmEnters, EnteredKept DEF confirm_purchase_entry, Shapes
  <2>7. CASE cancel_purchase_entry(r)
    BY <2>2, <2>7, CancelWithdraws, WithdrawnKept DEF cancel_purchase_entry, Shapes
  <2>8. CASE create_purchase_return(r)
    BY <2>2, <2>8, ReturnSendsOff, SentOffKept DEF create_purchase_return, Shapes
  <2>9. CASE cancel_purchase_return(r)
    BY <2>2, <2>9, UnreturnTakesIn, TakenInKept DEF cancel_purchase_return, Shapes
  <2>10. CASE create_vendor_payment(r)
    <3>1. PICK v \in Vendors, amount \in Nat : \E split : Settled(v, amount, split)
      BY <2>10, PaymentSettles DEF r
    <3> QED
      BY <2>10, <3>1, SettledKept DEF create_vendor_payment, Shapes
  <2>11. CASE Vanish(r)
    BY <2>11, VanishKept DEF Shapes
  <2> QED
    BY <2>1, <2>3, <2>4, <2>5, <2>6, <2>7, <2>8, <2>9, <2>10, <2>11 DEF r
<1> QED
  BY <1>1, <1>2, <1>3 DEF Next

LEMMA InitKept == Init => Kept
<1> SUFFICES ASSUME Init PROVE Kept
  OBVIOUS
<1> USE DEF Init
<1>1. NoEntry \in PurchaseRow /\ NoReturnYet \in ReturnRow
  BY ProcurementAssumption DEF NoEntry, PurchaseRow, NoReturnYet, ReturnRow, ProcurementAssumption
<1>2. calls \in 0..MaxCalls
  BY ProcurementAssumption DEF ProcurementAssumption
<1>3. \A s \in Screens : reqs[s] \in Presses /\ PressOK(reqs[s])
  BY IdleOK
<1>4. \A s \in Screens : reqs[s].kind \in Kinds \union {"none"} /\ DOMAIN reqs[s] = DOMAIN Idle
  BY IdleOK DEF Presses
<1>5. ASSUME NEW p \in Purchases PROVE RowOK(p)
  <2>1. \A r \in Returns : BackOf(p)[r] = 0
    BY DEF BackOf, NoReturnYet
  <2>2. Back(p) = 0
    BY <2>1, SumZero, ProcurementAssumption DEF Back, ProcurementAssumption
  <2> QED
    BY <2>2 DEF RowOK, NoEntry
<1>6. TypeOK
  BY <1>1, <1>2, <1>4 DEF TypeOK, NoEntry, NoReturnYet
<1>7. \A r \in Returns : ret[r].applied_credit <= ret[r].quantity
  BY DEF NoReturnYet
<1> QED
  BY <1>3, <1>5, <1>6, <1>7 DEF Kept

(***************************************************************************)
(* Rows keep their types and refer to rows there are, whatever is pressed  *)
(* late or twice: the types of what is owed and returned rest on no purchase *)
(* owing or sending back more than was bought.                             *)
(***************************************************************************)
THEOREM TypeCorrect == Spec => []TypeOK
<1>1. Kept /\ [Next]_vars => Kept'
  BY NextKept
<1>2. Kept => TypeOK
  BY DEF Kept
<1> QED
  BY <1>1, <1>2, InitKept, PTL DEF Spec

(***************************************************************************)
(* What returns.py wrote on a purchase is the sum of its standing returns, *)
(* and that and what is owed together never exceed what was bought: the     *)
(* service looks at what is left again, however many dialogs were open.     *)
(***************************************************************************)
LEMMA KeptFits == Kept => ReturnsFitThePurchase
<1> SUFFICES ASSUME Kept, NEW p \in Purchases
             PROVE  /\ purchase[p].returned = SentBack({p})
                    /\ purchase[p].returned + purchase[p].outstanding <= purchase[p].quantity
  BY DEF ReturnsFitThePurchase
<1> DEFINE back == [r \in {s \in Returns : ret[s].status = "completed" /\ ret[s].purchase \in {p}}
                      |-> ret[r].quantity]
<1>1. /\ DOMAIN back \subseteq Returns /\ \A r \in DOMAIN back : back[r] \in Int
      /\ \A r \in Returns : BackOf(p)[r] = IF r \in DOMAIN back THEN back[r] ELSE 0
  BY KeptRows DEF BackOf
<1>2. SentBack({p}) = SumFunction(back)
  BY DEF SentBack
<1>3. IsFiniteSet(Returns)
  BY ProcurementAssumption DEF ProcurementAssumption
<1> HIDE DEF back
<1>4. SentBack({p}) = Back(p)
  BY <1>1, <1>2, <1>3, SumOfSome DEF Back
<1> QED
  BY <1>4 DEF Kept, RowOK

THEOREM ReturnsFit == Spec => []ReturnsFitThePurchase
<1>1. Kept /\ [Next]_vars => Kept'
  BY NextKept
<1> QED
  BY <1>1, KeptFits, InitKept, PTL DEF Spec

(***************************************************************************)
(* A cancelled purchase is never written forward: a payment from the dialog *)
(* looks at received purchases only, a return or a confirmation pressed     *)
(* before the cancellation is refused after it.  Only a payment that names   *)
(* the purchase reaches it, the service looking at its balance and not at    *)
(* its status.                                                             *)
(***************************************************************************)
Over(p) ==
    /\ purchase'[p].status = "cancelled"
    /\ purchase'[p].returned <= purchase[p].returned
    /\ \/ purchase'[p].paid = purchase[p].paid
       \/ \E s \in Screens : /\ reqs[s].split[p] > 0 /\ reqs'[s] = Idle
                             /\ purchase'[p].paid = purchase[p].paid + reqs[s].split[p]

LEMMA CancelledStays ==
  ASSUME Kept, Shapes, NEW p \in InState("cancelled")
  PROVE  Over(p)
<1>1. p \in Purchases /\ purchase[p].status = "cancelled" /\ purchase[p].returned \in Nat
      /\ purchase[p].paid \in Nat
  BY KeptRows DEF InState, PurchaseRow
<1>2. (purchase'[p] = purchase[p]) => Over(p)
  BY <1>1 DEF Over
<1>3. ASSUME NEW q \in Purchases, Entered(q) \/ Withdrawn(q)
      PROVE  purchase'[p] = purchase[p]
  BY <1>1, <1>3 DEF Entered, Withdrawn
<1>4. ASSUME NEW q \in Purchases, NEW r \in Returns, SentOff(q, r)
      PROVE  purchase'[p] = purchase[p]
  BY <1>1, <1>4 DEF SentOff
<1>5. ASSUME NEW q \in Purchases, NEW r \in Returns, TakenIn(q, r), p # q
      PROVE  purchase'[p] = purchase[p]
  BY <1>1, <1>5 DEF TakenIn
<1>6. ASSUME NEW r \in Returns, TakenIn(p, r) PROVE Over(p)
  BY <1>1, <1>6, KeptRows DEF TakenIn, Over
<1>7. ASSUME NEW v \in Vendors, NEW amount \in Nat, NEW split, Settled(v, amount, split)
      PROVE  Over(p)
  <2>1. /\ purchase'[p].status = "cancelled" /\ purchase'[p].returned = purchase[p].returned
        /\ purchase'[p].paid = purchase[p].paid + split[p]
        /\ split[p] \in Nat /\ (split[p] > 0 => Asked(p, split[p]))
    BY <1>1, <1>7 DEF Settled, Received
  <2>2. CASE split[p] = 0
    BY <1>1, <2>1, <2>2 DEF Over
  <2>3. CASE split[p] > 0
    <3>1. PICK s \in Screens : reqs[s].split[p] = split[p] /\ reqs'[s] = Idle
      BY <2>1, <2>3 DEF Asked
    <3> QED
      BY <1>1, <2>1, <2>3, <3>1 DEF Over
  <2> QED
    BY <2>1, <2>2, <2>3
<1>8. (UNCHANGED ledgers \/ Registered) => purchase' = purchase
  BY DEF ledgers, Registered
<1> QED
  BY <1>2, <1>3, <1>4, <1>5, <1>6, <1>7, <1>8 DEF Shapes

THEOREM CancellationIsFinal == Spec => CancelledIsOver
<1>1. Kept /\ [Next]_vars => Kept'
  BY NextKept
<1>2. Kept /\ [Next]_vars => [\A p \in InState("cancelled") : Over(p)]_vars
  BY NextKept, CancelledStays
<1> QED
  BY <1>1, <1>2, InitKept, PTL DEF Spec, CancelledIsOver, Over

-----------------------------------------------------------------------------
(***************************************************************************)
(* The stock.                                                              *)
(***************************************************************************)
LEMMA UnitsInt ==
  ASSUME Kept
  PROVE  /\ \A p \in Purchases : BoughtBy[p] \in Int
         /\ \A r \in Returns : SentBy[r] \in Int
         /\ SumFunctionOnSet(BoughtBy, Purchases) \in Int
         /\ SumFunctionOnSet(SentBy, Returns) \in Int
         /\ IsFiniteSet(Purchases) /\ IsFiniteSet(Returns)
<1>1. \A p \in Purchases : BoughtBy[p] \in Int
  BY KeptRows DEF BoughtBy
<1>2. \A r \in Returns : SentBy[r] \in Int
  BY KeptRows DEF SentBy
<1>3. IsFiniteSet(Purchases) /\ IsFiniteSet(Returns)
  BY ProcurementAssumption DEF ProcurementAssumption
<1> QED
  BY <1>1, <1>2, <1>3, SumInt

LEMMA BoughtMoves ==
  ASSUME Kept, NEW p \in Purchases, purchase' \in [Purchases -> PurchaseRow],
         \A q \in Purchases \ {p} : purchase'[q] = purchase[q]
  PROVE  SumFunctionOnSet(BoughtBy, Purchases)'
            = SumFunctionOnSet(BoughtBy, Purchases) + (BoughtBy'[p] - BoughtBy[p])
<1>1. \A q \in Purchases : BoughtBy[q] \in Int /\ BoughtBy'[q] \in Int
  BY KeptRows, NatBounds DEF BoughtBy, PurchaseRow
<1>2. \A q \in Purchases \ {p} : BoughtBy'[q] = BoughtBy[q]
  BY DEF BoughtBy
<1> QED
  BY <1>1, <1>2, UnitsInt, SumUpdate

LEMMA SentMoves ==
  ASSUME Kept, NEW r \in Returns, ret' \in [Returns -> ReturnRow],
         \A s \in Returns \ {r} : ret'[s] = ret[s]
  PROVE  SumFunctionOnSet(SentBy, Returns)'
            = SumFunctionOnSet(SentBy, Returns) + (SentBy'[r] - SentBy[r])
<1>1. \A s \in Returns : SentBy[s] \in Int /\ SentBy'[s] \in Int
  BY KeptRows, NatBounds DEF SentBy, ReturnRow
<1>2. \A s \in Returns \ {r} : SentBy'[s] = SentBy[s]
  BY DEF SentBy
<1> QED
  BY <1>1, <1>2, UnitsInt, SumUpdate

(***************************************************************************)
(* A purchase whose status and quantity stay counts for what it did.       *)
(***************************************************************************)
LEMMA BoughtStays ==
  ASSUME Kept, \A p \in Purchases : /\ purchase'[p].status = purchase[p].status
                                    /\ purchase'[p].quantity = purchase[p].quantity
  PROVE  SumFunctionOnSet(BoughtBy, Purchases)' = SumFunctionOnSet(BoughtBy, Purchases)
<1>1. \A p \in Purchases : BoughtBy'[p] = BoughtBy[p]
  BY DEF BoughtBy
<1> QED
  BY <1>1, UnitsInt, SumSame

LEMMA StockStep ==
  ASSUME StockInv, [Next]_vars
  PROVE  StockInv'
<1>0. Kept /\ Kept' /\ Shapes
  BY NextKept DEF StockInv
<1> DEFINE bought == SumFunctionOnSet(BoughtBy, Purchases)
           sent == SumFunctionOnSet(SentBy, Returns)
<1>1. bought \in Int /\ sent \in Int /\ stock = bought - sent
  BY <1>0, UnitsInt DEF StockInv
<1> SUFFICES stock' = bought' - sent'
  BY <1>0 DEF StockInv
<1>2. ASSUME ret' = ret PROVE sent' = sent
  BY <1>2 DEF SentBy
<1>3. CASE UNCHANGED ledgers \/ Registered
  <2>1. purchase' = purchase /\ ret' = ret /\ stock' = stock
    BY <1>3 DEF ledgers, Registered
  <2>2. bought' = bought
    BY <2>1 DEF BoughtBy
  <2> QED
    BY <1>1, <1>2, <2>1, <2>2
<1>4. ASSUME NEW p \in Purchases, Entered(p) PROVE stock' = bought' - sent'
  <2>1. /\ purchase' \in [Purchases -> PurchaseRow] /\ ret' = ret
        /\ \A q \in Purchases \ {p} : purchase'[q] = purchase[q]
        /\ purchase[p].status # "received"
        /\ stock' = stock + IF purchase'[p].status = "received" THEN purchase'[p].quantity ELSE 0
    BY <1>4 DEF Entered
  <2>2. BoughtBy[p] = 0 /\ BoughtBy'[p] \in Int
        /\ BoughtBy'[p] = IF purchase'[p].status = "received" THEN purchase'[p].quantity ELSE 0
    BY <2>1, NatBounds DEF BoughtBy, PurchaseRow
  <2>3. bought' = bought + (BoughtBy'[p] - BoughtBy[p])
    BY <1>0, <2>1, BoughtMoves
  <2> HIDE DEF bought, sent
  <2> QED
    BY <1>1, <1>2, <2>1, <2>2, <2>3
<1>5. ASSUME NEW p \in Purchases, Withdrawn(p) PROVE stock' = bought' - sent'
  <2>1. /\ purchase' \in [Purchases -> PurchaseRow] /\ ret' = ret
        /\ \A q \in Purchases \ {p} : purchase'[q] = purchase[q]
        /\ stock' = stock - IF purchase[p].status = "received" THEN purchase[p].quantity ELSE 0
    BY <1>1, <1>5 DEF Withdrawn
  <2>2. BoughtBy'[p] = 0 /\ BoughtBy[p] \in Int
        /\ BoughtBy[p] = IF purchase[p].status = "received" THEN purchase[p].quantity ELSE 0
    BY <1>0, <1>5, WithdrawnColumns, UnitsInt DEF BoughtBy
  <2>3. bought' = bought + (BoughtBy'[p] - BoughtBy[p])
    BY <1>0, <2>1, BoughtMoves
  <2> HIDE DEF bought, sent
  <2> QED
    BY <1>1, <1>2, <2>1, <2>2, <2>3
<1>6. ASSUME NEW p \in Purchases, NEW r \in Returns, SentOff(p, r) PROVE stock' = bought' - sent'
  <2>1. /\ ret' \in [Returns -> ReturnRow] /\ \A s \in Returns \ {r} : ret'[s] = ret[s]
        /\ ret[r].status = "none" /\ ret'[r].status = "completed"
        /\ stock' = stock - ret'[r].quantity
        /\ \A q \in Purchases : /\ purchase'[q].status = purchase[q].status
                                /\ purchase'[q].quantity = purchase[q].quantity
    BY <1>6 DEF SentOff
  <2>2. SentBy[r] = 0 /\ SentBy'[r] = ret'[r].quantity /\ ret'[r].quantity \in Nat
    BY <1>0, <1>6, <2>1, SentOffColumns DEF SentBy
  <2>3. sent' = sent + (SentBy'[r] - SentBy[r]) /\ bought' = bought
    BY <1>0, <2>1, SentMoves, BoughtStays
  <2> HIDE DEF bought, sent
  <2> QED
    BY <1>1, <2>1, <2>2, <2>3
<1>7. ASSUME NEW p \in Purchases, NEW r \in Returns, TakenIn(p, r) PROVE stock' = bought' - sent'
  <2>1. /\ ret' \in [Returns -> ReturnRow] /\ \A s \in Returns \ {r} : ret'[s] = ret[s]
        /\ ret'[r].status = "cancelled" /\ ret[r].status = "completed"
        /\ stock' = stock + ret[r].quantity
        /\ \A q \in Purchases : /\ purchase'[q].status = purchase[q].status
                                /\ purchase'[q].quantity = purchase[q].quantity
    BY <1>7 DEF TakenIn
  <2>2. SentBy'[r] = 0 /\ SentBy[r] = ret[r].quantity /\ ret[r].quantity \in Nat
    BY <1>0, <1>7, <2>1, TakenInColumns DEF SentBy
  <2>3. sent' = sent + (SentBy'[r] - SentBy[r]) /\ bought' = bought
    BY <1>0, <2>1, SentMoves, BoughtStays
  <2> HIDE DEF bought, sent
  <2> QED
    BY <1>1, <2>1, <2>2, <2>3
<1>8. ASSUME NEW v \in Vendors, NEW amount \in Nat, NEW split, Settled(v, amount, split)
      PROVE  stock' = bought' - sent'
  <2>1. ret' = ret /\ stock' = stock
        /\ \A q \in Purchases : /\ purchase'[q].status = purchase[q].status
                                /\ purchase'[q].quantity = purchase[q].quantity
    BY <1>8 DEF Settled
  <2>2. bought' = bought
    BY <1>0, <2>1, BoughtStays
  <2> QED
    BY <1>1, <1>2, <2>1, <2>2
<1> QED
  BY <1>0, <1>3, <1>4, <1>5, <1>6, <1>7, <1>8 DEF Shapes

LEMMA StockSums == StockInv => StockReconciles
<1> SUFFICES ASSUME StockInv PROVE StockReconciles
  OBVIOUS
<1>0. Kept
  BY DEF StockInv
<1> DEFINE bought == [p \in InState("received") |-> purchase[p].quantity]
           sent == [r \in {s \in Returns : ret[s].status = "completed" /\ ret[s].purchase \in Purchases}
                      |-> ret[r].quantity]
<1>1. /\ DOMAIN bought \subseteq Purchases /\ \A p \in DOMAIN bought : bought[p] \in Int
      /\ \A p \in Purchases : BoughtBy[p] = IF p \in DOMAIN bought THEN bought[p] ELSE 0
  BY <1>0, KeptRows DEF BoughtBy, InState
<1>2. /\ DOMAIN sent \subseteq Returns /\ \A r \in DOMAIN sent : sent[r] \in Int
      /\ \A r \in Returns : SentBy[r] = IF r \in DOMAIN sent THEN sent[r] ELSE 0
  BY <1>0, KeptRows DEF SentBy, Kept, TypeOK
<1>3. Units(InState("received")) = SumFunction(bought) /\ SentBack(Purchases) = SumFunction(sent)
  BY DEF Units, SentBack
<1> HIDE DEF bought, sent
<1>4. SumFunction(bought) = SumFunctionOnSet(BoughtBy, Purchases)
  BY <1>0, <1>1, UnitsInt, SumOfSome
<1>5. SumFunction(sent) = SumFunctionOnSet(SentBy, Returns)
  BY <1>0, <1>2, UnitsInt, SumOfSome
<1> QED
  BY <1>3, <1>4, <1>5 DEF StockInv, StockReconciles

(***************************************************************************)
(* Goods enter the stock once per purchase and leave it once per return,   *)
(* however often create, confirm, cancel, return and its undoing are        *)
(* pressed and in whatever order they are served.                          *)
(***************************************************************************)
THEOREM StockIsDocumented == Spec => []StockReconciles
<1>1. Init => StockInv
  <2> SUFFICES ASSUME Init PROVE StockInv
    OBVIOUS
  <2>1. /\ \A p \in Purchases : BoughtBy[p] = 0
        /\ \A r \in Returns : SentBy[r] = 0
    BY DEF Init, BoughtBy, SentBy, NoEntry, NoReturnYet
  <2>2. SumFunctionOnSet(BoughtBy, Purchases) = 0 /\ SumFunctionOnSet(SentBy, Returns) = 0
    BY <2>1, SumZero, ProcurementAssumption DEF ProcurementAssumption
  <2> QED
    BY <2>2, InitKept DEF Init, StockInv
<1>2. StockInv /\ [Next]_vars => StockInv'
  BY StockStep
<1> QED
  BY <1>1, <1>2, StockSums, PTL DEF Spec

-----------------------------------------------------------------------------
(***************************************************************************)
(* The balances of the vendors.                                            *)
(***************************************************************************)
LEMMA BalanceInts ==
  ASSUME Kept, NEW v \in Vendors
  PROVE  /\ IsFiniteSet(Purchases) /\ IsFiniteSet(Returns)
         /\ \A p \in Purchases : /\ OwedBy(v)[p] \in Nat /\ OwedBy(v)[p] <= OwedTo(v)
                                 /\ BilledBy(v)[p] \in Int
         /\ \A r \in Returns : CreditedBy(v)[r] \in Int
         /\ OwedTo(v) \in Nat /\ LedgerOf(v) \in Int
         /\ SumFunctionOnSet(BilledBy(v), Purchases) \in Int
         /\ SumFunctionOnSet(CreditedBy(v), Returns) \in Int
         /\ vendor[v].outstanding \in Nat /\ vendor[v].payments \in Nat /\ vendor[v].times \in Nat
<1>1. IsFiniteSet(Purchases) /\ IsFiniteSet(Returns)
  BY ProcurementAssumption DEF ProcurementAssumption
<1>2. \A p \in Purchases : OwedBy(v)[p] \in Nat
  BY KeptRows DEF OwedBy, PurchaseRow
<1>3. ASSUME NEW p \in Purchases PROVE BilledBy(v)[p] \in Int
  <2>1. purchase[p].quantity \in Nat /\ purchase[p].paid \in Nat
    BY KeptRows DEF PurchaseRow
  <2> QED
    BY <2>1 DEF BilledBy
<1>4. \A r \in Returns : CreditedBy(v)[r] \in Int
  BY KeptRows DEF CreditedBy, ReturnRow
<1>5. vendor[v].outstanding \in Nat /\ vendor[v].payments \in Nat /\ vendor[v].times \in Nat
  BY KeptRows DEF VendorRows
<1>6. OwedTo(v) \in Nat /\ \A p \in Purchases : OwedBy(v)[p] <= OwedTo(v)
  BY <1>1, <1>2, SumNat DEF OwedTo
<1>7. SumFunctionOnSet(BilledBy(v), Purchases) \in Int
  BY <1>1, <1>3, SumInt
<1>8. SumFunctionOnSet(CreditedBy(v), Returns) \in Int
  BY <1>1, <1>4, SumInt
<1>9. LedgerOf(v) \in Int
  BY <1>5, <1>7, <1>8 DEF LedgerOf
<1> QED
  BY <1>1, <1>2, <1>3, <1>4, <1>5, <1>6, <1>7, <1>8, <1>9

(***************************************************************************)
(* When one purchase is written, the sums over purchases change by what it *)
(* adds to them; when one return is, those over returns do.                *)
(***************************************************************************)
LEMMA BalancesMove ==
  ASSUME Kept, Kept', NEW v \in Vendors, NEW p \in Purchases,
         \A q \in Purchases \ {p} : purchase'[q] = purchase[q]
  PROVE  /\ OwedTo(v)' = OwedTo(v) + (OwedBy(v)'[p] - OwedBy(v)[p])
         /\ SumFunctionOnSet(BilledBy(v), Purchases)'
              = SumFunctionOnSet(BilledBy(v), Purchases) + (BilledBy(v)'[p] - BilledBy(v)[p])
         /\ OwedBy(v)'[p] \in Nat /\ BilledBy(v)'[p] \in Int
<1>1. purchase' \in [Purchases -> PurchaseRow]
  BY DEF Kept, TypeOK
<1>2. ASSUME NEW q \in Purchases
      PROVE  OwedBy(v)'[q] \in Nat /\ BilledBy(v)'[q] \in Int
  <2>1. purchase'[q].quantity \in Nat /\ purchase'[q].paid \in Nat /\ purchase'[q].outstanding \in Nat
    BY <1>1, NatBounds DEF PurchaseRow
  <2> QED
    BY <2>1 DEF OwedBy, BilledBy
<1>3. \A q \in Purchases \ {p} : OwedBy(v)'[q] = OwedBy(v)[q]
  BY DEF OwedBy, Received, EntriesOf
<1>4. \A q \in Purchases \ {p} : BilledBy(v)'[q] = BilledBy(v)[q]
  BY DEF BilledBy, Received, EntriesOf
<1>5. \A q \in Purchases : OwedBy(v)[q] \in Int /\ OwedBy(v)'[q] \in Int
  BY <1>2, BalanceInts
<1>6. \A q \in Purchases : BilledBy(v)[q] \in Int /\ BilledBy(v)'[q] \in Int
  BY <1>2, BalanceInts
<1>7. OwedTo(v)' = OwedTo(v) + (OwedBy(v)'[p] - OwedBy(v)[p])
  BY <1>3, <1>5, BalanceInts, SumUpdate DEF OwedTo
<1>8. SumFunctionOnSet(BilledBy(v)', Purchases)
        = SumFunctionOnSet(BilledBy(v), Purchases) + (BilledBy(v)'[p] - BilledBy(v)[p])
  BY <1>4, <1>6, BalanceInts, SumUpdate
<1> QED
  BY <1>2, <1>7, <1>8

LEMMA CreditsMove ==
  ASSUME Kept, Kept', NEW v \in Vendors, NEW r \in Returns,
         \A s \in Returns \ {r} : ret'[s] = ret[s],
         \A q \in Purchases : purchase[q].status # "none" => purchase'[q].vendor = purchase[q].vendor
  PROVE  /\ SumFunctionOnSet(CreditedBy(v), Returns)'
              = SumFunctionOnSet(CreditedBy(v), Returns) + (CreditedBy(v)'[r] - CreditedBy(v)[r])
         /\ CreditedBy(v)'[r] \in Int
<1>1. ret' \in [Returns -> ReturnRow]
  BY DEF Kept, TypeOK
<1>2. \A s \in Returns : CreditedBy(v)'[s] \in Int
  BY <1>1 DEF CreditedBy, ReturnRow
<1>3. ASSUME NEW s \in Returns \ {r} PROVE CreditedBy(v)'[s] = CreditedBy(v)[s]
  <2>1. CASE ret[s].status # "completed"
    BY <2>1 DEF CreditedBy
  <2>2. CASE ret[s].status = "completed"
    <3>1. ret[s].purchase \in Purchases /\ purchase[ret[s].purchase].status # "none"
      BY <2>2 DEF Kept, TypeOK
    <3>2. ret[s].purchase \in EntriesOf(v)' <=> ret[s].purchase \in EntriesOf(v)
      BY <3>1 DEF EntriesOf
    <3> QED
      BY <3>2 DEF CreditedBy
  <2> QED
    BY <2>1, <2>2
<1>4. \A s \in Returns : CreditedBy(v)[s] \in Int /\ CreditedBy(v)'[s] \in Int
  BY <1>2, BalanceInts
<1>5. SumFunctionOnSet(CreditedBy(v)', Returns)
        = SumFunctionOnSet(CreditedBy(v), Returns) + (CreditedBy(v)'[r] - CreditedBy(v)[r])
  BY <1>3, <1>4, BalanceInts, SumUpdate
<1> QED
  BY <1>2, <1>5

LEMMA CreditsStay ==
  ASSUME Kept, NEW v \in Vendors, ret' = ret,
         \A q \in Purchases : purchase[q].status # "none" => purchase'[q].vendor = purchase[q].vendor
  PROVE  SumFunctionOnSet(CreditedBy(v), Returns)' = SumFunctionOnSet(CreditedBy(v), Returns)
<1>1. ASSUME NEW s \in Returns PROVE CreditedBy(v)[s] = CreditedBy(v)'[s]
  <2>1. CASE ret[s].status # "completed"
    BY <2>1 DEF CreditedBy
  <2>2. CASE ret[s].status = "completed"
    <3>1. ret[s].purchase \in Purchases /\ purchase[ret[s].purchase].status # "none"
      BY <2>2 DEF Kept, TypeOK
    <3>2. ret[s].purchase \in EntriesOf(v)' <=> ret[s].purchase \in EntriesOf(v)
      BY <3>1 DEF EntriesOf
    <3> QED
      BY <3>2 DEF CreditedBy
  <2> QED
    BY <2>1, <2>2
<1>2. SumFunctionOnSet(CreditedBy(v), Returns) = SumFunctionOnSet(CreditedBy(v)', Returns)
  BY <1>1, BalanceInts, SumSame
<1> QED
  BY <1>2

(***************************************************************************)
(* What was cancelled or taken back stays so, and a purchase its vendor's. *)
(***************************************************************************)
LEMMA PastStays ==
  ASSUME Kept, Shapes
  PROVE  /\ \A r \in Returns : ret[r].status = "cancelled" => ret'[r] = ret[r]
         /\ \A q \in Purchases :
               /\ purchase[q].status # "none" => purchase'[q].vendor = purchase[q].vendor
               /\ purchase[q].status = "cancelled" => purchase'[q].status = "cancelled"
<1> DEFINE Goal == /\ \A r \in Returns : ret[r].status = "cancelled" => ret'[r] = ret[r]
                   /\ \A q \in Purchases :
                         /\ purchase[q].status # "none" => purchase'[q].vendor = purchase[q].vendor
                         /\ purchase[q].status = "cancelled" => purchase'[q].status = "cancelled"
<1>1. CASE UNCHANGED ledgers \/ Registered
  BY <1>1 DEF ledgers, Registered
<1>2. ASSUME NEW p \in Purchases, Entered(p) PROVE Goal
  BY <1>2 DEF Entered
<1>3. ASSUME NEW p \in Purchases, Withdrawn(p) PROVE Goal
  BY <1>3, WithdrawnColumns DEF Withdrawn
<1>4. ASSUME NEW p \in Purchases, NEW r \in Returns, SentOff(p, r) PROVE Goal
  BY <1>4 DEF SentOff
<1>5. ASSUME NEW p \in Purchases, NEW r \in Returns, TakenIn(p, r) PROVE Goal
  BY <1>5 DEF TakenIn
<1>6. ASSUME NEW v \in Vendors, NEW amount \in Nat, NEW split, Settled(v, amount, split) PROVE Goal
  BY <1>6 DEF Settled
<1> QED
  BY <1>1, <1>2, <1>3, <1>4, <1>5, <1>6 DEF Shapes

LEMMA MarksStay ==
  ASSUME Kept, Shapes, NEW v \in Vendors
  PROVE  (TakenBack(v) => TakenBack(v)') /\ (Cancelled(v) => Cancelled(v)')
<1>1. ASSUME TakenBack(v) PROVE TakenBack(v)'
  <2>1. PICK r \in Returns : ret[r].status = "cancelled" /\ ret[r].purchase \in EntriesOf(v) \ Received(v)
    BY <1>1 DEF TakenBack
  <2>2. PICK p \in Purchases : p = ret[r].purchase
    BY <2>1 DEF EntriesOf
  <2>3. purchase[p].vendor = v /\ purchase[p].status = "cancelled"
    BY <2>1, <2>2 DEF EntriesOf, Received, Kept, TypeOK
  <2>4. /\ ret'[r].status = "cancelled" /\ ret'[r].purchase = p
        /\ purchase'[p].vendor = v /\ purchase'[p].status = "cancelled"
    BY <2>1, <2>2, <2>3, PastStays
  <2> QED
    BY <2>4 DEF TakenBack, EntriesOf, Received
<1>2. ASSUME NEW p \in EntriesOf(v), purchase[p].status = "cancelled" PROVE Cancelled(v)'
  BY <1>2, PastStays DEF Cancelled, EntriesOf
<1>3. ASSUME NEW r \in Returns, ret[r].status = "cancelled", ret[r].purchase \in EntriesOf(v)
      PROVE  Cancelled(v)'
  <2>1. PICK p \in Purchases : p = ret[r].purchase
    BY <1>3 DEF EntriesOf
  <2>2. purchase[p].vendor = v /\ purchase[p].status # "none"
    BY <1>3, <2>1 DEF EntriesOf, Kept, TypeOK
  <2>3. ret'[r].status = "cancelled" /\ ret'[r].purchase = p /\ purchase'[p].vendor = v
    BY <1>3, <2>1, <2>2, PastStays
  <2> QED
    BY <2>3 DEF Cancelled, EntriesOf
<1> QED
  BY <1>1, <1>2, <1>3 DEF Cancelled

LEMMA PaidOnTheSpotStays ==
  ASSUME Kept, Shapes, \A p \in Purchases : PaidOnTheSpot(p), NEW q \in Purchases
  PROVE  PaidOnTheSpot(q)'
<1>0. ASSUME /\ purchase'[q].status = "received" => purchase[q].status = "received"
             /\ purchase'[q].immediate = purchase[q].immediate
             /\ purchase'[q].vendor = purchase[q].vendor
             /\ purchase[q].outstanding = 0 /\ purchase[q].paid = purchase[q].quantity =>
                   purchase'[q].outstanding = 0 /\ purchase'[q].paid = purchase'[q].quantity
      PROVE  PaidOnTheSpot(q)'
  <2> SUFFICES ASSUME purchase'[q].status = "received", purchase'[q].immediate,
                      purchase'[q].vendor \notin PaidByName,
                      ~ \E r \in Returns : ret'[r].status = "cancelled" /\ ret'[r].purchase = q
               PROVE  purchase'[q].outstanding = 0 /\ purchase'[q].paid = purchase'[q].quantity
    BY DEF PaidOnTheSpot
  <2>1. ~ \E r \in Returns : ret[r].status = "cancelled" /\ ret[r].purchase = q
    BY PastStays
  <2>2. /\ purchase[q].status = "received" /\ purchase[q].immediate
        /\ purchase[q].vendor \notin PaidByName
    BY <1>0
  <2>3. purchase[q].outstanding = 0 /\ purchase[q].paid = purchase[q].quantity
    BY <2>1, <2>2 DEF PaidOnTheSpot
  <2> QED
    BY <1>0, <2>3
<1>1. CASE purchase'[q] = purchase[q]
  BY <1>0, <1>1
<1>2. ASSUME Entered(q) PROVE PaidOnTheSpot(q)'
  <2>1. purchase'[q].status = "received" /\ purchase'[q].immediate =>
            purchase'[q].outstanding = 0 /\ purchase'[q].paid = purchase'[q].quantity
    BY <1>2 DEF Entered
  <2> QED
    BY <2>1 DEF PaidOnTheSpot
<1>3. ASSUME Withdrawn(q) PROVE PaidOnTheSpot(q)'
  BY <1>3, WithdrawnColumns DEF PaidOnTheSpot
<1>4. ASSUME NEW r \in Returns, SentOff(q, r) PROVE PaidOnTheSpot(q)'
  <2>1. /\ purchase'[q].status = purchase[q].status /\ purchase'[q].immediate = purchase[q].immediate
        /\ purchase'[q].paid = purchase[q].paid /\ purchase'[q].quantity = purchase[q].quantity
        /\ purchase'[q].outstanding = purchase[q].outstanding - ret'[r].applied_credit
        /\ purchase'[q].vendor = purchase[q].vendor
    BY <1>4 DEF SentOff
  <2>2. /\ ret'[r].applied_credit \in Nat /\ purchase[q].outstanding \in Nat
        /\ ret'[r].applied_credit <= purchase[q].outstanding
    BY <1>4, SentOffColumns
  <2> QED
    BY <1>0, <2>1, <2>2
<1>5. ASSUME NEW r \in Returns, TakenIn(q, r) PROVE PaidOnTheSpot(q)'
  BY <1>5 DEF TakenIn, PaidOnTheSpot
<1>6. ASSUME NEW v \in Vendors, NEW amount \in Nat, NEW split, Settled(v, amount, split)
      PROVE  PaidOnTheSpot(q)'
  <2>1. /\ purchase'[q].status = purchase[q].status /\ purchase'[q].immediate = purchase[q].immediate
        /\ purchase'[q].paid = purchase[q].paid + split[q]
        /\ purchase'[q].quantity = purchase[q].quantity
        /\ purchase'[q].vendor = purchase[q].vendor
        /\ split[q] = 0 => purchase'[q].outstanding = purchase[q].outstanding
        /\ split[q] \in Nat /\ (split[q] > 0 => purchase[q].vendor = v)
    BY <1>6 DEF Settled, EntriesOf
  <2>2. purchase[q].outstanding \in Nat /\ purchase[q].paid \in Nat
    BY KeptRows DEF PurchaseRow
  <2>3. CASE purchase[q].vendor \in PaidByName
    BY <2>1, <2>3 DEF PaidOnTheSpot
  <2>4. CASE purchase[q].vendor \notin PaidByName
    <3>1. split[q] > 0 => split[q] <= purchase[q].outstanding
      BY <1>6, <2>1, <2>4 DEF Settled, ByTheDialog
    <3> QED
      BY <1>0, <2>1, <2>2, <3>1
  <2> QED
    BY <2>3, <2>4
<1>7. CASE UNCHANGED ledgers \/ Registered
  BY <1>1, <1>7 DEF ledgers, Registered
<1>8. ASSUME NEW p \in Purchases, Entered(p) PROVE PaidOnTheSpot(q)'
  BY <1>1, <1>2, <1>8 DEF Entered
<1>9. ASSUME NEW p \in Purchases, Withdrawn(p) PROVE PaidOnTheSpot(q)'
  BY <1>1, <1>3, <1>9 DEF Withdrawn
<1>10. ASSUME NEW p \in Purchases, NEW r \in Returns, SentOff(p, r) PROVE PaidOnTheSpot(q)'
  BY <1>1, <1>4, <1>10 DEF SentOff
<1>11. ASSUME NEW p \in Purchases, NEW r \in Returns, TakenIn(p, r) PROVE PaidOnTheSpot(q)'
  BY <1>1, <1>5, <1>11 DEF TakenIn
<1> QED
  BY <1>6, <1>7, <1>8, <1>9, <1>10, <1>11 DEF Shapes

(***************************************************************************)
(* It is enough that the balance moves as what is owed does, and the       *)
(* ledger as the balance unless something of the vendor is cancelled.       *)
(***************************************************************************)
LEMMA MovesTogether ==
  ASSUME Kept, Kept', Shapes, NEW v \in Vendors, Balanced(v),
         vendor'[v].outstanding - vendor[v].outstanding >= OwedTo(v)' - OwedTo(v),
         \/ TakenBack(v)'
         \/ vendor'[v].outstanding - vendor[v].outstanding = OwedTo(v)' - OwedTo(v),
         \/ Cancelled(v)'
         \/ LedgerOf(v)' - LedgerOf(v) = vendor'[v].outstanding - vendor[v].outstanding,
         vendor'[v].times = vendor[v].times,
         OwedTo(v)' \in Int, LedgerOf(v)' \in Int
  PROVE  Balanced(v)'
<1>1. vendor' \in VendorRows
  BY DEF Kept, TypeOK, VendorRows
<1>2. vendor[v].outstanding \in Int /\ vendor'[v].outstanding \in Int
      /\ OwedTo(v) \in Int /\ LedgerOf(v) \in Int /\ vendor[v].times \in Int
  BY <1>1, BalanceInts DEF VendorRows
<1> DEFINE agrees == /\ LedgerOf(v) <= vendor[v].outstanding
                     /\ vendor[v].outstanding <= LedgerOf(v) + vendor[v].times
<1>3. vendor[v].outstanding >= OwedTo(v)
      /\ (TakenBack(v) \/ vendor[v].outstanding <= OwedTo(v) + vendor[v].times)
      /\ (Cancelled(v) \/ agrees)
  BY DEF Balanced
<1>4. vendor'[v].outstanding >= OwedTo(v)'
  BY <1>2, <1>3
<1>5. TakenBack(v)' \/ vendor'[v].outstanding <= OwedTo(v)' + vendor'[v].times
  BY <1>2, <1>3, MarksStay
<1>6. Cancelled(v)' \/ agrees'
  BY <1>2, <1>3, MarksStay
<1> QED
  BY <1>4, <1>5, <1>6 DEF Balanced

LEMMA LedgerMoves ==
  ASSUME Kept, Kept', NEW v \in Vendors, NEW b \in Int, NEW c \in Int, NEW m \in Int,
         SumFunctionOnSet(BilledBy(v), Purchases)' = SumFunctionOnSet(BilledBy(v), Purchases) + b,
         SumFunctionOnSet(CreditedBy(v), Returns)' = SumFunctionOnSet(CreditedBy(v), Returns) + c,
         vendor'[v].payments = vendor[v].payments + m
  PROVE  LedgerOf(v)' \in Int /\ LedgerOf(v)' - LedgerOf(v) = b - c - m
<1>1. /\ SumFunctionOnSet(BilledBy(v), Purchases) \in Int
      /\ SumFunctionOnSet(CreditedBy(v), Returns) \in Int
      /\ vendor[v].payments \in Int
  BY BalanceInts
<1>2. LedgerOf(v)' = SumFunctionOnSet(BilledBy(v), Purchases)'
               - SumFunctionOnSet(CreditedBy(v), Returns)' - vendor'[v].payments
  BY DEF LedgerOf
<1>3. LedgerOf(v) = SumFunctionOnSet(BilledBy(v), Purchases)
               - SumFunctionOnSet(CreditedBy(v), Returns) - vendor[v].payments
  BY DEF LedgerOf
<1> QED
  BY <1>1, <1>2, <1>3

LEMMA EnteredBalanced ==
  ASSUME Kept, Kept', Shapes, NEW v \in Vendors, Balanced(v), NEW p \in Purchases, Entered(p)
  PROVE  Balanced(v)'
<1>1. /\ \A q \in Purchases \ {p} : purchase'[q] = purchase[q]
      /\ purchase[p].status # "received" /\ ret' = ret
      /\ purchase' \in [Purchases -> PurchaseRow]
  BY DEF Entered
<1>2. purchase'[p].outstanding \in Nat /\ purchase'[p].quantity \in Nat
  BY <1>1, NatBounds DEF PurchaseRow
<1> DEFINE new == IF v = purchase'[p].vendor THEN purchase'[p].outstanding ELSE 0
<1>3. OwedBy(v)[p] = 0 /\ BilledBy(v)[p] = 0
  BY <1>1 DEF OwedBy, BilledBy, Received
<1>4. OwedBy(v)'[p] = new
  BY DEF OwedBy, Received, EntriesOf, Entered
<1>5. BilledBy(v)'[p] = new
  <2>1. /\ purchase'[p].status = "received" /\ purchase'[p].immediate =>
               purchase'[p].paid = purchase'[p].quantity
        /\ purchase'[p].outstanding = IF purchase'[p].status = "received" /\ ~purchase'[p].immediate
                                      THEN purchase'[p].quantity ELSE 0
    BY DEF Entered
  <2>2. CASE p \in Received(v)'
    <3>1. purchase'[p].status = "received" /\ v = purchase'[p].vendor
      BY <2>2 DEF Received, EntriesOf
    <3>2. purchase'[p].quantity - (IF purchase'[p].immediate THEN purchase'[p].paid ELSE 0)
            = purchase'[p].outstanding
      BY <1>2, <2>1, <3>1
    <3> QED
      BY <2>2, <3>1, <3>2 DEF BilledBy
  <2>3. CASE p \notin Received(v)'
    <3>1. new = 0
      BY <2>1, <2>3 DEF Received, EntriesOf
    <3> QED
      BY <2>3, <3>1 DEF BilledBy
  <2> QED
    BY <2>2, <2>3
<1>6. vendor'[v].outstanding = vendor[v].outstanding + new
      /\ vendor'[v].payments = vendor[v].payments /\ vendor'[v].times = vendor[v].times
  BY DEF Entered
<1>7. new \in Int
  BY <1>2
<1> HIDE DEF new
<1>8. /\ OwedTo(v)' = OwedTo(v) + new
      /\ SumFunctionOnSet(BilledBy(v), Purchases)' = SumFunctionOnSet(BilledBy(v), Purchases) + new
  BY <1>1, <1>3, <1>4, <1>5, <1>7, BalancesMove
<1>9. \A q \in Purchases : purchase[q].status # "none" => purchase'[q].vendor = purchase[q].vendor
  BY PastStays
<1>10. SumFunctionOnSet(CreditedBy(v), Returns)' = SumFunctionOnSet(CreditedBy(v), Returns) + 0
  BY <1>1, <1>9, CreditsStay, BalanceInts
<1>11. vendor'[v].payments = vendor[v].payments + 0
  BY <1>6, BalanceInts
<1>12. LedgerOf(v)' \in Int /\ LedgerOf(v)' - LedgerOf(v) = new - 0 - 0
  BY <1>7, <1>8, <1>10, <1>11, LedgerMoves
<1>13. /\ vendor'[v].outstanding - vendor[v].outstanding = new
       /\ OwedTo(v)' - OwedTo(v) = new /\ OwedTo(v)' \in Int
  BY <1>6, <1>7, <1>8, BalanceInts
<1> QED
  BY <1>6, <1>7, <1>12, <1>13, MovesTogether

LEMMA WithdrawnBalanced ==
  ASSUME Kept, Kept', Shapes, NEW v \in Vendors, Balanced(v), NEW p \in Purchases, Withdrawn(p)
  PROVE  Balanced(v)'
<1>1. /\ \A q \in Purchases \ {p} : purchase'[q] = purchase[q]
      /\ purchase'[p].status = "cancelled" /\ purchase'[p].vendor = purchase[p].vendor /\ ret' = ret
  BY WithdrawnColumns DEF Withdrawn
<1> DEFINE old == OwedBy(v)[p]
<1>2. old \in Nat /\ old <= OwedTo(v) /\ OwedTo(v) \in Nat /\ vendor[v].outstanding \in Nat
      /\ vendor[v].payments \in Nat /\ BilledBy(v)[p] \in Int
  BY BalanceInts
<1>3. OwedBy(v)'[p] = 0 /\ BilledBy(v)'[p] = 0
  BY <1>1 DEF OwedBy, BilledBy, Received
<1>4. /\ OwedTo(v)' = OwedTo(v) - old
      /\ SumFunctionOnSet(BilledBy(v), Purchases)'
           = SumFunctionOnSet(BilledBy(v), Purchases) + (0 - BilledBy(v)[p])
  BY <1>1, <1>2, <1>3, BalancesMove
<1>5. vendor'[v].outstanding = vendor[v].outstanding - old
  <2>1. CASE p \in Received(v)
    <3>1. /\ old = purchase[p].outstanding /\ purchase[p].outstanding \in Nat
          /\ Settles(v, purchase[p].outstanding)
      BY <2>1, <1>2 DEF OwedBy, Received, EntriesOf, Withdrawn
    <3>2. vendor'[v].outstanding = IF vendor[v].outstanding > purchase[p].outstanding
                                   THEN vendor[v].outstanding - purchase[p].outstanding ELSE 0
      BY <3>1, KeptRows, SettlesIs
    <3>3. vendor[v].outstanding >= old
      BY <1>2 DEF Balanced
    <3> QED
      BY <1>2, <3>1, <3>2, <3>3
  <2>2. CASE p \notin Received(v)
    <3>1. old = 0
      BY <2>2 DEF OwedBy
    <3>2. vendor'[v].outstanding = vendor[v].outstanding
      <4>1. CASE purchase[p].vendor = v
        BY <2>2, <4>1 DEF Withdrawn, Received, EntriesOf
      <4>2. CASE purchase[p].vendor # v
        BY <4>2, WithdrawnColumns
      <4> QED
        BY <4>1, <4>2
    <3> QED
      BY <1>2, <3>1, <3>2
  <2> QED
    BY <2>1, <2>2
<1> HIDE DEF old
<1>6. \A q \in Purchases : purchase[q].status # "none" => purchase'[q].vendor = purchase[q].vendor
  BY PastStays
<1>7. SumFunctionOnSet(CreditedBy(v), Returns)' = SumFunctionOnSet(CreditedBy(v), Returns) + 0
  BY <1>1, <1>6, CreditsStay, BalanceInts
<1>8. vendor'[v].payments = vendor[v].payments + 0 /\ vendor'[v].times = vendor[v].times
  BY <1>2, WithdrawnColumns
<1>9. 0 - BilledBy(v)[p] \in Int
  BY <1>2
<1>10. LedgerOf(v)' \in Int /\ LedgerOf(v)' - LedgerOf(v) = (0 - BilledBy(v)[p]) - 0 - 0
  BY <1>4, <1>7, <1>8, <1>9, LedgerMoves
<1>11. /\ vendor'[v].outstanding - vendor[v].outstanding = 0 - old
       /\ OwedTo(v)' - OwedTo(v) = 0 - old /\ OwedTo(v)' \in Int
  BY <1>2, <1>4, <1>5
<1>12. CASE purchase[p].vendor = v
  <2>1. Cancelled(v)'
    BY <1>1, <1>12 DEF Cancelled, EntriesOf
  <2> QED
    BY <1>2, <1>8, <1>10, <1>11, <2>1, MovesTogether
<1>13. CASE purchase[p].vendor # v
  <2>1. old = 0 /\ BilledBy(v)[p] = 0
    BY <1>13 DEF old, OwedBy, BilledBy, Received, EntriesOf
  <2>2. LedgerOf(v)' - LedgerOf(v) = vendor'[v].outstanding - vendor[v].outstanding
    BY <1>10, <1>11, <2>1
  <2> QED
    BY <1>2, <1>8, <1>10, <1>11, <2>2, MovesTogether
<1> QED
  BY <1>12, <1>13

LEMMA SentOffBalanced ==
  ASSUME Kept, Kept', Shapes, NEW v \in Vendors, Balanced(v),
         NEW p \in Purchases, NEW new \in Returns, SentOff(p, new)
  PROVE  Balanced(v)'
<1>1. /\ \A q \in Purchases \ {p} : purchase'[q] = purchase[q]
      /\ \A r \in Returns \ {new} : ret'[r] = ret[r]
      /\ purchase[p].status = "received" /\ purchase'[p].status = "received"
      /\ purchase'[p].vendor = purchase[p].vendor
      /\ purchase'[p].quantity = purchase[p].quantity
      /\ purchase'[p].immediate = purchase[p].immediate /\ purchase'[p].paid = purchase[p].paid
      /\ purchase'[p].outstanding = purchase[p].outstanding - ret'[new].applied_credit
      /\ ret[new].status = "none" /\ ret'[new].status = "completed" /\ ret'[new].purchase = p
  BY DEF SentOff
<1>2. /\ ret'[new].applied_credit \in Nat /\ purchase[p].outstanding \in Nat
      /\ ret'[new].applied_credit <= purchase[p].outstanding
      /\ vendor'[v].payments = vendor[v].payments /\ vendor'[v].times = vendor[v].times
  BY SentOffColumns
<1> DEFINE credit == IF v = purchase[p].vendor THEN ret'[new].applied_credit ELSE 0
<1>3. credit \in Nat /\ vendor[v].outstanding \in Nat /\ OwedTo(v) \in Nat
      /\ OwedBy(v)[p] <= OwedTo(v) /\ BilledBy(v)[p] \in Int /\ vendor[v].payments \in Nat
  BY <1>2, BalanceInts
<1>4. OwedBy(v)'[p] - OwedBy(v)[p] = 0 - credit
  <2>1. CASE v = purchase[p].vendor
    <3>1. /\ OwedBy(v)[p] = purchase[p].outstanding
          /\ OwedBy(v)'[p] = purchase'[p].outstanding
      BY <1>1, <2>1 DEF OwedBy, Received, EntriesOf
    <3> QED
      BY <1>1, <1>2, <2>1, <3>1
  <2>2. CASE v # purchase[p].vendor
    <3>1. OwedBy(v)[p] = 0 /\ OwedBy(v)'[p] = 0
      BY <1>1, <2>2 DEF OwedBy, Received, EntriesOf
    <3> QED
      BY <2>2, <3>1
  <2> QED
    BY <2>1, <2>2
<1>5. BilledBy(v)'[p] = BilledBy(v)[p]
  BY <1>1 DEF BilledBy, Received, EntriesOf
<1>6. CreditedBy(v)[new] = 0 /\ CreditedBy(v)'[new] = credit
  BY <1>1 DEF CreditedBy, EntriesOf
<1>7. vendor'[v].outstanding = vendor[v].outstanding - credit
  <2>1. CASE v = purchase[p].vendor
    <3>1. vendor[v].outstanding >= OwedTo(v) /\ OwedBy(v)[p] = purchase[p].outstanding
      BY <1>1, <2>1 DEF Balanced, OwedBy, Received, EntriesOf
    <3>2. vendor[v].outstanding >= ret'[new].applied_credit
      BY <1>2, <1>3, <3>1
    <3>3. vendor'[v].outstanding = IF vendor[v].outstanding > ret'[new].applied_credit
                                   THEN vendor[v].outstanding - ret'[new].applied_credit ELSE 0
      BY <2>1, SentOffColumns
    <3> QED
      BY <1>2, <1>3, <2>1, <3>2, <3>3
  <2>2. CASE v # purchase[p].vendor
    <3>1. vendor'[v].outstanding = vendor[v].outstanding
      BY <2>2, SentOffColumns
    <3> QED
      BY <1>3, <2>2, <3>1
  <2> QED
    BY <2>1, <2>2
<1> HIDE DEF credit
<1>8. /\ OwedTo(v)' = OwedTo(v) + (0 - credit)
      /\ SumFunctionOnSet(BilledBy(v), Purchases)' = SumFunctionOnSet(BilledBy(v), Purchases) + 0
  <2>1. /\ OwedTo(v)' = OwedTo(v) + (OwedBy(v)'[p] - OwedBy(v)[p])
        /\ SumFunctionOnSet(BilledBy(v), Purchases)'
              = SumFunctionOnSet(BilledBy(v), Purchases) + (BilledBy(v)'[p] - BilledBy(v)[p])
    BY <1>1, BalancesMove
  <2> QED
    BY <1>3, <1>4, <1>5, <2>1
<1>9. \A q \in Purchases : purchase[q].status # "none" => purchase'[q].vendor = purchase[q].vendor
  BY PastStays
<1>10. SumFunctionOnSet(CreditedBy(v), Returns)' = SumFunctionOnSet(CreditedBy(v), Returns) + credit
  <2>1. SumFunctionOnSet(CreditedBy(v), Returns)'
          = SumFunctionOnSet(CreditedBy(v), Returns) + (CreditedBy(v)'[new] - CreditedBy(v)[new])
    BY <1>1, <1>9, CreditsMove
  <2> QED
    BY <1>3, <1>6, <2>1
<1>11. vendor'[v].payments = vendor[v].payments + 0
  BY <1>2, <1>3
<1>12. LedgerOf(v)' \in Int /\ LedgerOf(v)' - LedgerOf(v) = 0 - credit - 0
  BY <1>3, <1>8, <1>10, <1>11, LedgerMoves
<1>13. /\ vendor'[v].outstanding - vendor[v].outstanding = 0 - credit
       /\ OwedTo(v)' - OwedTo(v) = 0 - credit /\ OwedTo(v)' \in Int
  BY <1>3, <1>7, <1>8
<1>14. /\ LedgerOf(v)' - LedgerOf(v) = vendor'[v].outstanding - vendor[v].outstanding
       /\ vendor'[v].outstanding - vendor[v].outstanding >= OwedTo(v)' - OwedTo(v)
  BY <1>3, <1>12, <1>13
<1> QED
  BY <1>2, <1>12, <1>13, <1>14, MovesTogether

LEMMA TakenInBalanced ==
  ASSUME Kept, Kept', Shapes, NEW v \in Vendors, Balanced(v),
         NEW p \in Purchases, NEW old \in Returns, TakenIn(p, old)
  PROVE  Balanced(v)'
<1>1. /\ \A q \in Purchases \ {p} : purchase'[q] = purchase[q]
      /\ \A r \in Returns \ {old} : ret'[r] = ret[r]
      /\ purchase'[p].status = purchase[p].status /\ purchase'[p].vendor = purchase[p].vendor
      /\ purchase'[p].quantity = purchase[p].quantity
      /\ purchase'[p].immediate = purchase[p].immediate /\ purchase'[p].paid = purchase[p].paid
      /\ purchase'[p].outstanding = purchase[p].outstanding + ret[old].quantity
      /\ ret[old].status = "completed" /\ ret[old].purchase = p
      /\ ret'[old].status = "cancelled" /\ ret'[old].purchase = p
  BY DEF TakenIn
<1>2. /\ purchase'[p].outstanding \in Nat /\ purchase[p].outstanding \in Nat
      /\ purchase[p].status \in {"received", "cancelled"} /\ ret[old].quantity \in Nat
      /\ vendor'[v].payments = vendor[v].payments /\ vendor'[v].times = vendor[v].times
  BY TakenInColumns
<1> DEFINE credit == IF v = purchase[p].vendor THEN ret[old].quantity ELSE 0
           owed == IF p \in Received(v) THEN credit ELSE 0
<1>3. vendor'[v].outstanding = vendor[v].outstanding + credit
  BY TakenInColumns
<1>4. credit \in Nat /\ owed \in Nat /\ owed <= credit
      /\ vendor[v].outstanding \in Nat /\ OwedTo(v) \in Nat /\ BilledBy(v)[p] \in Int
      /\ vendor[v].payments \in Nat /\ CreditedBy(v)[old] \in Int
  BY <1>1, <1>2, BalanceInts
<1>5. OwedBy(v)'[p] - OwedBy(v)[p] = owed /\ BilledBy(v)'[p] = BilledBy(v)[p]
  <2>1. p \in Received(v)' <=> p \in Received(v)
    BY <1>1 DEF Received, EntriesOf
  <2>2. BilledBy(v)'[p] = BilledBy(v)[p]
    BY <1>1, <2>1 DEF BilledBy
  <2>3. CASE p \in Received(v)
    <3>1. /\ OwedBy(v)'[p] = purchase'[p].outstanding /\ OwedBy(v)[p] = purchase[p].outstanding
          /\ v = purchase[p].vendor
      BY <2>1, <2>3 DEF OwedBy, Received, EntriesOf
    <3> QED
      BY <1>1, <1>2, <2>2, <2>3, <3>1
  <2>4. CASE p \notin Received(v)
    <3>1. OwedBy(v)'[p] = 0 /\ OwedBy(v)[p] = 0
      BY <2>1, <2>4 DEF OwedBy
    <3> QED
      BY <2>2, <2>4, <3>1
  <2> QED
    BY <2>3, <2>4
<1>6. CreditedBy(v)'[old] = 0 /\ (v # purchase[p].vendor => CreditedBy(v)[old] = 0)
  BY <1>1 DEF CreditedBy, EntriesOf
<1>7. v = purchase[p].vendor => Cancelled(v)'
  BY <1>1 DEF Cancelled, EntriesOf
<1>8. v = purchase[p].vendor /\ p \notin Received(v) => TakenBack(v)'
  BY <1>1 DEF TakenBack, EntriesOf, Received
<1>9. (v = purchase[p].vendor => p \in Received(v)) => owed = credit
  OBVIOUS
<1>10. v # purchase[p].vendor => credit = 0
  OBVIOUS
<1> HIDE DEF credit, owed
<1>11. /\ OwedTo(v)' = OwedTo(v) + owed
       /\ SumFunctionOnSet(BilledBy(v), Purchases)' = SumFunctionOnSet(BilledBy(v), Purchases) + 0
  <2>1. /\ OwedTo(v)' = OwedTo(v) + (OwedBy(v)'[p] - OwedBy(v)[p])
        /\ SumFunctionOnSet(BilledBy(v), Purchases)'
              = SumFunctionOnSet(BilledBy(v), Purchases) + (BilledBy(v)'[p] - BilledBy(v)[p])
    BY <1>1, BalancesMove
  <2> QED
    BY <1>4, <1>5, <2>1
<1>12. \A q \in Purchases : purchase[q].status # "none" => purchase'[q].vendor = purchase[q].vendor
  BY PastStays
<1>13. SumFunctionOnSet(CreditedBy(v), Returns)'
         = SumFunctionOnSet(CreditedBy(v), Returns) + (0 - CreditedBy(v)[old])
  BY <1>1, <1>6, <1>12, CreditsMove
<1>14. vendor'[v].payments = vendor[v].payments + 0 /\ 0 - CreditedBy(v)[old] \in Int
  BY <1>2, <1>4
<1>15. LedgerOf(v)' \in Int /\ LedgerOf(v)' - LedgerOf(v) = 0 - (0 - CreditedBy(v)[old]) - 0
  BY <1>11, <1>13, <1>14, LedgerMoves
<1>16. /\ vendor'[v].outstanding - vendor[v].outstanding = credit
       /\ OwedTo(v)' - OwedTo(v) = owed /\ OwedTo(v)' \in Int
  BY <1>3, <1>4, <1>11
<1>17. vendor'[v].outstanding - vendor[v].outstanding >= OwedTo(v)' - OwedTo(v)
  BY <1>4, <1>16
<1>18. TakenBack(v)' \/ vendor'[v].outstanding - vendor[v].outstanding = OwedTo(v)' - OwedTo(v)
  BY <1>8, <1>9, <1>16
<1>19. Cancelled(v)' \/ LedgerOf(v)' - LedgerOf(v) = vendor'[v].outstanding - vendor[v].outstanding
  <2>1. CASE v # purchase[p].vendor
    <3>1. CreditedBy(v)[old] = 0 /\ credit = 0
      BY <1>6, <1>10, <2>1
    <3> QED
      BY <1>15, <1>16, <3>1
  <2> QED
    BY <1>7, <2>1
<1> QED
  BY <1>2, <1>15, <1>16, <1>17, <1>18, <1>19, MovesTogether

(***************************************************************************)
(* Numbers of which one is 1 at most and the others are nought.            *)
(***************************************************************************)
LEMMA SumOfOne ==
  ASSUME NEW f, NEW S, IsFiniteSet(S), \A x \in S : f[x] \in 0..1,
         \A x, y \in S : f[x] > 0 /\ f[y] > 0 => x = y
  PROVE  SumFunctionOnSet(f, S) \in 0..1
<1>1. CASE \A x \in S : f[x] = 0
  BY <1>1, SumZero
<1>2. CASE \E x \in S : f[x] # 0
  <2>1. PICK x \in S : f[x] = 1
    BY <1>2
  <2>2. IsFiniteSet(S \ {x}) /\ \A y \in S \ {x} : f[y] = 0
    BY <2>1, FS_RemoveElement
  <2>3. SumFunctionOnSet(f, S \ {x}) = 0
    BY <2>2, SumZero
  <2>4. SumFunctionOnSet(f, S) = f[x] + SumFunctionOnSet(f, S \ {x})
    BY SumOut
  <2> QED
    BY <2>1, <2>3, <2>4
<1> QED
  BY <1>1, <1>2

(***************************************************************************)
(* What a payment from the dialog does to the sum owed: it falls by what    *)
(* was paid and by one tolerance at most, and to nought when something of   *)
(* the amount was left over.                                                *)
(***************************************************************************)
LEMMA OwedFalls ==
  ASSUME Kept, NEW v \in Vendors, NEW amount \in Nat, NEW split, Settled(v, amount, split),
         ByTheDialog(v, amount, split)
  PROVE  \E paid \in Nat, forgiven \in 0..1 :
             /\ OwedTo(v) = OwedTo(v)' + paid + forgiven
             /\ amount - paid \in 0..1
             /\ amount # paid => OwedTo(v)' = 0
             /\ OwedTo(v)' \in Nat
<1>1. \A p \in Purchases :
          /\ split[p] \in Nat /\ split[p] <= purchase[p].outstanding
          /\ split[p] > 0 => p \in Received(v)
          /\ purchase'[p].status = purchase[p].status /\ purchase'[p].vendor = purchase[p].vendor
          /\ purchase'[p].outstanding = IF split[p] = 0 THEN purchase[p].outstanding
                                        ELSE LeftOver(purchase[p].outstanding - split[p])
          /\ purchase[p].outstanding \in Nat
  BY KeptRows DEF Settled, ByTheDialog, PurchaseRow
<1>2. Received(v)' = Received(v)
  BY <1>1 DEF Received, EntriesOf
<1> DEFINE forgiven == [p \in Purchases |-> IF split[p] = 0 THEN 0
                           ELSE purchase[p].outstanding - split[p]
                                - LeftOver(purchase[p].outstanding - split[p])]
           taken == [p \in Purchases |-> split[p] + forgiven[p]]
           paid == SumFunctionOnSet(split, Purchases)
<1>3. ASSUME NEW p \in Purchases
      PROVE  /\ forgiven[p] \in 0..1
             /\ forgiven[p] > 0 => split[p] > 0 /\ split[p] < purchase[p].outstanding
             /\ OwedBy(v)'[p] \in Nat /\ OwedBy(v)[p] = OwedBy(v)'[p] + taken[p]
             /\ split[p] = purchase[p].outstanding => OwedBy(v)'[p] = 0
  <2>1. /\ split[p] \in Nat /\ split[p] <= purchase[p].outstanding /\ purchase[p].outstanding \in Nat
        /\ LeftOver(purchase[p].outstanding - split[p]) \in Nat
        /\ purchase[p].outstanding - split[p] - LeftOver(purchase[p].outstanding - split[p]) \in 0..1
        /\ split[p] = purchase[p].outstanding => LeftOver(purchase[p].outstanding - split[p]) = 0
    BY <1>1, LeftOverIs
  <2>2. /\ forgiven[p] \in 0..1
        /\ forgiven[p] > 0 => split[p] > 0 /\ split[p] < purchase[p].outstanding
        /\ purchase[p].outstanding = purchase'[p].outstanding + taken[p]
        /\ purchase'[p].outstanding \in Nat
        /\ split[p] = purchase[p].outstanding => purchase'[p].outstanding = 0
    BY <1>1, <2>1
  <2>3. CASE p \in Received(v)
    <3>1. OwedBy(v)[p] = purchase[p].outstanding /\ OwedBy(v)'[p] = purchase'[p].outstanding
      BY <1>2, <2>3 DEF OwedBy
    <3> QED
      BY <2>2, <3>1
  <2>4. CASE p \notin Received(v)
    <3>1. OwedBy(v)[p] = 0 /\ OwedBy(v)'[p] = 0 /\ taken[p] = 0
      BY <1>1, <1>2, <2>4 DEF OwedBy
    <3> QED
      BY <2>2, <3>1
  <2> QED
    BY <2>3, <2>4
<1>4. IsFiniteSet(Purchases) /\ OwedTo(v) = SumFunctionOnSet(OwedBy(v), Purchases)
      /\ OwedTo(v)' = SumFunctionOnSet(OwedBy(v)', Purchases)
  BY BalanceInts DEF OwedTo
<1>5. \A p \in Purchases : taken[p] = split[p] + forgiven[p]
  OBVIOUS
<1> HIDE DEF forgiven, taken
<1>6. \A x, y \in Purchases : forgiven[x] > 0 /\ forgiven[y] > 0 => x = y
  BY <1>3 DEF ByTheDialog
<1>7. SumFunctionOnSet(forgiven, Purchases) \in 0..1
  BY <1>3, <1>4, <1>6, SumOfOne
<1>8. \A p \in Purchases : split[p] \in Int /\ forgiven[p] \in Int /\ taken[p] \in Int
                           /\ OwedBy(v)'[p] \in Int
  BY <1>1, <1>3, <1>5
<1>9. SumFunctionOnSet(taken, Purchases) = paid + SumFunctionOnSet(forgiven, Purchases)
  BY <1>4, <1>5, <1>8, SumPlus
<1>10. OwedTo(v) = OwedTo(v)' + SumFunctionOnSet(taken, Purchases)
  BY <1>3, <1>4, <1>8, SumPlus
<1>11. paid \in Nat /\ OwedTo(v)' \in Nat
  BY <1>1, <1>3, <1>4, SumNat
<1>12. amount - paid \in 0..1
  BY DEF ByTheDialog
<1>13. ASSUME amount # paid PROVE OwedTo(v)' = 0
  <2>1. \A p \in Received(v) : split[p] = purchase[p].outstanding
    BY <1>13 DEF ByTheDialog
  <2>2. ASSUME NEW p \in Purchases PROVE OwedBy(v)'[p] = 0
    <3>1. CASE p \in Received(v)
      BY <1>3, <2>1, <3>1
    <3>2. CASE p \notin Received(v)
      BY <1>2, <3>2 DEF OwedBy
    <3> QED
      BY <3>1, <3>2
  <2> QED
    BY <1>4, <2>2, SumZero
<1> HIDE DEF paid
<1> QED
  BY <1>7, <1>9, <1>10, <1>11, <1>12, <1>13

(***************************************************************************)
(* A payment from the dialog pays purchases of its vendor only, and among   *)
(* them no purchase paid on the spot unless a return of it was taken back.  *)
(***************************************************************************)
LEMMA SettledBalanced ==
  ASSUME Kept, Kept', Shapes, NEW v \in Vendors, v \notin PaidByName, Balanced(v),
         \A p \in Purchases : PaidOnTheSpot(p),
         NEW w \in Vendors, NEW amount \in Nat, NEW split, Settled(w, amount, split)
  PROVE  Balanced(v)'
<1>1. /\ ret' = ret
      /\ \A p \in Purchases :
            /\ split[p] \in Nat
            /\ v = w => split[p] <= purchase[p].outstanding
            /\ split[p] > 0 => purchase[p].vendor = w
            /\ purchase'[p].status = purchase[p].status /\ purchase'[p].vendor = purchase[p].vendor
            /\ purchase'[p].quantity = purchase[p].quantity
            /\ purchase'[p].immediate = purchase[p].immediate
            /\ purchase'[p].paid = purchase[p].paid + split[p]
            /\ split[p] = 0 => purchase'[p].outstanding = purchase[p].outstanding
  BY DEF Settled, ByTheDialog, EntriesOf
<1>2. \A p \in Purchases : purchase[p].outstanding \in Nat /\ purchase[p].paid \in Nat
  BY KeptRows DEF PurchaseRow
<1>3. vendor[v].outstanding \in Nat /\ OwedTo(v) \in Nat /\ vendor[v].payments \in Nat
      /\ vendor[v].times \in Nat /\ LedgerOf(v) \in Int /\ IsFiniteSet(Purchases)
  BY BalanceInts
<1>4. Received(v)' = Received(v)
  BY <1>1 DEF Received, EntriesOf
<1>5. \A q \in Purchases : purchase[q].status # "none" => purchase'[q].vendor = purchase[q].vendor
  BY PastStays
<1>6. SumFunctionOnSet(CreditedBy(v), Returns)' = SumFunctionOnSet(CreditedBy(v), Returns) + 0
  BY <1>1, <1>5, CreditsStay, BalanceInts
<1>7. ASSUME v # w \/ ~Cancelled(v), NEW p \in Purchases
      PROVE  BilledBy(v)[p] = BilledBy(v)'[p]
  <2>1. CASE p \notin Received(v)
    BY <1>4, <2>1 DEF BilledBy
  <2>2. CASE p \in Received(v) /\ ~purchase[p].immediate
    BY <1>1, <1>4, <2>2 DEF BilledBy
  <2>3. CASE p \in Received(v) /\ purchase[p].immediate
    <3>1. split[p] = 0
      <4>1. CASE v # w
        <5>1. purchase[p].vendor # w
          BY <2>3, <4>1 DEF Received, EntriesOf
        <5> QED
          BY <1>1, <5>1
      <4>2. CASE v = w /\ ~Cancelled(v)
        <5>1. purchase[p].outstanding = 0
          BY <2>3, <4>2 DEF PaidOnTheSpot, Cancelled, Received, EntriesOf
        <5> QED
          BY <1>1, <4>2, <5>1
      <4> QED
        BY <1>7, <4>1, <4>2
    <3>2. purchase'[p].paid = purchase[p].paid
      BY <1>1, <1>2, <3>1
    <3> QED
      BY <1>1, <1>4, <3>2 DEF BilledBy
  <2> QED
    BY <2>1, <2>2, <2>3
<1>8. ASSUME v # w \/ ~Cancelled(v)
      PROVE  SumFunctionOnSet(BilledBy(v), Purchases)'
               = SumFunctionOnSet(BilledBy(v), Purchases) + 0
  <2>1. SumFunctionOnSet(BilledBy(v), Purchases) = SumFunctionOnSet(BilledBy(v)', Purchases)
    BY <1>3, <1>7, <1>8, SumSame
  <2> QED
    BY <2>1, BalanceInts
<1>9. CASE v # w
  <2>1. vendor'[v] = vendor[v]
    BY <1>9 DEF Settled
  <2>2. OwedTo(v)' = OwedTo(v)
    <3>1. ASSUME NEW p \in Purchases PROVE OwedBy(v)[p] = OwedBy(v)'[p]
      <4>1. CASE p \in Received(v)
        <5>1. purchase[p].vendor # w
          BY <1>9, <4>1 DEF Received, EntriesOf
        <5> QED
          BY <1>1, <1>4, <5>1 DEF OwedBy
      <4>2. CASE p \notin Received(v)
        BY <1>4, <4>2 DEF OwedBy
      <4> QED
        BY <4>1, <4>2
    <3>2. SumFunctionOnSet(OwedBy(v), Purchases) = SumFunctionOnSet(OwedBy(v)', Purchases)
      BY <1>3, <3>1, SumSame
    <3> QED
      BY <3>2 DEF OwedTo
  <2>3. vendor'[v].payments = vendor[v].payments + 0
    BY <1>3, <2>1
  <2>4. LedgerOf(v)' \in Int /\ LedgerOf(v)' - LedgerOf(v) = 0 - 0 - 0
    <3>1. SumFunctionOnSet(BilledBy(v), Purchases)' = SumFunctionOnSet(BilledBy(v), Purchases) + 0
      BY <1>8, <1>9
    <3>2. 0 \in Int
      OBVIOUS
    <3> QED
      BY <1>6, <2>3, <3>1, <3>2, LedgerMoves
  <2>5. /\ vendor'[v].outstanding - vendor[v].outstanding = 0 /\ OwedTo(v)' - OwedTo(v) = 0
        /\ OwedTo(v)' \in Int
    BY <1>3, <2>1, <2>2
  <2> QED
    BY <2>1, <2>4, <2>5, MovesTogether
<1>10. CASE v = w
  <2>1. Settled(v, amount, split) /\ ByTheDialog(v, amount, split)
    BY <1>10 DEF Settled
  <2>2. PICK paid \in Nat, forgiven \in 0..1 :
             /\ OwedTo(v) = OwedTo(v)' + paid + forgiven
             /\ amount - paid \in 0..1
             /\ amount # paid => OwedTo(v)' = 0
             /\ OwedTo(v)' \in Nat
    BY <2>1, OwedFalls
  <2>3. /\ vendor'[v].outstanding = IF vendor[v].outstanding > amount
                                    THEN vendor[v].outstanding - amount ELSE 0
        /\ vendor'[v].payments = vendor[v].payments + amount
        /\ vendor'[v].times = vendor[v].times + 1
    BY <2>1 DEF Settled
  <2>4. vendor[v].outstanding >= OwedTo(v)
        /\ (TakenBack(v) \/ vendor[v].outstanding <= OwedTo(v) + vendor[v].times)
        /\ (\/ Cancelled(v)
            \/ /\ LedgerOf(v) <= vendor[v].outstanding
               /\ vendor[v].outstanding <= LedgerOf(v) + vendor[v].times)
    BY DEF Balanced
  <2>5. vendor'[v].outstanding >= OwedTo(v)'
    BY <1>3, <2>2, <2>3, <2>4
  <2>6. TakenBack(v)' \/ vendor'[v].outstanding <= OwedTo(v)' + vendor'[v].times
    <3>1. CASE TakenBack(v)
      BY <3>1, MarksStay
    <3>2. CASE ~TakenBack(v)
      BY <1>3, <2>2, <2>3, <2>4, <3>2
    <3> QED
      BY <3>1, <3>2
  <2>7. ASSUME ~Cancelled(v)
        PROVE  /\ LedgerOf(v)' <= vendor'[v].outstanding
               /\ vendor'[v].outstanding <= LedgerOf(v)' + vendor'[v].times
    <3>1. SumFunctionOnSet(BilledBy(v), Purchases)' = SumFunctionOnSet(BilledBy(v), Purchases) + 0
      BY <1>8, <2>7
    <3>2. amount \in Int /\ 0 \in Int
      OBVIOUS
    <3>3. LedgerOf(v)' \in Int /\ LedgerOf(v)' - LedgerOf(v) = 0 - 0 - amount
      BY <1>6, <2>3, <3>1, <3>2, LedgerMoves
    <3> QED
      BY <1>3, <2>2, <2>3, <2>4, <2>7, <3>3
  <2> QED
    BY <2>5, <2>6, <2>7, MarksStay DEF Balanced
<1> QED
  BY <1>9, <1>10

LEMMA BalanceStep ==
  ASSUME BalanceInv, [Next]_vars
  PROVE  BalanceInv'
<1>0. Kept /\ Kept' /\ Shapes /\ \A p \in Purchases : PaidOnTheSpot(p)
  BY NextKept DEF BalanceInv
<1>1. \A p \in Purchases : PaidOnTheSpot(p)'
  BY <1>0, PaidOnTheSpotStays
<1>2. ASSUME NEW v \in Vendors \ PaidByName PROVE Balanced(v)'
  <2>0. Balanced(v)
    BY DEF BalanceInv
  <2>1. CASE UNCHANGED ledgers \/ Registered
    <3>1. /\ purchase' = purchase /\ ret' = ret
          /\ vendor'[v].outstanding = vendor[v].outstanding
          /\ vendor'[v].payments = vendor[v].payments /\ vendor'[v].times = vendor[v].times
      BY <2>1 DEF ledgers, Registered
    <3>2. OwedTo(v)' = OwedTo(v)
      BY <3>1 DEF OwedTo, OwedBy, Received, EntriesOf
    <3>3. LedgerOf(v)' = LedgerOf(v)
      BY <3>1 DEF LedgerOf, BilledBy, CreditedBy, Received, EntriesOf
    <3>4. TakenBack(v)' = TakenBack(v) /\ Cancelled(v)' = Cancelled(v)
      BY <3>1 DEF TakenBack, Cancelled, Received, EntriesOf
    <3> QED
      BY <2>0, <3>1, <3>2, <3>3, <3>4 DEF Balanced
  <2>2. ASSUME NEW p \in Purchases, Entered(p) PROVE Balanced(v)'
    BY <1>0, <2>0, <2>2, EnteredBalanced
  <2>3. ASSUME NEW p \in Purchases, Withdrawn(p) PROVE Balanced(v)'
    BY <1>0, <2>0, <2>3, WithdrawnBalanced
  <2>4. ASSUME NEW p \in Purchases, NEW r \in Returns, SentOff(p, r) PROVE Balanced(v)'
    BY <1>0, <2>0, <2>4, SentOffBalanced
  <2>5. ASSUME NEW p \in Purchases, NEW r \in Returns, TakenIn(p, r) PROVE Balanced(v)'
    BY <1>0, <2>0, <2>5, TakenInBalanced
  <2>6. ASSUME NEW w \in Vendors, NEW amount \in Nat, NEW split, Settled(w, amount, split)
        PROVE  Balanced(v)'
    BY <1>0, <2>0, <2>6, SettledBalanced
  <2> QED
    BY <1>0, <2>1, <2>2, <2>3, <2>4, <2>5, <2>6 DEF Shapes
<1> QED
  BY <1>0, <1>1, <1>2 DEF BalanceInv

(***************************************************************************)
(* The sums of the properties, written over all rows.                      *)
(***************************************************************************)
LEMMA BalanceSums ==
  ASSUME Kept, NEW v \in Vendors
  PROVE  Owed(Received(v)) = OwedTo(v) /\ get_vendor_ledger(v) = LedgerOf(v)
<1> DEFINE owed == [p \in Received(v) |-> purchase[p].outstanding]
           billed == [p \in Received(v) |-> purchase[p].quantity
                                      - IF purchase[p].immediate THEN purchase[p].paid ELSE 0]
           credits == [r \in {s \in Returns : ret[s].status = "completed"
                                              /\ ret[s].purchase \in EntriesOf(v)}
                         |-> ret[r].applied_credit]
<1>1. Received(v) \subseteq Purchases
  BY DEF Received, EntriesOf
<1>2. \A p \in Purchases : purchase[p].outstanding \in Int /\ purchase[p].paid \in Int
                           /\ purchase[p].quantity \in Int
  BY KeptRows DEF PurchaseRow
<1>3. /\ DOMAIN owed \subseteq Purchases /\ \A p \in DOMAIN owed : owed[p] \in Int
      /\ \A p \in Purchases : OwedBy(v)[p] = IF p \in DOMAIN owed THEN owed[p] ELSE 0
  BY <1>1, <1>2 DEF OwedBy
<1>4. /\ DOMAIN billed \subseteq Purchases /\ \A p \in DOMAIN billed : billed[p] \in Int
      /\ \A p \in Purchases : BilledBy(v)[p] = IF p \in DOMAIN billed THEN billed[p] ELSE 0
  BY <1>1, <1>2 DEF BilledBy
<1>5. /\ DOMAIN credits \subseteq Returns /\ \A r \in DOMAIN credits : credits[r] \in Int
      /\ \A r \in Returns : CreditedBy(v)[r] = IF r \in DOMAIN credits THEN credits[r] ELSE 0
  BY KeptRows DEF CreditedBy, ReturnRow
<1>6. /\ Owed(Received(v)) = SumFunction(owed)
      /\ get_vendor_ledger(v) = SumFunction(billed) - SumFunction(credits) - vendor[v].payments
  BY DEF Owed, get_vendor_ledger
<1> HIDE DEF owed, billed, credits
<1>7. SumFunction(owed) = SumFunctionOnSet(OwedBy(v), Purchases)
  BY <1>3, BalanceInts, SumOfSome
<1>8. SumFunction(billed) = SumFunctionOnSet(BilledBy(v), Purchases)
  BY <1>4, BalanceInts, SumOfSome
<1>9. SumFunction(credits) = SumFunctionOnSet(CreditedBy(v), Returns)
  BY <1>5, BalanceInts, SumOfSome
<1> QED
  BY <1>6, <1>7, <1>8, <1>9 DEF OwedTo, LedgerOf

LEMMA InitBalance == Init => BalanceInv
<1> SUFFICES ASSUME Init PROVE BalanceInv
  OBVIOUS
<1>0. Kept
  BY InitKept
<1>1. \A p \in Purchases : purchase[p] = NoEntry
  BY DEF Init
<1>2. \A p \in Purchases : PaidOnTheSpot(p)
  BY <1>1 DEF PaidOnTheSpot, NoEntry
<1>3. ASSUME NEW v \in Vendors PROVE Balanced(v)
  <2>1. /\ \A p \in Purchases : OwedBy(v)[p] = 0 /\ BilledBy(v)[p] = 0
        /\ \A r \in Returns : CreditedBy(v)[r] = 0
    BY <1>1 DEF Init, OwedBy, BilledBy, CreditedBy, Received, NoEntry, NoReturnYet
  <2>2. IsFiniteSet(Purchases) /\ IsFiniteSet(Returns)
    BY ProcurementAssumption DEF ProcurementAssumption
  <2>3. OwedTo(v) = 0
    BY <2>1, <2>2, SumZero DEF OwedTo
  <2>4. SumFunctionOnSet(BilledBy(v), Purchases) = 0
    BY <2>1, <2>2, SumZero
  <2>5. SumFunctionOnSet(CreditedBy(v), Returns) = 0
    BY <2>1, <2>2, SumZero
  <2>6. vendor[v].outstanding = 0 /\ vendor[v].payments = 0 /\ vendor[v].times = 0
    BY DEF Init
  <2> QED
    BY <2>3, <2>4, <2>5, <2>6 DEF Balanced, LedgerOf
<1> QED
  BY <1>0, <1>2, <1>3 DEF BalanceInv

(***************************************************************************)
(* The balance of a vendor paid from the dialog covers what the received     *)
(* purchases say is owed, so that flooring it at zero never hides a debt,    *)
(* and exceeds it by one tolerance for each payment at most unless a return  *)
(* of a cancelled purchase was taken back, for any number of presses,        *)
(* screens, vendors and purchases, however other vendors are paid.           *)
(***************************************************************************)
THEOREM DebtsAreCovered == Spec => []PayablesReconcile
<1>1. BalanceInv /\ [Next]_vars => BalanceInv'
  BY BalanceStep
<1>2. BalanceInv => PayablesReconcile
  <2>1. \A v \in Vendors : Tolerance * vendor[v].times = vendor[v].times
                          \/ ~BalanceInv
    BY BalanceInts DEF Tolerance, BalanceInv
  <2> QED
    BY <2>1, BalanceSums DEF BalanceInv, Balanced, PayablesReconcile
<1> QED
  BY <1>1, <1>2, InitBalance, PTL DEF Spec

(***************************************************************************)
(* The ledger page of a vendor paid from the dialog, worked out from         *)
(* documents, says what the vendor's row says, up to one tolerance for each  *)
(* payment, until something of the vendor is cancelled.                      *)
(***************************************************************************)
THEOREM LedgersAgree == Spec => []LedgerAgreesUntilCancelled
<1>1. BalanceInv /\ [Next]_vars => BalanceInv'
  BY BalanceStep
<1>2. BalanceInv => LedgerAgreesUntilCancelled
  <2>1. \A v \in Vendors : Tolerance * vendor[v].times = vendor[v].times
                          \/ ~BalanceInv
    BY BalanceInts DEF Tolerance, BalanceInv
  <2> QED
    BY <2>1, BalanceSums DEF BalanceInv, Balanced, LedgerAgreesUntilCancelled
<1> QED
  BY <1>1, <1>2, InitBalance, PTL DEF Spec

-----------------------------------------------------------------------------
(***************************************************************************)
(* What the documents of a vendor claim at most, payments by name included. *)
(***************************************************************************)
LEMMA ClaimInts ==
  ASSUME Kept, NEW v \in Vendors
  PROVE  /\ \A p \in Purchases : ClaimedBy(v)[p] \in Nat
         /\ \A r \in Returns : ForgoneBy(v)[r] \in Nat
         /\ Claimed(v) \in Int /\ Forgone(v) \in Int
<1>1. \A p \in Purchases : ClaimedBy(v)[p] \in Nat
  <2>1. \A p \in Purchases : purchase[p].quantity \in Nat /\ purchase[p].outstanding \in Nat
    BY KeptRows DEF PurchaseRow
  <2> QED
    BY <2>1 DEF ClaimedBy
<1>2. \A r \in Returns : ForgoneBy(v)[r] \in Nat
  BY KeptRows DEF ForgoneBy, ReturnRow
<1> QED
  BY <1>1, <1>2, BalanceInts, SumInt DEF Claimed, Forgone

(***************************************************************************)
(* When one purchase or one return is written, what is claimed changes by  *)
(* what that row does; what is forgone stays as long as no return changes   *)
(* and purchases keep their vendor, their status and how they were paid.    *)
(***************************************************************************)
LEMMA ClaimsMove ==
  ASSUME Kept, Kept', NEW v \in Vendors, NEW p \in Purchases,
         \A q \in Purchases \ {p} : purchase'[q] = purchase[q]
  PROVE  Claimed(v)' = Claimed(v) + (ClaimedBy(v)'[p] - ClaimedBy(v)[p])
         /\ ClaimedBy(v)'[p] \in Int /\ ClaimedBy(v)[p] \in Int
<1>1. purchase' \in [Purchases -> PurchaseRow]
  BY DEF Kept, TypeOK
<1>2. ASSUME NEW q \in Purchases PROVE ClaimedBy(v)'[q] \in Int
  <2>1. purchase'[q].quantity \in Nat /\ purchase'[q].outstanding \in Nat
    BY <1>1, NatBounds DEF PurchaseRow
  <2> QED
    BY <2>1 DEF ClaimedBy
<1>3. \A q \in Purchases \ {p} : ClaimedBy(v)'[q] = ClaimedBy(v)[q]
  BY DEF ClaimedBy, Received, EntriesOf
<1>4. \A q \in Purchases : ClaimedBy(v)[q] \in Int /\ ClaimedBy(v)'[q] \in Int
  BY <1>2, ClaimInts
<1>5. SumFunctionOnSet(ClaimedBy(v)', Purchases)
        = SumFunctionOnSet(ClaimedBy(v), Purchases) + (ClaimedBy(v)'[p] - ClaimedBy(v)[p])
  BY <1>3, <1>4, BalanceInts, SumUpdate
<1> QED
  BY <1>4, <1>5 DEF Claimed

LEMMA ForgoneMoves ==
  ASSUME Kept, Kept', NEW v \in Vendors, NEW r \in Returns,
         \A s \in Returns \ {r} : ret'[s] = ret[s],
         \A q \in Purchases : /\ purchase'[q].status = purchase[q].status
                              /\ purchase'[q].vendor = purchase[q].vendor
                              /\ purchase'[q].immediate = purchase[q].immediate
  PROVE  Forgone(v)' = Forgone(v) + (ForgoneBy(v)'[r] - ForgoneBy(v)[r])
         /\ ForgoneBy(v)'[r] \in Int /\ ForgoneBy(v)[r] \in Int
<1>1. ret' \in [Returns -> ReturnRow]
  BY DEF Kept, TypeOK
<1>2. \A s \in Returns : ForgoneBy(v)'[s] \in Int
  BY <1>1 DEF ForgoneBy, ReturnRow
<1>3. EntriesOf(v)' = EntriesOf(v) /\ OnTheSpot(v)' = OnTheSpot(v)
  BY DEF EntriesOf, OnTheSpot, Received
<1>4. \A s \in Returns \ {r} : ForgoneBy(v)'[s] = ForgoneBy(v)[s]
  BY <1>3 DEF ForgoneBy
<1>5. \A s \in Returns : ForgoneBy(v)[s] \in Int /\ ForgoneBy(v)'[s] \in Int
  BY <1>2, ClaimInts
<1>6. SumFunctionOnSet(ForgoneBy(v)', Returns)
        = SumFunctionOnSet(ForgoneBy(v), Returns) + (ForgoneBy(v)'[r] - ForgoneBy(v)[r])
  BY <1>4, <1>5, BalanceInts, SumUpdate
<1> QED
  BY <1>5, <1>6 DEF Forgone

(***************************************************************************)
(* What is forgone only grows when a purchase is received or cancelled: no *)
(* return is of a draft, and those of a purchase paid on the spot count     *)
(* once it is cancelled.                                                   *)
(***************************************************************************)
LEMMA ForgoneGrows ==
  ASSUME Kept, Kept', NEW v \in Vendors, ret' = ret, NEW p \in Purchases,
         \A q \in Purchases \ {p} : purchase'[q] = purchase[q],
         \/ purchase[p].status \in {"none", "draft"}
         \/ purchase'[p].vendor = purchase[p].vendor /\ purchase'[p].status = "cancelled"
  PROVE  Forgone(v)' >= Forgone(v) /\ Forgone(v)' \in Int
<1>1. ASSUME NEW r \in Returns
      PROVE  ForgoneBy(v)[r] \in Nat /\ ForgoneBy(v)'[r] \in Nat /\ ForgoneBy(v)[r] <= ForgoneBy(v)'[r]
  <2>1. /\ ForgoneBy(v)[r] \in Nat /\ ret[r].applied_credit \in Nat
    BY ClaimInts, KeptRows DEF ReturnRow
  <2>2. ForgoneBy(v)'[r] \in {0, ret[r].applied_credit}
    BY DEF ForgoneBy
  <2>3. ASSUME ForgoneBy(v)[r] # 0 PROVE ForgoneBy(v)'[r] = ForgoneBy(v)[r]
    <3>1. /\ ret[r].status = "completed" /\ ret[r].purchase \in EntriesOf(v) \ OnTheSpot(v)
          /\ ForgoneBy(v)[r] = ret[r].applied_credit
      BY <2>3 DEF ForgoneBy
    <3>2. PICK q \in Purchases : q = ret[r].purchase /\ purchase[q].vendor = v
      BY <3>1 DEF EntriesOf
    <3>3. purchase[q].status \in {"received", "cancelled"}
      BY <3>1, <3>2 DEF Kept, TypeOK
    <3>4. q \in EntriesOf(v)' \ OnTheSpot(v)'
      <4>1. CASE q = p
        BY <3>2, <3>3, <4>1 DEF EntriesOf, OnTheSpot, Received
      <4>2. CASE q # p
        BY <3>1, <3>2, <4>2 DEF EntriesOf, OnTheSpot, Received
      <4> QED
        BY <4>1, <4>2
    <3> QED
      BY <3>1, <3>2, <3>4 DEF ForgoneBy
  <2> QED
    BY <2>1, <2>2, <2>3
<1>2. IsFiniteSet(Returns)
  BY BalanceInts
<1>3. SumFunctionOnSet(ForgoneBy(v), Returns) <= SumFunctionOnSet(ForgoneBy(v)', Returns)
  BY <1>1, <1>2, SumAtMost
<1>4. SumFunctionOnSet(ForgoneBy(v)', Returns) \in Int
  BY <1>1, <1>2, SumInt
<1>5. SumFunctionOnSet(ForgoneBy(v), Returns) \in Int
  BY <1>1, <1>2, SumInt
<1> QED
  BY <1>3, <1>4, <1>5 DEF Forgone

LEMMA ClaimStep ==
  ASSUME ClaimInv, [Next]_vars
  PROVE  ClaimInv'
<1>0. Kept /\ Kept' /\ Shapes
  BY NextKept DEF ClaimInv
<1> DEFINE Covers(v) == vendor[v].outstanding >= Claimed(v) - Forgone(v) - vendor[v].payments
<1> SUFFICES ASSUME NEW v \in Vendors PROVE Covers(v)'
  BY <1>0 DEF ClaimInv
<1>1. Covers(v) /\ Claimed(v) \in Int /\ Forgone(v) \in Int
      /\ vendor[v].outstanding \in Nat /\ vendor[v].payments \in Nat
  BY <1>0, ClaimInts, BalanceInts DEF ClaimInv
<1>2. CASE UNCHANGED ledgers \/ Registered
  <2>1. /\ purchase' = purchase /\ ret' = ret
        /\ vendor'[v].outstanding = vendor[v].outstanding
        /\ vendor'[v].payments = vendor[v].payments
    BY <1>2 DEF ledgers, Registered
  <2>2. Claimed(v)' = Claimed(v) /\ Forgone(v)' = Forgone(v)
    BY <2>1 DEF Claimed, ClaimedBy, Forgone, ForgoneBy, OnTheSpot, Received, EntriesOf
  <2> QED
    BY <1>1, <2>1, <2>2
<1>3. ASSUME NEW p \in Purchases, Entered(p) PROVE Covers(v)'
  <2>1. /\ \A q \in Purchases \ {p} : purchase'[q] = purchase[q]
        /\ purchase[p].status \in {"none", "draft"} /\ ret' = ret
        /\ purchase' \in [Purchases -> PurchaseRow]
        /\ vendor'[v].payments = vendor[v].payments
        /\ vendor'[v].outstanding = vendor[v].outstanding + IF v = purchase'[p].vendor
                                                            THEN purchase'[p].outstanding ELSE 0
        /\ purchase'[p].outstanding = IF purchase'[p].status = "received" /\ ~purchase'[p].immediate
                                      THEN purchase'[p].quantity ELSE 0
    BY <1>3 DEF Entered
  <2>2. purchase'[p].quantity \in Nat
    BY <2>1, NatBounds DEF PurchaseRow
  <2>3. ClaimedBy(v)[p] = 0
    BY <2>1 DEF ClaimedBy, Received
  <2>4. ClaimedBy(v)'[p] = IF v = purchase'[p].vendor THEN purchase'[p].outstanding ELSE 0
    BY <2>1 DEF ClaimedBy, Received, EntriesOf
  <2>5. Forgone(v)' >= Forgone(v) /\ Forgone(v)' \in Int
    BY <1>0, <2>1, ForgoneGrows
  <2>6. Claimed(v)' = Claimed(v) + (ClaimedBy(v)'[p] - ClaimedBy(v)[p]) /\ ClaimedBy(v)'[p] \in Int
    BY <1>0, <2>1, ClaimsMove
  <2> QED
    BY <1>1, <2>1, <2>2, <2>3, <2>4, <2>5, <2>6
<1>4. ASSUME NEW p \in Purchases, Withdrawn(p) PROVE Covers(v)'
  <2>1. /\ \A q \in Purchases \ {p} : purchase'[q] = purchase[q]
        /\ ret' = ret
        /\ purchase'[p].status = "cancelled" /\ purchase'[p].vendor = purchase[p].vendor
        /\ vendor'[v].payments = vendor[v].payments
    BY <1>0, <1>4, WithdrawnColumns DEF Withdrawn
  <2>2. /\ purchase[p].outstanding \in Nat /\ purchase[p].quantity \in Nat
        /\ purchase[p].outstanding <= purchase[p].quantity
    <3>1. /\ purchase[p].outstanding \in Nat /\ purchase[p].quantity \in Nat
          /\ purchase[p].returned \in Nat
      BY <1>0, KeptRows DEF PurchaseRow
    <3> QED
      BY <1>0, <3>1 DEF Kept, RowOK
  <2>3. ClaimedBy(v)'[p] = 0
    BY <2>1 DEF ClaimedBy, Received
  <2>4. ClaimedBy(v)[p] \in Int
        /\ vendor'[v].outstanding >= vendor[v].outstanding - ClaimedBy(v)[p]
        /\ vendor'[v].outstanding \in Int
    <3>1. CASE p \in Received(v)
      <4>1. Settles(v, purchase[p].outstanding)
        BY <1>4, <3>1 DEF Received, EntriesOf, Withdrawn
      <4>2. vendor'[v].outstanding = IF vendor[v].outstanding > purchase[p].outstanding
                                     THEN vendor[v].outstanding - purchase[p].outstanding ELSE 0
        BY <1>0, <2>2, <4>1, KeptRows, SettlesIs
      <4>3. ClaimedBy(v)[p] \in {purchase[p].outstanding, purchase[p].quantity}
        BY <3>1 DEF ClaimedBy
      <4> QED
        BY <1>1, <2>2, <4>2, <4>3
    <3>2. CASE p \notin Received(v)
      <4>1. vendor'[v].outstanding = vendor[v].outstanding
        <5>1. CASE purchase[p].vendor = v
          BY <1>4, <3>2, <5>1 DEF Withdrawn, Received, EntriesOf
        <5>2. CASE purchase[p].vendor # v
          BY <1>0, <1>4, <5>2, WithdrawnColumns
        <5> QED
          BY <5>1, <5>2
      <4>2. ClaimedBy(v)[p] = 0
        BY <3>2 DEF ClaimedBy
      <4> QED
        BY <1>1, <4>1, <4>2
    <3> QED
      BY <3>1, <3>2
  <2>5. Forgone(v)' >= Forgone(v) /\ Forgone(v)' \in Int
    BY <1>0, <2>1, ForgoneGrows
  <2>6. Claimed(v)' = Claimed(v) + (ClaimedBy(v)'[p] - ClaimedBy(v)[p])
    BY <1>0, <2>1, ClaimsMove
  <2> QED
    BY <1>1, <2>1, <2>3, <2>4, <2>5, <2>6
<1>5. ASSUME NEW p \in Purchases, NEW r \in Returns, SentOff(p, r) PROVE Covers(v)'
  <2>1. /\ \A q \in Purchases \ {p} : purchase'[q] = purchase[q]
        /\ \A s \in Returns \ {r} : ret'[s] = ret[s]
        /\ purchase[p].status = "received" /\ purchase'[p].status = "received"
        /\ purchase'[p].vendor = purchase[p].vendor
        /\ purchase'[p].quantity = purchase[p].quantity
        /\ purchase'[p].immediate = purchase[p].immediate
        /\ purchase'[p].outstanding = purchase[p].outstanding - ret'[r].applied_credit
        /\ ret[r].status = "none" /\ ret'[r].status = "completed" /\ ret'[r].purchase = p
    BY <1>5 DEF SentOff
  <2> DEFINE credit == ret'[r].applied_credit
  <2>2. /\ credit \in Nat /\ purchase[p].outstanding \in Nat /\ purchase[p].quantity \in Nat
        /\ vendor'[v].payments = vendor[v].payments /\ purchase'[p].outstanding \in Nat
        /\ vendor'[v].outstanding >= vendor[v].outstanding
                                        - (IF v = purchase[p].vendor THEN credit ELSE 0)
        /\ vendor'[v].outstanding \in Int
    <3>1. CASE v = purchase[p].vendor
      BY <1>0, <1>1, <1>5, <3>1, SentOffColumns, KeptRows
    <3>2. CASE v # purchase[p].vendor
      BY <1>0, <1>1, <1>5, <3>2, SentOffColumns, KeptRows
    <3> QED
      BY <3>1, <3>2
  <2>3. ForgoneBy(v)[r] = 0
    BY <2>1 DEF ForgoneBy
  <2>4. ForgoneBy(v)'[r] = IF v = purchase[p].vendor /\ ~purchase[p].immediate THEN credit ELSE 0
    BY <2>1 DEF ForgoneBy, EntriesOf, OnTheSpot, Received
  <2>5. ClaimedBy(v)'[p] - ClaimedBy(v)[p]
           = IF v = purchase[p].vendor /\ purchase[p].immediate THEN 0 - credit ELSE 0
    <3>1. CASE v # purchase[p].vendor
      <4>1. ClaimedBy(v)'[p] = 0 /\ ClaimedBy(v)[p] = 0
        BY <2>1, <3>1 DEF ClaimedBy, Received, EntriesOf
      <4> QED
        BY <3>1, <4>1
    <3>2. CASE v = purchase[p].vendor /\ purchase[p].immediate
      <4>1. /\ ClaimedBy(v)'[p] = purchase'[p].outstanding
            /\ ClaimedBy(v)[p] = purchase[p].outstanding
        BY <2>1, <3>2 DEF ClaimedBy, Received, EntriesOf
      <4> QED
        BY <2>1, <2>2, <3>2, <4>1
    <3>3. CASE v = purchase[p].vendor /\ ~purchase[p].immediate
      <4>1. ClaimedBy(v)'[p] = purchase[p].quantity /\ ClaimedBy(v)[p] = purchase[p].quantity
        BY <2>1, <3>3 DEF ClaimedBy, Received, EntriesOf
      <4> QED
        BY <2>2, <3>3, <4>1
    <3> QED
      BY <3>1, <3>2, <3>3
  <2>6. \A q \in Purchases : /\ purchase'[q].status = purchase[q].status
                             /\ purchase'[q].vendor = purchase[q].vendor
                             /\ purchase'[q].immediate = purchase[q].immediate
    BY <2>1
  <2>7. Forgone(v)' = Forgone(v) + (ForgoneBy(v)'[r] - ForgoneBy(v)[r])
    BY <1>0, <2>1, <2>6, ForgoneMoves
  <2>8. Claimed(v)' = Claimed(v) + (ClaimedBy(v)'[p] - ClaimedBy(v)[p])
    BY <1>0, <2>1, ClaimsMove
  <2> HIDE DEF credit
  <2> QED
    BY <1>1, <2>2, <2>3, <2>4, <2>5, <2>7, <2>8
<1>6. ASSUME NEW p \in Purchases, NEW r \in Returns, TakenIn(p, r) PROVE Covers(v)'
  <2>1. /\ \A q \in Purchases \ {p} : purchase'[q] = purchase[q]
        /\ \A s \in Returns \ {r} : ret'[s] = ret[s]
        /\ purchase'[p].status = purchase[p].status
        /\ purchase'[p].vendor = purchase[p].vendor
        /\ purchase'[p].quantity = purchase[p].quantity
        /\ purchase'[p].immediate = purchase[p].immediate
        /\ purchase'[p].outstanding = purchase[p].outstanding + ret[r].quantity
        /\ ret[r].status = "completed" /\ ret[r].purchase = p /\ ret'[r].status = "cancelled"
    BY <1>6 DEF TakenIn
  <2> DEFINE refund == ret[r].quantity
             mine == IF v = purchase[p].vendor THEN refund ELSE 0
             owed == IF p \in OnTheSpot(v) THEN refund ELSE 0
  <2>2. /\ refund \in Nat /\ purchase[p].outstanding \in Nat /\ purchase'[p].outstanding \in Nat
        /\ purchase[p].quantity \in Nat
        /\ vendor'[v].payments = vendor[v].payments
        /\ vendor'[v].outstanding = vendor[v].outstanding + mine
        /\ ret[r].applied_credit <= refund /\ ret[r].applied_credit \in Nat
    <3>1. ret[r].applied_credit <= refund /\ ret[r].applied_credit \in Nat
      BY <1>0, KeptRows DEF Kept, ReturnRow
    <3> QED
      BY <1>0, <1>6, <3>1, TakenInColumns, KeptRows
  <2>3. ForgoneBy(v)'[r] = 0
    BY <2>1 DEF ForgoneBy
  <2>4. ForgoneBy(v)[r] = IF p \in EntriesOf(v) \ OnTheSpot(v) THEN ret[r].applied_credit ELSE 0
    BY <2>1 DEF ForgoneBy
  <2>5. ClaimedBy(v)'[p] - ClaimedBy(v)[p] = owed
    <3>1. CASE p \in OnTheSpot(v)
      <4>1. /\ ClaimedBy(v)'[p] = purchase'[p].outstanding
            /\ ClaimedBy(v)[p] = purchase[p].outstanding
        BY <2>1, <3>1 DEF ClaimedBy, OnTheSpot, Received, EntriesOf
      <4> QED
        BY <2>1, <2>2, <3>1, <4>1
    <3>2. CASE p \notin OnTheSpot(v)
      <4>1. ClaimedBy(v)'[p] = ClaimedBy(v)[p] /\ ClaimedBy(v)[p] \in {0, purchase[p].quantity}
        BY <2>1, <3>2 DEF ClaimedBy, OnTheSpot, Received, EntriesOf
      <4> QED
        BY <2>2, <3>2, <4>1
    <3> QED
      BY <3>1, <3>2
  <2>6. p \in EntriesOf(v) <=> v = purchase[p].vendor
    BY DEF EntriesOf
  <2>7. OnTheSpot(v) \subseteq EntriesOf(v)
    BY DEF OnTheSpot, Received
  <2>8. owed + ForgoneBy(v)[r] <= mine /\ ForgoneBy(v)[r] \in Int
    BY <2>2, <2>4, <2>6, <2>7
  <2>9. \A q \in Purchases : /\ purchase'[q].status = purchase[q].status
                             /\ purchase'[q].vendor = purchase[q].vendor
                             /\ purchase'[q].immediate = purchase[q].immediate
    BY <2>1
  <2>10. Forgone(v)' = Forgone(v) + (ForgoneBy(v)'[r] - ForgoneBy(v)[r])
    BY <1>0, <2>1, <2>9, ForgoneMoves
  <2>11. Claimed(v)' = Claimed(v) + (ClaimedBy(v)'[p] - ClaimedBy(v)[p])
    BY <1>0, <2>1, ClaimsMove
  <2>12. mine \in Nat /\ owed \in Nat
    BY <2>2
  <2> HIDE DEF mine, owed, refund
  <2> QED
    BY <1>1, <2>2, <2>3, <2>5, <2>8, <2>10, <2>11, <2>12
<1>7. ASSUME NEW w \in Vendors, NEW amount \in Nat, NEW split, Settled(w, amount, split)
      PROVE  Covers(v)'
  <2>1. /\ ret' = ret
        /\ \A p \in Purchases :
              /\ split[p] \in Nat
              /\ purchase'[p].status = purchase[p].status
              /\ purchase'[p].vendor = purchase[p].vendor
              /\ purchase'[p].quantity = purchase[p].quantity
              /\ purchase'[p].immediate = purchase[p].immediate
              /\ purchase'[p].outstanding = IF split[p] = 0 THEN purchase[p].outstanding
                                            ELSE LeftOver(purchase[p].outstanding - split[p])
    BY <1>7 DEF Settled
  <2>2. Forgone(v)' = Forgone(v)
    <3>1. EntriesOf(v)' = EntriesOf(v) /\ OnTheSpot(v)' = OnTheSpot(v)
      BY <2>1 DEF EntriesOf, OnTheSpot, Received
    <3> QED
      BY <2>1, <3>1 DEF Forgone, ForgoneBy
  <2>3. ASSUME NEW p \in Purchases
        PROVE  ClaimedBy(v)'[p] \in Nat /\ ClaimedBy(v)[p] \in Nat
               /\ ClaimedBy(v)'[p] <= ClaimedBy(v)[p]
    <3>1. purchase[p].outstanding \in Nat /\ purchase[p].quantity \in Nat
      BY <1>0, KeptRows DEF PurchaseRow
    <3>2. /\ LeftOver(purchase[p].outstanding - split[p]) \in Nat
          /\ LeftOver(purchase[p].outstanding - split[p]) <= purchase[p].outstanding
      BY <2>1, <3>1, LeftOverIs
    <3>3. purchase'[p].outstanding \in Nat /\ purchase'[p].outstanding <= purchase[p].outstanding
      BY <2>1, <3>1, <3>2
    <3>4. Received(v)' = Received(v)
      BY <2>1 DEF Received, EntriesOf
    <3> QED
      BY <2>1, <3>1, <3>3, <3>4 DEF ClaimedBy
  <2>4. Claimed(v)' <= Claimed(v) /\ Claimed(v)' \in Int
    <3>1. IsFiniteSet(Purchases)
      BY <1>0, BalanceInts
    <3>2. SumFunctionOnSet(ClaimedBy(v)', Purchases) <= SumFunctionOnSet(ClaimedBy(v), Purchases)
      BY <2>3, <3>1, SumAtMost
    <3>3. SumFunctionOnSet(ClaimedBy(v)', Purchases) \in Int
      BY <2>3, <3>1, SumInt
    <3> QED
      BY <3>2, <3>3 DEF Claimed
  <2>5. CASE v # w
    <3>1. vendor'[v] = vendor[v]
      BY <1>7, <2>5 DEF Settled
    <3> QED
      BY <1>1, <2>2, <2>4, <3>1
  <2>6. CASE v = w
    <3>1. /\ vendor'[v].outstanding = IF vendor[v].outstanding > amount
                                      THEN vendor[v].outstanding - amount ELSE 0
          /\ vendor'[v].payments = vendor[v].payments + amount
      BY <1>7, <2>6 DEF Settled
    <3> QED
      BY <1>1, <2>2, <2>4, <3>1
  <2> QED
    BY <2>5, <2>6
<1> QED
  BY <1>0, <1>2, <1>3, <1>4, <1>5, <1>6, <1>7 DEF Shapes

(***************************************************************************)
(* Row by row the ledger page bills no more than is claimed, a purchase paid *)
(* on the spot being offset by all that was paid of it, and credits no less  *)
(* than is forgone.                                                        *)
(***************************************************************************)
LEMMA ClaimBound == ClaimInv => LedgerWithinBalance
<1> SUFFICES ASSUME ClaimInv, NEW v \in Vendors
             PROVE  get_vendor_ledger(v) <= vendor[v].outstanding
  BY DEF LedgerWithinBalance
<1>0. Kept /\ vendor[v].outstanding >= Claimed(v) - Forgone(v) - vendor[v].payments
  BY DEF ClaimInv
<1>1. get_vendor_ledger(v) = LedgerOf(v)
  BY <1>0, BalanceSums
<1>2. ASSUME NEW p \in Purchases
      PROVE  BilledBy(v)[p] \in Int /\ ClaimedBy(v)[p] \in Int /\ BilledBy(v)[p] <= ClaimedBy(v)[p]
  <2>1. /\ purchase[p].quantity \in Nat /\ purchase[p].paid \in Nat
        /\ purchase[p].outstanding \in Nat
        /\ purchase[p].status = "received" /\ purchase[p].immediate =>
              purchase[p].paid >= purchase[p].quantity
    BY <1>0, KeptRows DEF PurchaseRow, Kept, RowOK
  <2>2. BilledBy(v)[p] \in Int /\ ClaimedBy(v)[p] \in Int
    BY <1>0, BalanceInts, ClaimInts
  <2>3. CASE p \in Received(v)
    <3>1. /\ BilledBy(v)[p] = purchase[p].quantity - (IF purchase[p].immediate
                                                      THEN purchase[p].paid ELSE 0)
          /\ ClaimedBy(v)[p] = IF purchase[p].immediate THEN purchase[p].outstanding
                                                        ELSE purchase[p].quantity
          /\ purchase[p].status = "received"
      BY <2>3 DEF BilledBy, ClaimedBy, Received
    <3> QED
      BY <2>1, <2>2, <3>1
  <2>4. CASE p \notin Received(v)
    <3>1. BilledBy(v)[p] = 0 /\ ClaimedBy(v)[p] = 0
      BY <2>4 DEF BilledBy, ClaimedBy
    <3> QED
      BY <3>1
  <2> QED
    BY <2>3, <2>4
<1>3. ASSUME NEW r \in Returns
      PROVE  ForgoneBy(v)[r] \in Int /\ CreditedBy(v)[r] \in Int /\ ForgoneBy(v)[r] <= CreditedBy(v)[r]
  <2>1. ForgoneBy(v)[r] \in Int /\ CreditedBy(v)[r] \in Int /\ ret[r].applied_credit \in Nat
    BY <1>0, BalanceInts, ClaimInts, KeptRows DEF ReturnRow
  <2>2. ForgoneBy(v)[r] = CreditedBy(v)[r]
        \/ (ForgoneBy(v)[r] = 0 /\ CreditedBy(v)[r] \in {0, ret[r].applied_credit})
    BY DEF ForgoneBy, CreditedBy
  <2> QED
    BY <2>1, <2>2
<1>4. IsFiniteSet(Purchases) /\ IsFiniteSet(Returns)
  BY <1>0, BalanceInts
<1>5. SumFunctionOnSet(BilledBy(v), Purchases) <= Claimed(v)
  BY <1>2, <1>4, SumAtMost DEF Claimed
<1>6. Forgone(v) <= SumFunctionOnSet(CreditedBy(v), Returns)
  BY <1>3, <1>4, SumAtMost DEF Forgone
<1>7. /\ SumFunctionOnSet(BilledBy(v), Purchases) \in Int
      /\ SumFunctionOnSet(CreditedBy(v), Returns) \in Int
      /\ Claimed(v) \in Int /\ Forgone(v) \in Int
      /\ vendor[v].outstanding \in Nat /\ vendor[v].payments \in Nat
  BY <1>0, BalanceInts, ClaimInts
<1>8. LedgerOf(v) = SumFunctionOnSet(BilledBy(v), Purchases)
                      - SumFunctionOnSet(CreditedBy(v), Returns) - vendor[v].payments
  BY DEF LedgerOf
<1> QED
  BY <1>0, <1>1, <1>5, <1>6, <1>7, <1>8

(***************************************************************************)
(* Whatever was cancelled, taken back, paid too much or paid by name, the    *)
(* ledger page of a vendor never claims more than its balance: every step    *)
(* that takes something off the balance takes as much off the page.         *)
(***************************************************************************)
THEOREM LedgerNeverExceeds == Spec => []LedgerWithinBalance
<1>1. Init => ClaimInv
  <2> SUFFICES ASSUME Init PROVE ClaimInv
    OBVIOUS
  <2>0. Kept
    BY InitKept
  <2> SUFFICES ASSUME NEW v \in Vendors
               PROVE  vendor[v].outstanding >= Claimed(v) - Forgone(v) - vendor[v].payments
    BY <2>0 DEF ClaimInv
  <2>1. /\ \A p \in Purchases : ClaimedBy(v)[p] = 0
        /\ \A r \in Returns : ForgoneBy(v)[r] = 0
    BY DEF Init, ClaimedBy, ForgoneBy, Received, NoEntry, NoReturnYet
  <2>2. IsFiniteSet(Purchases) /\ IsFiniteSet(Returns)
    BY ProcurementAssumption DEF ProcurementAssumption
  <2>3. Claimed(v) = 0 /\ Forgone(v) = 0
    BY <2>1, <2>2, SumZero DEF Claimed, Forgone
  <2>4. vendor[v].outstanding = 0 /\ vendor[v].payments = 0
    BY DEF Init
  <2> QED
    BY <2>3, <2>4
<1>2. ClaimInv /\ [Next]_vars => ClaimInv'
  BY ClaimStep
<1> QED
  BY <1>1, <1>2, ClaimBound, PTL DEF Spec
=============================================================================
