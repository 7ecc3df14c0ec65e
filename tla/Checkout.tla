------------------------------ MODULE Checkout ------------------------------
(***************************************************************************)
(* create_invoice (backend/app/modules/sales/service.py) statement by      *)
(* statement, for requests the server handles at the same time, each in a  *)
(* session of its own: READ COMMITTED, autoflush off, no row is locked for *)
(* reading (backend/app/core/db.py).                                       *)
(*                                                                         *)
(* A line sells one unit of its product.  A client that retries sends      *)
(* another request with the same key.  Prices, taxes and payments, which   *)
(* module Sales has, are left out.                                         *)
(***************************************************************************)
EXTENDS Integers, Sequences, FiniteSets

CONSTANTS
  Requests, Products, NoKey,
  Key,           \* [Requests -> the client's idempotency key, or NoKey]
  Cart,          \* [Requests -> Seq(Products)]: the lines
  OpeningStock,  \* [Products -> Nat]
  AllowNegative, \* Settings.allow_negative_stock
  MayCrash       \* the requests whose server process may die

ASSUME CheckoutAssumption ==
  /\ Requests \cap {"none", "refused", "conflict", "deadlock", "failed", "lost"} = {}
  /\ Cart \in [Requests -> Seq(Products) \ {<< >>}]
  /\ OpeningStock \in [Products -> Nat]
  /\ AllowNegative \in BOOLEAN
  /\ MayCrash \subseteq Requests

VARIABLES
  pc,        \* the statement a request is at
  cached,    \* the inventory rows its session read in the stock check
  read,      \* the quantity it read for the line it is at
  line,      \* the line it is at
  pending,   \* its uncommitted inventory.quantity values
  number,    \* the invoice number it chose
  invoices,  \* committed invoices: [request, number]
  stock,     \* committed inventory.quantity
  reply      \* what its client got

vars == <<pc, cached, read, line, pending, number, invoices, stock, reply>>
-----------------------------------------------------------------------------
Nothing == [p \in {} |-> 0]
ProductsIn(r) == {Cart[r][l] : l \in 1..Len(Cart[r])}
Committed == {i.request : i \in invoices}
Stored(r) == {s \in Committed : Key[r] # NoKey /\ Key[s] = Key[r]}

\* Its invoice row is inserted and not yet committed.
InTransaction(r) == pc[r] \in {"read", "write", "commit"}

\* The requests whose locks r waits for: on the unique index, on a stock row.
WaitsFor(r) ==
  {q \in Requests \ {r} :
     \/ pc[r] = "insert" /\ Key[r] # NoKey /\ Key[q] = Key[r] /\ InTransaction(q)
     \/ pc[r] = "write" /\ Cart[r][line[r]] \in DOMAIN pending[q]}

\* Everyone in the set waits, for members of it only, and is waited for.
DeadlockOf(S) ==
  /\ S # {}
  /\ \A r \in S : /\ WaitsFor(r) # {} /\ WaitsFor(r) \subseteq S
                  /\ \E q \in S : r \in WaitsFor(q)

Init ==
  /\ pc = [r \in Requests |-> "lookup"]
  /\ cached = [r \in Requests |-> Nothing]
  /\ read = [r \in Requests |-> 0]
  /\ line = [r \in Requests |-> 1]
  /\ pending = [r \in Requests |-> Nothing]
  /\ number = [r \in Requests |-> 0]
  /\ invoices = {}
  /\ stock = OpeningStock
  /\ reply = [r \in Requests |-> "none"]

\* Mutant: the session's uncommitted writes outlive the request.
FinishWithoutRollback(r, result) ==
  /\ pc' = [pc EXCEPT ![r] = "done"]
  /\ reply' = [reply EXCEPT ![r] = result]
  /\ UNCHANGED <<cached, read, line, pending, number, invoices, stock>>
\* The request ends, and whatever it did not commit is rolled back.
Finish(r, result) ==
  /\ pc' = [pc EXCEPT ![r] = "done"]
  /\ reply' = [reply EXCEPT ![r] = result]
  /\ pending' = [pending EXCEPT ![r] = Nothing]
  /\ UNCHANGED <<cached, read, line, number, invoices, stock>>
-----------------------------------------------------------------------------
Lookup(r) ==
  /\ pc[r] = "lookup"
  /\ IF Stored(r) # {} THEN \E s \in Stored(r) : Finish(r, s)
     ELSE /\ pc' = [pc EXCEPT ![r] = "check"]
          /\ UNCHANGED <<cached, read, line, pending, number, invoices, stock, reply>>

\* With negative stock allowed the check is skipped and reads nothing.
Check(r) ==
  /\ pc[r] = "check"
  /\ IF AllowNegative \/ \A p \in ProductsIn(r) : stock[p] >= 1
     THEN /\ pc' = [pc EXCEPT ![r] = "number"]
          /\ cached' = [cached EXCEPT ![r] = IF AllowNegative THEN Nothing
                                             ELSE [p \in ProductsIn(r) |-> stock[p]]]
          /\ UNCHANGED <<read, line, pending, number, invoices, stock, reply>>
     ELSE Finish(r, "refused")

\* _next_invoice_number counts the committed invoices.
ChooseNumber(r) ==
  /\ pc[r] = "number"
  /\ number' = [number EXCEPT ![r] = Cardinality(invoices) + 1]
  /\ pc' = [pc EXCEPT ![r] = "insert"]
  /\ UNCHANGED <<cached, read, line, pending, invoices, stock, reply>>

\* Mutant: the unique constraint on (tenant_id, client_reference_id) is missing.
NoUniqueKey(r) == TRUE
UniqueKey(r) == Stored(r) = {}

\* The flush that inserts the row.  A duplicate key fails here, outside the
\* try around the commit.
Insert(r) ==
  /\ pc[r] = "insert" /\ WaitsFor(r) = {}
  /\ IF UniqueKey(r)
     THEN /\ pc' = [pc EXCEPT ![r] = "read"]
          /\ UNCHANGED <<cached, read, line, pending, number, invoices, stock, reply>>
     ELSE Finish(r, "conflict")

\* Mutant: the uncommitted writes of other sessions are read.
DirtyRead(r, p) ==
  {stock[p]} \cup {pending[q][p] : q \in {s \in Requests : p \in DOMAIN pending[s]}}
\* The quantities a session can read: its own write, or the committed row, or
\* the row its identity map may still hold from the check.
Readable(r, p) ==
  IF p \in DOMAIN pending[r] THEN {pending[r][p]}
  ELSE {stock[p]} \cup {cached[r][q] : q \in DOMAIN cached[r] \cap {p}}

ReadStock(r) ==
  /\ pc[r] = "read"
  /\ \E v \in Readable(r, Cart[r][line[r]]) : read' = [read EXCEPT ![r] = v]
  /\ pc' = [pc EXCEPT ![r] = "write"]
  /\ UNCHANGED <<cached, line, pending, number, invoices, stock, reply>>

\* write_stock_history flushes the new quantity, which locks the row.
WriteStock(r) ==
  /\ pc[r] = "write" /\ WaitsFor(r) = {}
  /\ LET p == Cart[r][line[r]]
     IN pending' = [pending EXCEPT ![r] =
          [q \in DOMAIN @ \cup {p} |-> IF q = p THEN read[r] - 1 ELSE @[q]]]
  /\ IF line[r] < Len(Cart[r])
     THEN pc' = [pc EXCEPT ![r] = "read"] /\ line' = [line EXCEPT ![r] = @ + 1]
     ELSE pc' = [pc EXCEPT ![r] = "commit"] /\ UNCHANGED line
  /\ UNCHANGED <<cached, read, number, invoices, stock, reply>>

Commit(r) ==
  /\ pc[r] = "commit"
  /\ invoices' = invoices \cup {[request |-> r, number |-> number[r]]}
  /\ stock' = [p \in Products |->
                 IF p \in DOMAIN pending[r] THEN pending[r][p] ELSE stock[p]]
  /\ pending' = [pending EXCEPT ![r] = Nothing]
  /\ pc' = [pc EXCEPT ![r] = "respond"]
  /\ UNCHANGED <<cached, read, line, number, reply>>

Respond(r) == pc[r] = "respond" /\ Finish(r, r)

\* Mutant: deadlocks are not detected.
NobodyChosen(r) == FALSE
InDeadlock(r) == \E S \in SUBSET Requests : r \in S /\ DeadlockOf(S)

\* The database ends a deadlock by failing one statement in it.
BreakDeadlock(r) == InDeadlock(r) /\ Finish(r, "deadlock")

Crash(r) == r \in MayCrash /\ pc[r] # "done" /\ Finish(r, "lost")
-----------------------------------------------------------------------------
Step(r) ==
  Lookup(r) \/ Check(r) \/ ChooseNumber(r) \/ Insert(r) \/ ReadStock(r) \/ WriteStock(r)
    \/ Commit(r) \/ Respond(r) \/ BreakDeadlock(r)

Next == \E r \in Requests : Step(r) \/ Crash(r)

\* The server keeps running every request it accepted, and the database ends
\* every deadlock; nothing makes a process die.
Fairness == \A r \in Requests : WF_vars(Step(r))

Spec == Init /\ [][Next]_vars /\ Fairness
-----------------------------------------------------------------------------
Answers == {"none", "refused", "conflict", "deadlock", "lost"} \cup Requests

(***************************************************************************)
(* Every variable has its type; a session holds uncommitted stock only     *)
(* inside its transaction.                                                 *)
(***************************************************************************)
TypeOK ==
  /\ pc \in [Requests -> {"lookup", "check", "number", "insert", "read", "write",
                          "commit", "respond", "done"}]
  /\ read \in [Requests -> Int] /\ line \in [Requests -> Nat]
  /\ number \in [Requests -> Nat]
  /\ \A r \in Requests : pending[r] \in [DOMAIN pending[r] -> Int]
  /\ \A r \in Requests : pending[r] # Nothing => InTransaction(r)
  /\ stock \in [Products -> Int]
  /\ reply \in [Requests -> Answers]

(***************************************************************************)
(* The refinement: create_invoice implements IdempotentCheckout, with an   *)
(* error response of any kind as a failure.                                *)
(***************************************************************************)
Promise == INSTANCE IdempotentCheckout WITH
  sales <- Committed,
  answer <- [r \in Requests |->
               IF reply[r] \in {"refused", "conflict", "deadlock"} THEN "failed"
               ELSE reply[r]]
ChecksOutOnce == Promise!Spec

\* One unit for every line of a committed invoice that sells product p.
UnitsSold(p) ==
  Cardinality(UNION {{<<r, l>> : l \in {n \in 1..Len(Cart[r]) : Cart[r][n] = p}}
                     : r \in Committed})

(***************************************************************************)
(* Concurrent checkouts lose updates of inventory.quantity, but only one   *)
(* way: the quantity on hand may be too high, never too low, whatever was  *)
(* rolled back, retried or broken off.                                     *)
(***************************************************************************)
StockIsNeverUnderstated ==
  \A p \in Products : stock[p] >= OpeningStock[p] - UnitsSold(p)

(***************************************************************************)
(* Every request ends: carts that lock the same rows in opposite order, or *)
(* duplicates waiting for each other's key, never hang for good.           *)
(***************************************************************************)
EveryRequestEnds == \A r \in Requests : <>(pc[r] = "done")

(***************************************************************************)
(* sales/service.py:46-48: the numbers of consecutive invoices differ by   *)
(* one, so no two invoices share a number.                                 *)
(***************************************************************************)
InvoiceNumbersUnique ==
  \A i, j \in invoices : i.number = j.number => i = j

(***************************************************************************)
(* sales/service.py:482-486: the loser of a race between two requests with *)
(* one key gets the invoice the other created instead of a raw 500.        *)
(***************************************************************************)
DuplicateGetsTheInvoice ==
  \A r \in Requests : reply[r] # "conflict"
=============================================================================
