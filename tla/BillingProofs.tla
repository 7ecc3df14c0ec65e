--------------------------- MODULE BillingProofs ----------------------------
(***************************************************************************)
(* Theorems about the two modules of concurrent billing: Checkout, in      *)
(* which requests race for an idempotency key and the stock, and           *)
(* RestaurantBilling, in which rounds, bills and releases race for the     *)
(* orders of a table.  Both are about what IdempotentCheckout promises:   *)
(* the first implements it, the second builds on it.  Any requests, keys,  *)
(* carts and stock, and any server that dies.                              *)
(***************************************************************************)
EXTENDS Checkout, RestaurantBilling, FiniteSetTheorems, TLAPS

-----------------------------------------------------------------------------
(* Module Checkout.                                                        *)

(***************************************************************************)
(* TypeOK with what it needs to be inductive: the rows a session cached,   *)
(* the line it is at, and what was committed.                              *)
(***************************************************************************)
Shape ==
  /\ TypeOK
  /\ pending = [r \in Requests |-> pending[r]]
  /\ cached = [r \in Requests |-> cached[r]]
  /\ \A r \in Requests : cached[r] \in [DOMAIN cached[r] -> Int]
  /\ \A r \in Requests : line[r] \in 1..Len(Cart[r])
  /\ IsFiniteSet(invoices)
  /\ Committed \subseteq Requests

(***************************************************************************)
(* A session without changes.                                              *)
(***************************************************************************)
LEMMA NothingType == Nothing \in [DOMAIN Nothing -> Int] /\ Nothing \in [{} -> Int]
BY DEF Nothing

(***************************************************************************)
(* Every line of a cart names a product, and there is a first one.         *)
(***************************************************************************)
LEMMA CartLines ==
  ASSUME NEW r \in Requests
  PROVE  /\ Len(Cart[r]) \in Nat /\ 1 \in 1..Len(Cart[r])
         /\ \A l \in 1..Len(Cart[r]) : Cart[r][l] \in Products
         /\ ProductsIn(r) \subseteq Products
<1>1. Cart[r] \in Seq(Products) /\ Cart[r] # << >>
  BY CheckoutAssumption DEF CheckoutAssumption
<1> QED
  BY <1>1 DEF ProductsIn

(***************************************************************************)
(* Nobody has started.                                                     *)
(***************************************************************************)
LEMMA InitShape == Init => Shape
<1> SUFFICES ASSUME Init PROVE Shape
  OBVIOUS
<1>1. stock \in [Products -> Int]
  BY CheckoutAssumption DEF CheckoutAssumption, Init
<1>2. IsFiniteSet(invoices) /\ Committed = {}
  BY FS_EmptySet DEF Init, Committed
<1>3. \A r \in Requests : line[r] \in 1..Len(Cart[r])
  BY CartLines DEF Init
<1> QED
  BY <1>1, <1>2, <1>3, NothingType DEF Init, Shape, TypeOK, Answers, InTransaction

(***************************************************************************)
(* Ending a request keeps the shape, whatever its client gets.             *)
(***************************************************************************)
LEMMA FinishShape ==
  ASSUME Shape, NEW r \in Requests, NEW result \in Answers, Finish(r, result)
  PROVE  Shape'
<1>1. \A q \in Requests : pending'[q] = IF q = r THEN Nothing ELSE pending[q]
  BY DEF Finish, Shape
<1>2. \A q \in Requests : pc'[q] = IF q = r THEN "done" ELSE pc[q]
  BY DEF Finish, Shape, TypeOK
<1>3. /\ pending' = [q \in Requests |-> pending'[q]]
      /\ pc' \in [Requests -> {"lookup", "check", "number", "insert", "read", "write",
                               "commit", "respond", "done"}]
      /\ reply' \in [Requests -> Answers]
  BY DEF Finish, Shape, TypeOK
<1>4. \A q \in Requests : pending'[q] \in [DOMAIN pending'[q] -> Int]
  BY <1>1, NothingType DEF Shape, TypeOK
<1>5. \A q \in Requests : pending'[q] # Nothing => InTransaction(q)'
  BY <1>1, <1>2 DEF Shape, TypeOK, InTransaction
<1> QED
  BY <1>3, <1>4, <1>5 DEF Finish, Shape, TypeOK, Committed

(***************************************************************************)
(* Every statement of create_invoice, and a crash, keeps the shape.        *)
(***************************************************************************)
LEMMA NextShape ==
  ASSUME Shape, [Next]_vars
  PROVE  Shape'
<1>1. ASSUME NEW r \in Requests, Lookup(r)
      PROVE  Shape'
  <2>1. CASE Stored(r) # {}
    <3>1. PICK s \in Stored(r) : Finish(r, s)
      BY <1>1, <2>1 DEF Lookup
    <3>2. s \in Answers
      BY <3>1 DEF Stored, Shape, Answers
    <3> QED
      BY <3>1, <3>2, FinishShape
  <2>2. CASE Stored(r) = {}
    BY <1>1, <2>2 DEF Lookup, Shape, TypeOK, InTransaction, Committed
  <2> QED
    BY <2>1, <2>2
<1>2. ASSUME NEW r \in Requests, Check(r)
      PROVE  Shape'
  <2>1. CASE Finish(r, "refused")
    BY <2>1, FinishShape DEF Answers
  <2>2. CASE ~Finish(r, "refused")
    <3> DEFINE row == IF AllowNegative THEN Nothing ELSE [p \in ProductsIn(r) |-> stock[p]]
    <3>1. /\ pc[r] = "check" /\ pc' = [pc EXCEPT ![r] = "number"]
          /\ cached' = [cached EXCEPT ![r] = row]
          /\ UNCHANGED <<read, line, pending, number, invoices, stock, reply>>
      BY <1>2, <2>2 DEF Check
    <3>2. row \in [DOMAIN row -> Int]
      BY NothingType, CartLines DEF Shape, TypeOK
    <3> HIDE DEF row
    <3>3. /\ cached' = [q \in Requests |-> cached'[q]]
          /\ \A q \in Requests : cached'[q] \in [DOMAIN cached'[q] -> Int]
      BY <3>1, <3>2 DEF Shape
    <3> QED
      BY <3>1, <3>3 DEF Shape, TypeOK, InTransaction, Committed
  <2> QED
    BY <2>1, <2>2
<1>3. ASSUME NEW r \in Requests, ChooseNumber(r)
      PROVE  Shape'
  <2>1. Cardinality(invoices) + 1 \in Nat
    BY FS_CardinalityType DEF Shape
  <2> QED
    BY <1>3, <2>1 DEF ChooseNumber, Shape, TypeOK, InTransaction, Committed
<1>4. ASSUME NEW r \in Requests, Insert(r)
      PROVE  Shape'
  <2>1. CASE Finish(r, "conflict")
    BY <2>1, FinishShape DEF Answers
  <2>2. CASE ~Finish(r, "conflict")
    BY <1>4, <2>2 DEF Insert, Shape, TypeOK, InTransaction, Committed
  <2> QED
    BY <2>1, <2>2
<1>5. ASSUME NEW r \in Requests, ReadStock(r)
      PROVE  Shape'
  <2> DEFINE p == Cart[r][line[r]]
  <2>1. PICK v \in Readable(r, p) : read' = [read EXCEPT ![r] = v]
    BY <1>5 DEF ReadStock
  <2>2. p \in Products
    BY CartLines DEF Shape
  <2>3. v \in Int
    BY <2>1, <2>2 DEF Readable, Shape, TypeOK
  <2> QED
    BY <1>5, <2>1, <2>3 DEF ReadStock, Shape, TypeOK, InTransaction, Committed
<1>6. ASSUME NEW r \in Requests, WriteStock(r)
      PROVE  Shape'
  <2> DEFINE p == Cart[r][line[r]]
             rows == [q \in DOMAIN pending[r] \cup {p} |->
                        IF q = p THEN read[r] - 1 ELSE pending[r][q]]
  <2>1. pc[r] = "write" /\ pending' = [pending EXCEPT ![r] = rows]
    BY <1>6 DEF WriteStock, Shape
  <2>2. rows \in [DOMAIN rows -> Int]
    BY DEF Shape, TypeOK
  <2> HIDE DEF rows
  <2>3. /\ pending' = [q \in Requests |-> pending'[q]]
        /\ \A q \in Requests : pending'[q] = IF q = r THEN rows ELSE pending[q]
    BY <2>1 DEF Shape
  <2>4. /\ pc' \in [Requests -> {"lookup", "check", "number", "insert", "read", "write",
                                 "commit", "respond", "done"}]
        /\ pc'[r] \in {"read", "commit"}
        /\ \A q \in Requests \ {r} : pc'[q] = pc[q]
    BY <1>6 DEF WriteStock, Shape, TypeOK
  <2>5. /\ line' \in [Requests -> Nat]
        /\ \A q \in Requests : line'[q] \in 1..Len(Cart[q])
    <3>1. \/ line' = line
          \/ line[r] < Len(Cart[r]) /\ line' = [line EXCEPT ![r] = line[r] + 1]
      BY <1>6 DEF WriteStock
    <3>2. /\ line \in [Requests -> Nat]
          /\ \A q \in Requests : line[q] \in 1..Len(Cart[q]) /\ Len(Cart[q]) \in Nat
      BY CartLines DEF Shape, TypeOK
    <3> QED
      BY ONLY <3>1, <3>2
  <2>6. \A q \in Requests : pending'[q] # Nothing => InTransaction(q)'
    BY <2>3, <2>4 DEF Shape, TypeOK, InTransaction
  <2>7. \A q \in Requests : pending'[q] \in [DOMAIN pending'[q] -> Int]
    BY <2>2, <2>3 DEF Shape, TypeOK
  <2> QED
    BY <1>6, <2>3, <2>4, <2>5, <2>6, <2>7 DEF WriteStock, Shape, TypeOK, Committed
<1>7. ASSUME NEW r \in Requests, Commit(r)
      PROVE  Shape'
  <2>1. /\ pending' = [q \in Requests |-> pending'[q]]
        /\ \A q \in Requests : pending'[q] = IF q = r THEN Nothing ELSE pending[q]
    BY <1>7 DEF Commit, Shape
  <2>2. /\ pc' \in [Requests -> {"lookup", "check", "number", "insert", "read", "write",
                                 "commit", "respond", "done"}]
        /\ \A q \in Requests \ {r} : pc'[q] = pc[q]
    BY <1>7 DEF Commit, Shape, TypeOK
  <2>3. stock' \in [Products -> Int]
    BY <1>7 DEF Commit, Shape, TypeOK
  <2>4. IsFiniteSet(invoices')
    BY <1>7, FS_AddElement DEF Commit, Shape
  <2>5. Committed' \subseteq Requests
    BY <1>7 DEF Commit, Shape, Committed
  <2>6. \A q \in Requests : /\ pending'[q] # Nothing => InTransaction(q)'
                            /\ pending'[q] \in [DOMAIN pending'[q] -> Int]
    BY <2>1, <2>2, NothingType DEF Shape, TypeOK, InTransaction
  <2> QED
    BY <1>7, <2>1, <2>2, <2>3, <2>4, <2>5, <2>6 DEF Commit, Shape, TypeOK
<1>8. ASSUME NEW r \in Requests, Respond(r) \/ BreakDeadlock(r) \/ Crash(r)
      PROVE  Shape'
  <2>1. \E result \in Answers : Finish(r, result)
    BY <1>8 DEF Respond, BreakDeadlock, Crash, Answers
  <2> QED
    BY <2>1, FinishShape
<1>9. CASE UNCHANGED vars
  BY <1>9 DEF vars, Shape, TypeOK, InTransaction, Committed
<1> QED
  BY <1>1, <1>2, <1>3, <1>4, <1>5, <1>6, <1>7, <1>8, <1>9 DEF Next, Step

(***************************************************************************)
(* Type correctness: however requests interleave, fail and crash, every    *)
(* variable keeps its type, and no session holds uncommitted stock outside *)
(* its transaction.                                                        *)
(***************************************************************************)
THEOREM CheckoutTypeCorrect == Spec => []TypeOK
<1>1. Init => Shape
  BY InitShape
<1>2. Shape /\ [Next]_vars => Shape'
  BY NextShape
<1>3. Shape => TypeOK
  BY DEF Shape
<1> QED
  BY <1>1, <1>2, <1>3, PTL DEF Spec
-----------------------------------------------------------------------------
(***************************************************************************)
(* The inductive invariant of the refinement.  Running says what a request *)
(* that has not ended has done so far: its client got nothing, and its     *)
(* invoice is committed exactly when its pc says so.                       *)
(***************************************************************************)
Running ==
  \A r \in Requests :
    /\ pc[r] # "done" => reply[r] = "none"
    /\ pc[r] \notin {"respond", "done"} => r \notin Committed
    /\ pc[r] = "respond" => r \in Committed

(***************************************************************************)
(* A request past its insert is the only one with its key: no other is in  *)
(* a transaction, and none is committed.                                   *)
(***************************************************************************)
Exclusive ==
  \A r \in Requests : InTransaction(r) /\ Key[r] # NoKey =>
    /\ Stored(r) = {}
    /\ \A q \in Requests \ {r} : Key[q] = Key[r] => ~InTransaction(q)

(***************************************************************************)
(* A key is charged once: no two committed invoices carry the same key.    *)
(***************************************************************************)
ChargedOnce ==
  \A r, s \in Committed : Key[r] # NoKey /\ Key[r] = Key[s] => r = s

CheckoutInv == Shape /\ Running /\ Exclusive /\ ChargedOnce

(***************************************************************************)
(* Ending a request adds no invoice and puts nobody into a transaction.    *)
(***************************************************************************)
LEMMA FinishInv ==
  ASSUME CheckoutInv, NEW r \in Requests, NEW result, Finish(r, result)
  PROVE  Running' /\ Exclusive' /\ ChargedOnce'
<1>1. invoices' = invoices /\ Committed' = Committed
  BY DEF Finish, Committed
<1>2. /\ pc'[r] = "done"
      /\ \A q \in Requests \ {r} : pc'[q] = pc[q] /\ reply'[q] = reply[q]
  BY DEF Finish, CheckoutInv, Shape, TypeOK
<1>3. \A q : Stored(q)' = Stored(q)
  BY <1>1 DEF Stored
<1>4. \A q \in Requests : InTransaction(q)' => InTransaction(q)
  BY <1>2 DEF InTransaction
<1> QED
  BY <1>1, <1>2, <1>3, <1>4 DEF CheckoutInv, Running, Exclusive, ChargedOnce

(***************************************************************************)
(* A statement that neither commits nor inserts keeps everybody's claims.  *)
(***************************************************************************)
LEMMA AdvanceInv ==
  ASSUME CheckoutInv, NEW r \in Requests, UNCHANGED <<invoices, reply>>,
         pc[r] \notin {"respond", "done"}, pc'[r] \notin {"respond", "done"},
         InTransaction(r)' => InTransaction(r),
         \A q \in Requests \ {r} : pc'[q] = pc[q]
  PROVE  Running' /\ Exclusive' /\ ChargedOnce'
<1>1. Committed' = Committed
  BY DEF Committed
<1>2. \A q : Stored(q)' = Stored(q)
  BY <1>1 DEF Stored
<1>3. \A q \in Requests : InTransaction(q)' => InTransaction(q)
  BY DEF InTransaction
<1> QED
  BY <1>1, <1>2, <1>3 DEF CheckoutInv, Running, Exclusive, ChargedOnce

(***************************************************************************)
(* The initial states have nothing to tell apart.                          *)
(***************************************************************************)
LEMMA InitInv == Init => CheckoutInv
BY InitShape DEF CheckoutInv, Init, Running, Exclusive, ChargedOnce, InTransaction, Committed

(***************************************************************************)
(* Every statement keeps the claims.  The insert establishes Exclusive: it *)
(* waits for whoever is in a transaction with the key, and fails if the    *)
(* key is taken.  The commit turns Exclusive into ChargedOnce.             *)
(***************************************************************************)
LEMMA NextInv ==
  ASSUME CheckoutInv, [Next]_vars
  PROVE  CheckoutInv'
<1>0. Shape'
  BY NextShape DEF CheckoutInv
<1>1. ASSUME NEW r \in Requests, Lookup(r)
      PROVE  Running' /\ Exclusive' /\ ChargedOnce'
  <2>1. CASE Stored(r) # {}
    BY <1>1, <2>1, FinishInv DEF Lookup
  <2>2. CASE Stored(r) = {}
    BY <1>1, <2>2, AdvanceInv DEF Lookup, CheckoutInv, Shape, TypeOK, InTransaction
  <2> QED
    BY <2>1, <2>2
<1>2. ASSUME NEW r \in Requests, Check(r)
      PROVE  Running' /\ Exclusive' /\ ChargedOnce'
  <2>1. CASE Finish(r, "refused")
    BY <2>1, FinishInv
  <2>2. CASE ~Finish(r, "refused")
    <3>1. /\ pc[r] = "check" /\ pc' = [pc EXCEPT ![r] = "number"]
          /\ UNCHANGED <<invoices, reply>>
      BY <1>2, <2>2 DEF Check
    <3> QED
      BY <3>1, AdvanceInv DEF CheckoutInv, Shape, TypeOK, InTransaction
  <2> QED
    BY <2>1, <2>2
<1>3. ASSUME NEW r \in Requests, ChooseNumber(r)
      PROVE  Running' /\ Exclusive' /\ ChargedOnce'
  BY <1>3, AdvanceInv DEF ChooseNumber, CheckoutInv, Shape, TypeOK, InTransaction
<1>4. ASSUME NEW r \in Requests, Insert(r)
      PROVE  Running' /\ Exclusive' /\ ChargedOnce'
  <2>1. CASE Finish(r, "conflict")
    BY <2>1, FinishInv
  <2>2. CASE ~Finish(r, "conflict")
    <3>1. /\ pc[r] = "insert" /\ pc' = [pc EXCEPT ![r] = "read"]
          /\ UNCHANGED <<invoices, reply>> /\ Committed' = Committed
      BY <1>4, <2>2 DEF Insert, Committed
    <3>2. /\ pc'[r] = "read" /\ \A q \in Requests \ {r} : pc'[q] = pc[q]
          /\ \A q : Stored(q)' = Stored(q)
      BY <3>1 DEF CheckoutInv, Shape, TypeOK, Stored
    <3>3. \A q \in Requests \ {r} : Key[r] # NoKey /\ Key[q] = Key[r] => ~InTransaction(q)
      BY <1>4, <3>1 DEF Insert, WaitsFor
    <3>4. Stored(r) = {}
      BY <1>4, <2>2 DEF Insert, UniqueKey
    <3>5. \A q \in Requests \ {r} : InTransaction(q)' <=> InTransaction(q)
      BY <3>2 DEF InTransaction
    <3>6. Exclusive'
      BY <3>2, <3>3, <3>4, <3>5 DEF CheckoutInv, Exclusive
    <3>7. Running' /\ ChargedOnce'
      BY <3>1, <3>2 DEF CheckoutInv, Running, ChargedOnce
    <3> QED
      BY <3>6, <3>7
  <2> QED
    BY <2>1, <2>2
<1>5. ASSUME NEW r \in Requests, ReadStock(r)
      PROVE  Running' /\ Exclusive' /\ ChargedOnce'
  BY <1>5, AdvanceInv DEF ReadStock, CheckoutInv, Shape, TypeOK, InTransaction
<1>6. ASSUME NEW r \in Requests, WriteStock(r)
      PROVE  Running' /\ Exclusive' /\ ChargedOnce'
  <2>1. /\ pc[r] = "write" /\ pc'[r] \in {"read", "commit"}
        /\ \A q \in Requests \ {r} : pc'[q] = pc[q]
        /\ UNCHANGED <<invoices, reply>>
    BY <1>6 DEF WriteStock, CheckoutInv, Shape, TypeOK
  <2> QED
    BY <2>1, AdvanceInv DEF InTransaction
<1>7. ASSUME NEW r \in Requests, Commit(r)
      PROVE  Running' /\ Exclusive' /\ ChargedOnce'
  <2>1. Committed' = Committed \cup {r} /\ reply' = reply
    <3> DEFINE row == [request |-> r, number |-> number[r]]
    <3>1. invoices' = invoices \cup {row} /\ row.request = r /\ reply' = reply
      BY <1>7 DEF Commit
    <3> HIDE DEF row
    <3> QED
      BY <3>1 DEF Committed
  <2>2. /\ pc[r] = "commit" /\ pc'[r] = "respond"
        /\ \A q \in Requests \ {r} : pc'[q] = pc[q]
    BY <1>7 DEF Commit, CheckoutInv, Shape, TypeOK
  <2>3. InTransaction(r) /\ ~InTransaction(r)'
    BY <2>2 DEF InTransaction
  <2>4. \A q \in Requests \ {r} : InTransaction(q)' <=> InTransaction(q)
    BY <2>2 DEF InTransaction
  <2>5. Running'
    BY <2>1, <2>2 DEF CheckoutInv, Running
  <2>6. Exclusive'
    <3>1. \A q \in Requests : InTransaction(q)' => q # r /\ InTransaction(q)
      BY <2>3, <2>4
    <3>2. \A q \in Requests : InTransaction(q)' /\ Key[q] # NoKey => Stored(q)' = {}
      BY <2>1, <2>3, <3>1 DEF CheckoutInv, Exclusive, Stored
    <3> QED
      BY <3>1, <3>2, <2>4 DEF CheckoutInv, Exclusive
  <2>7. ChargedOnce'
    <3>1. \A s \in Committed : ~(Key[r] # NoKey /\ Key[r] = Key[s])
      BY <2>3 DEF CheckoutInv, Exclusive, Stored
    <3> QED
      BY <2>1, <3>1 DEF CheckoutInv, ChargedOnce
  <2> QED
    BY <2>5, <2>6, <2>7
<1>8. ASSUME NEW r \in Requests, Respond(r) \/ BreakDeadlock(r) \/ Crash(r)
      PROVE  Running' /\ Exclusive' /\ ChargedOnce'
  BY <1>8, FinishInv DEF Respond, BreakDeadlock, Crash
<1>9. CASE UNCHANGED vars
  BY <1>0, <1>9 DEF vars, CheckoutInv, Running, Exclusive, ChargedOnce, InTransaction,
                    Stored, Committed
<1> QED
  BY <1>0, <1>1, <1>2, <1>3, <1>4, <1>5, <1>6, <1>7, <1>8, <1>9
     DEF Next, Step, CheckoutInv

(***************************************************************************)
(* However often a checkout with a key is sent, and however the attempts   *)
(* interleave, fail and crash, one invoice is charged for it.              *)
(***************************************************************************)
THEOREM KeyIsChargedOnce == Spec => []Promise!ChargedOnce
<1>1. CheckoutInv => Promise!ChargedOnce
  BY DEF CheckoutInv, ChargedOnce, Promise!ChargedOnce, Promise!SameCheckout
<1> QED
  BY <1>1, InitInv, NextInv, PTL DEF Spec
-----------------------------------------------------------------------------
(***************************************************************************)
(* What the clients got, as IdempotentCheckout sees it.                    *)
(***************************************************************************)
Reported ==
  [r \in Requests |->
     IF reply[r] \in {"refused", "conflict", "deadlock"} THEN "failed" ELSE reply[r]]

(***************************************************************************)
(* A statement that neither commits nor answers is a stutter.              *)
(***************************************************************************)
LEMMA SilentStep ==
  ASSUME UNCHANGED <<invoices, reply>>
  PROVE  UNCHANGED Promise!vars
BY DEF Promise!vars, Committed

(***************************************************************************)
(* Ending a request changes its report only, and only once.                *)
(***************************************************************************)
LEMMA FinishReports ==
  ASSUME CheckoutInv, NEW r \in Requests, NEW result, Finish(r, result), pc[r] # "done"
  PROVE  /\ Committed' = Committed /\ Reported[r] = "none"
         /\ Reported' = [Reported EXCEPT ![r] =
              IF result \in {"refused", "conflict", "deadlock"} THEN "failed" ELSE result]
<1>1. Committed' = Committed
  BY DEF Finish, Committed
<1>2. reply[r] = "none"
  BY DEF CheckoutInv, Running
<1>3. reply' = [reply EXCEPT ![r] = result] /\ reply \in [Requests -> Answers]
  BY DEF Finish, CheckoutInv, Shape, TypeOK
<1> QED
  BY <1>1, <1>2, <1>3 DEF Reported

(***************************************************************************)
(* A request answered with a committed invoice of its checkout: Answer.    *)
(***************************************************************************)
LEMMA AnswerStep ==
  ASSUME CheckoutInv, NEW r \in Requests, NEW s \in Committed, Finish(r, s),
         pc[r] # "done", s = r \/ (Key[r] # NoKey /\ Key[s] = Key[r])
  PROVE  Promise!Answer(r)
<1>1. s \notin {"refused", "conflict", "deadlock"}
  BY CheckoutAssumption DEF CheckoutAssumption, CheckoutInv, Shape
<1> QED
  BY <1>1, FinishReports DEF Promise!Answer, Promise!SameCheckout, Reported

(***************************************************************************)
(* A request refused before it stored anything: Fail.                      *)
(***************************************************************************)
LEMMA FailStep ==
  ASSUME CheckoutInv, NEW r \in Requests, pc[r] \notin {"respond", "done"},
         NEW result \in {"refused", "conflict", "deadlock"}, Finish(r, result)
  PROVE  Promise!Fail(r)
<1>1. r \notin Committed
  BY DEF CheckoutInv, Running
<1> QED
  BY <1>1, FinishReports DEF Promise!Fail, Reported

(***************************************************************************)
(* Every step of create_invoice is a step of IdempotentCheckout or none.   *)
(***************************************************************************)
LEMMA StepPromised ==
  ASSUME CheckoutInv, [Next]_vars
  PROVE  [Promise!Next]_(Promise!vars)
<1>1. ASSUME NEW r \in Requests, Lookup(r)
      PROVE  [Promise!Next]_(Promise!vars)
  <2>1. CASE Stored(r) # {}
    <3>1. PICK s \in Stored(r) : Finish(r, s)
      BY <1>1, <2>1 DEF Lookup
    <3>2. Promise!Answer(r)
      BY <1>1, <3>1, AnswerStep DEF Lookup, Stored
    <3> QED
      BY <3>2 DEF Promise!Next
  <2>2. CASE Stored(r) = {}
    BY <1>1, <2>2, SilentStep DEF Lookup
  <2> QED
    BY <2>1, <2>2
<1>2. ASSUME NEW r \in Requests, Check(r)
      PROVE  [Promise!Next]_(Promise!vars)
  <2>1. CASE Finish(r, "refused")
    BY <1>2, <2>1, FailStep DEF Check, Promise!Next
  <2>2. CASE ~Finish(r, "refused")
    BY <1>2, <2>2, SilentStep DEF Check
  <2> QED
    BY <2>1, <2>2
<1>3. ASSUME NEW r \in Requests, Insert(r)
      PROVE  [Promise!Next]_(Promise!vars)
  <2>1. CASE Finish(r, "conflict")
    BY <1>3, <2>1, FailStep DEF Insert, Promise!Next
  <2>2. CASE ~Finish(r, "conflict")
    BY <1>3, <2>2, SilentStep DEF Insert
  <2> QED
    BY <2>1, <2>2
<1>4. ASSUME NEW r \in Requests, ChooseNumber(r) \/ ReadStock(r) \/ WriteStock(r)
      PROVE  [Promise!Next]_(Promise!vars)
  BY <1>4, SilentStep DEF ChooseNumber, ReadStock, WriteStock
<1>5. ASSUME NEW r \in Requests, Commit(r)
      PROVE  [Promise!Next]_(Promise!vars)
  <2>1. Committed' = Committed \cup {r} /\ Reported' = Reported
    <3> DEFINE row == [request |-> r, number |-> number[r]]
    <3>1. invoices' = invoices \cup {row} /\ row.request = r /\ reply' = reply
      BY <1>5 DEF Commit
    <3> HIDE DEF row
    <3> QED
      BY <3>1 DEF Committed, Reported
  <2>2. pc[r] = "commit" /\ InTransaction(r)
    BY <1>5 DEF Commit, InTransaction
  <2>3. reply[r] = "none" /\ r \notin Committed
    BY <2>2 DEF CheckoutInv, Running
  <2>4. \A s \in Committed : ~Promise!SameCheckout(r, s)
    BY <2>2, <2>3 DEF CheckoutInv, Exclusive, Stored, Promise!SameCheckout
  <2>5. Promise!Sell(r)
    BY <2>1, <2>3, <2>4 DEF Promise!Sell, Reported
  <2> QED
    BY <2>5 DEF Promise!Next
<1>6. ASSUME NEW r \in Requests, Respond(r)
      PROVE  [Promise!Next]_(Promise!vars)
  <2>1. r \in Committed /\ pc[r] = "respond"
    BY <1>6 DEF Respond, CheckoutInv, Running
  <2> QED
    BY <1>6, <2>1, AnswerStep DEF Respond, Promise!Next
<1>7. ASSUME NEW r \in Requests, BreakDeadlock(r)
      PROVE  [Promise!Next]_(Promise!vars)
  <2>1. WaitsFor(r) # {}
    BY <1>7 DEF BreakDeadlock, InDeadlock, DeadlockOf
  <2>2. pc[r] \in {"insert", "write"}
    BY <2>1 DEF WaitsFor
  <2> QED
    BY <1>7, <2>2, FailStep DEF BreakDeadlock, Promise!Next
<1>8. ASSUME NEW r \in Requests, Crash(r)
      PROVE  [Promise!Next]_(Promise!vars)
  <2>1. Promise!Lose(r)
    BY <1>8, FinishReports DEF Crash, Promise!Lose, Reported
  <2> QED
    BY <2>1 DEF Promise!Next
<1>9. CASE UNCHANGED vars
  BY <1>9, SilentStep DEF vars
<1> QED
  BY <1>1, <1>2, <1>3, <1>4, <1>5, <1>6, <1>7, <1>8, <1>9 DEF Next, Step

(***************************************************************************)
(* create_invoice implements IdempotentCheckout: whatever interleaves,     *)
(* fails or crashes, a key is charged once, who gets an invoice gets that  *)
(* one, and who is told of a failure was not charged.                      *)
(***************************************************************************)
THEOREM CheckoutImplements == Spec => ChecksOutOnce
<1>1. Init => Promise!Init
  <2> SUFFICES ASSUME Init PROVE Promise!Init
    OBVIOUS
  <2>1. Committed = {} /\ \A r \in Requests : reply[r] = "none"
    BY DEF Init, Committed
  <2> QED
    BY <2>1 DEF Promise!Init
<1>2. CheckoutInv /\ [Next]_vars => [Promise!Next]_(Promise!vars)
  BY StepPromised
<1> QED
  BY <1>1, <1>2, InitInv, NextInv, PTL DEF Spec, ChecksOutOnce, Promise!Spec
-----------------------------------------------------------------------------
(***************************************************************************)
(* The quantity on hand, from below.  The lines of a request that sell p,  *)
(* those it has written, and the least that may be left of p.              *)
(***************************************************************************)
LinesOf(r, p) == {n \in 1..Len(Cart[r]) : Cart[r][n] = p}
Written(r, p) == {n \in LinesOf(r, p) : n < line[r] \/ pc[r] = "commit"}
SoldLines(p) ==
  UNION {{<<r, l>> : l \in {n \in 1..Len(Cart[r]) : Cart[r][n] = p}} : r \in Committed}
Floor(p) == OpeningStock[p] - UnitsSold(p)

(***************************************************************************)
(* A row that was read, now or before others committed, was not too low;   *)
(* what a session writes is lower by the lines it wrote, which count as    *)
(* sold when it commits.                                                   *)
(***************************************************************************)
RowsNotTooLow ==
  \A p \in Products :
    /\ IsFiniteSet(SoldLines(p))
    /\ stock[p] >= Floor(p)
    /\ \A r \in Requests : p \in DOMAIN cached[r] => cached[r][p] >= Floor(p)
WritesNotTooLow ==
  \A r \in Requests : \A p \in Products :
    /\ p \in DOMAIN pending[r] => pending[r][p] >= Floor(p) - Cardinality(Written(r, p))
    /\ pc[r] = "write" /\ Cart[r][line[r]] = p =>
         read[r] >= Floor(p) - Cardinality(Written(r, p))

StockInv == CheckoutInv /\ RowsNotTooLow /\ WritesNotTooLow

(***************************************************************************)
(* A request has finitely many lines, and has written some of them.        *)
(***************************************************************************)
LEMMA LinesFinite ==
  ASSUME NEW r \in Requests, NEW p
  PROVE  /\ IsFiniteSet(LinesOf(r, p)) /\ Cardinality(LinesOf(r, p)) \in Nat
         /\ IsFiniteSet(Written(r, p)) /\ Cardinality(Written(r, p)) \in Nat
<1>1. IsFiniteSet(1..Len(Cart[r]))
  BY CartLines, FS_Interval
<1>2. IsFiniteSet(LinesOf(r, p))
  BY <1>1, FS_Subset DEF LinesOf
<1>3. IsFiniteSet(Written(r, p))
  BY <1>2, FS_Subset DEF Written
<1> QED
  BY <1>2, <1>3, FS_CardinalityType

(***************************************************************************)
(* Where the sold lines are finite, the floor is an integer.               *)
(***************************************************************************)
LEMMA FloorType ==
  ASSUME NEW p \in Products, IsFiniteSet(SoldLines(p))
  PROVE  Floor(p) \in Int /\ Floor(p) = OpeningStock[p] - Cardinality(SoldLines(p))
<1>1. Cardinality(SoldLines(p)) \in Nat
  BY FS_CardinalityType
<1>2. UnitsSold(p) = Cardinality(SoldLines(p))
  BY DEF UnitsSold, SoldLines
<1>3. OpeningStock[p] \in Nat
  BY CheckoutAssumption DEF CheckoutAssumption
<1> QED
  BY <1>1, <1>2, <1>3 DEF Floor

(***************************************************************************)
(* Without a commit the floor of every product stays.                      *)
(***************************************************************************)
LEMMA FloorStays ==
  ASSUME UNCHANGED invoices, NEW p
  PROVE  SoldLines(p)' = SoldLines(p) /\ Floor(p)' = Floor(p)
BY DEF SoldLines, Floor, UnitsSold, Committed

(***************************************************************************)
(* A step that only moves one request on, before it writes, or ends it.    *)
(***************************************************************************)
LEMMA QuietStep ==
  ASSUME StockInv, NEW r \in Requests, UNCHANGED <<stock, read, line, invoices>>,
         \A q \in Requests \ {r} : pc'[q] = pc[q] /\ pending'[q] = pending[q],
         pending'[r] = Nothing,
         pc'[r] # "write",
         \A q \in Requests : \A p \in DOMAIN cached'[q] :
            \/ p \in DOMAIN cached[q] /\ cached'[q][p] = cached[q][p]
            \/ cached'[q][p] = stock[p]
  PROVE  RowsNotTooLow' /\ WritesNotTooLow'
<1>1. \A p : SoldLines(p)' = SoldLines(p) /\ Floor(p)' = Floor(p)
  BY FloorStays
<1>2. RowsNotTooLow'
  BY <1>1 DEF StockInv, RowsNotTooLow
<1>3. \A q \in Requests \ {r} : \A p : Written(q, p)' = Written(q, p)
  BY DEF Written, LinesOf
<1>4. \A p : p \notin DOMAIN pending'[r]
  BY DEF Nothing
<1>5. WritesNotTooLow'
  BY <1>1, <1>3, <1>4 DEF StockInv, WritesNotTooLow
<1> QED
  BY <1>2, <1>5

(***************************************************************************)
(* Ending a request gives its writes up.                                   *)
(***************************************************************************)
LEMMA FinishStock ==
  ASSUME StockInv, NEW r \in Requests, NEW result, Finish(r, result)
  PROVE  RowsNotTooLow' /\ WritesNotTooLow'
<1>1. /\ pc'[r] = "done" /\ pending'[r] = Nothing
      /\ \A q \in Requests \ {r} : pc'[q] = pc[q] /\ pending'[q] = pending[q]
  BY DEF Finish, StockInv, CheckoutInv, Shape, TypeOK
<1>2. UNCHANGED <<cached, stock, read, line, invoices>>
  BY DEF Finish
<1> QED
  BY <1>1, <1>2, QuietStep

(***************************************************************************)
(* At the start the stock is the opening stock.                            *)
(***************************************************************************)
LEMMA InitStock == Init => StockInv
<1> SUFFICES ASSUME Init PROVE RowsNotTooLow /\ WritesNotTooLow
  BY InitInv DEF StockInv
<1>1. \A p : SoldLines(p) = {}
  BY DEF Init, SoldLines, Committed
<1>2. \A p \in Products : IsFiniteSet(SoldLines(p)) /\ Floor(p) = OpeningStock[p]
  <2> TAKE p \in Products
  <2>1. IsFiniteSet(SoldLines(p)) /\ Cardinality(SoldLines(p)) = 0
    BY <1>1, FS_EmptySet
  <2>2. OpeningStock[p] \in Nat
    BY CheckoutAssumption DEF CheckoutAssumption
  <2> QED
    BY <2>1, <2>2, FloorType
<1>3. \A p \in Products : stock[p] >= OpeningStock[p]
  BY CheckoutAssumption DEF CheckoutAssumption, Init
<1>4. \A r \in Requests : DOMAIN cached[r] = {} /\ DOMAIN pending[r] = {} /\ pc[r] = "lookup"
  BY DEF Init, Nothing
<1> QED
  BY <1>2, <1>3, <1>4 DEF RowsNotTooLow, WritesNotTooLow

(***************************************************************************)
(* What a session reads for a line is not too low for what it has written. *)
(***************************************************************************)
LEMMA ReadableNotTooLow ==
  ASSUME StockInv, NEW r \in Requests, NEW p \in Products, NEW v \in Readable(r, p)
  PROVE  v \in Int /\ v >= Floor(p) - Cardinality(Written(r, p))
<1>1. Floor(p) \in Int /\ Cardinality(Written(r, p)) \in Nat
  BY FloorType, LinesFinite DEF StockInv, RowsNotTooLow
<1>2. CASE p \in DOMAIN pending[r]
  BY <1>2 DEF Readable, StockInv, WritesNotTooLow, CheckoutInv, Shape, TypeOK
<1>3. CASE p \notin DOMAIN pending[r]
  <2>1. v = stock[p] \/ (p \in DOMAIN cached[r] /\ v = cached[r][p])
    BY <1>3 DEF Readable
  <2>2. v \in Int
    BY <2>1 DEF StockInv, CheckoutInv, Shape, TypeOK
  <2>3. v >= Floor(p)
    BY <2>1 DEF StockInv, RowsNotTooLow
  <2> QED
    BY <1>1, <2>2, <2>3
<1> QED
  BY <1>2, <1>3

(***************************************************************************)
(* Writing a line takes one unit of its product and counts one line more   *)
(* as written; what was written of other products stays.                   *)
(***************************************************************************)
LEMMA WriteAddsLine ==
  ASSUME CheckoutInv, NEW r \in Requests, WriteStock(r), NEW p
  PROVE  /\ Cart[r][line[r]] = p =>
              Cardinality(Written(r, p)') = Cardinality(Written(r, p)) + 1
         /\ Cart[r][line[r]] # p => Written(r, p)' = Written(r, p)
         /\ \A q \in Requests \ {r} : Written(q, p)' = Written(q, p)
<1>1. /\ pc[r] = "write" /\ line[r] \in 1..Len(Cart[r]) /\ Len(Cart[r]) \in Nat
      /\ \/ /\ line[r] < Len(Cart[r]) /\ pc'[r] = "read" /\ line'[r] = line[r] + 1
         \/ /\ line[r] = Len(Cart[r]) /\ pc'[r] = "commit" /\ line'[r] = line[r]
      /\ \A q \in Requests \ {r} : pc'[q] = pc[q] /\ line'[q] = line[q]
  BY CartLines DEF WriteStock, CheckoutInv, Shape, TypeOK
<1>2. \A q \in Requests \ {r} : Written(q, p)' = Written(q, p)
  BY <1>1 DEF Written, LinesOf
<1>3. Written(r, p) = {n \in LinesOf(r, p) : n < line[r]}
  BY <1>1 DEF Written
<1>4. Written(r, p)' = {n \in LinesOf(r, p) : n <= line[r]}
  BY <1>1 DEF Written, LinesOf
<1>5. ASSUME Cart[r][line[r]] = p
      PROVE  Cardinality(Written(r, p)') = Cardinality(Written(r, p)) + 1
  <2>1. Written(r, p)' = Written(r, p) \cup {line[r]} /\ line[r] \notin Written(r, p)
    BY <1>1, <1>3, <1>4, <1>5 DEF LinesOf
  <2>2. IsFiniteSet(Written(r, p))
    BY LinesFinite
  <2> QED
    BY <2>1, <2>2, FS_AddElement
<1>6. ASSUME Cart[r][line[r]] # p
      PROVE  Written(r, p)' = Written(r, p)
  BY <1>1, <1>3, <1>4, <1>6 DEF LinesOf
<1> QED
  BY <1>2, <1>5, <1>6

(***************************************************************************)
(* A commit sells the lines of its request, which were not sold before.    *)
(***************************************************************************)
LEMMA CommitSells ==
  ASSUME StockInv, NEW r \in Requests, Commit(r), NEW p \in Products
  PROVE  /\ IsFiniteSet(SoldLines(p)')
         /\ Floor(p)' = Floor(p) - Cardinality(Written(r, p))
<1> DEFINE lines == {<<r, l>> : l \in LinesOf(r, p)}
<1>1. pc[r] = "commit" /\ Committed' = Committed \cup {r}
  <2> DEFINE row == [request |-> r, number |-> number[r]]
  <2>1. pc[r] = "commit" /\ invoices' = invoices \cup {row} /\ row.request = r
    BY DEF Commit
  <2> HIDE DEF row
  <2> QED
    BY <2>1 DEF Committed
<1>2. Written(r, p) = LinesOf(r, p)
  BY <1>1 DEF Written
<1>3. SoldLines(p)' = SoldLines(p) \cup lines
  BY <1>1 DEF SoldLines, LinesOf
<1>4. SoldLines(p) \cap lines = {}
  <2>1. r \notin Committed
    BY <1>1 DEF StockInv, CheckoutInv, Running
  <2> QED
    BY <2>1 DEF SoldLines, LinesOf
<1>5. IsFiniteSet(lines) /\ Cardinality(lines) = Cardinality(LinesOf(r, p))
  <2> DEFINE f == [l \in LinesOf(r, p) |-> <<r, l>>]
  <2>1. f \in Bijection(LinesOf(r, p), lines)
    BY DEF Bijection, Injection, Surjection, IsInjective
  <2>2. ExistsBijection(LinesOf(r, p), lines)
    BY <2>1 DEF ExistsBijection
  <2> QED
    BY <2>2, LinesFinite, FS_Bijection
<1> HIDE DEF lines
<1>6. IsFiniteSet(SoldLines(p)) /\ Cardinality(SoldLines(p)) \in Nat
  BY FS_CardinalityType DEF StockInv, RowsNotTooLow
<1>7. /\ IsFiniteSet(SoldLines(p)')
      /\ Cardinality(SoldLines(p)') = Cardinality(SoldLines(p)) + Cardinality(LinesOf(r, p))
  <2>1. Cardinality(LinesOf(r, p)) \in Nat
    BY LinesFinite
  <2>2. /\ IsFiniteSet(SoldLines(p) \cup lines)
        /\ Cardinality(SoldLines(p) \cup lines)
             = Cardinality(SoldLines(p)) + Cardinality(lines)
               - Cardinality(SoldLines(p) \cap lines)
    BY <1>5, <1>6, FS_Union
  <2>3. Cardinality(SoldLines(p) \cap lines) = 0
    BY <1>4, FS_EmptySet
  <2> QED
    BY <2>1, <2>2, <2>3, <1>3, <1>5, <1>6
<1>8. UnitsSold(p) = Cardinality(SoldLines(p)) /\ UnitsSold(p)' = Cardinality(SoldLines(p)')
  BY DEF UnitsSold, SoldLines
<1>9. OpeningStock[p] \in Nat /\ Cardinality(LinesOf(r, p)) \in Nat
  BY CheckoutAssumption, LinesFinite DEF CheckoutAssumption
<1> QED
  BY <1>2, <1>6, <1>7, <1>8, <1>9 DEF Floor

(***************************************************************************)
(* Every statement keeps the stock from being too low.                     *)
(***************************************************************************)
LEMMA NextStock ==
  ASSUME StockInv, [Next]_vars
  PROVE  StockInv'
<1> DEFINE Goal == RowsNotTooLow' /\ WritesNotTooLow'
<1>0. CheckoutInv'
  BY NextInv DEF StockInv
<1>0a. /\ CheckoutInv /\ Shape /\ TypeOK
       /\ \A q \in Requests : ~InTransaction(q) => pending[q] = Nothing
  BY DEF StockInv, CheckoutInv, Shape, TypeOK
<1>1. ASSUME NEW r \in Requests, Lookup(r)
      PROVE  Goal
  <2>1. CASE Stored(r) # {}
    BY <1>1, <2>1, FinishStock DEF Lookup
  <2>2. CASE Stored(r) = {}
    <3>1. /\ pc[r] = "lookup" /\ pc' = [pc EXCEPT ![r] = "check"]
          /\ UNCHANGED <<cached, read, line, pending, invoices, stock>>
      BY <1>1, <2>2 DEF Lookup
    <3>2. /\ pending'[r] = Nothing /\ pc'[r] = "check"
          /\ \A q \in Requests \ {r} : pc'[q] = pc[q]
      BY <1>0a, <3>1 DEF InTransaction, TypeOK
    <3> QED
      BY <3>1, <3>2, QuietStep
  <2> QED
    BY <2>1, <2>2
<1>2. ASSUME NEW r \in Requests, Check(r)
      PROVE  Goal
  <2>1. CASE Finish(r, "refused")
    BY <2>1, FinishStock
  <2>2. CASE ~Finish(r, "refused")
    <3> DEFINE row == IF AllowNegative THEN Nothing ELSE [p \in ProductsIn(r) |-> stock[p]]
    <3>1. /\ pc[r] = "check" /\ pc' = [pc EXCEPT ![r] = "number"]
          /\ cached' = [cached EXCEPT ![r] = row]
          /\ UNCHANGED <<read, line, pending, invoices, stock>>
      BY <1>2, <2>2 DEF Check
    <3>2. \A p \in DOMAIN row : row[p] = stock[p]
      BY DEF Nothing
    <3> HIDE DEF row
    <3>3. /\ pending'[r] = Nothing /\ pc'[r] = "number"
          /\ \A q \in Requests \ {r} : pc'[q] = pc[q]
      BY <1>0a, <3>1 DEF InTransaction, TypeOK
    <3>4. \A q \in Requests : cached'[q] = IF q = r THEN row ELSE cached[q]
      BY <1>0a, <3>1 DEF Shape
    <3>5. \A q \in Requests : \A p \in DOMAIN cached'[q] :
            \/ p \in DOMAIN cached[q] /\ cached'[q][p] = cached[q][p]
            \/ cached'[q][p] = stock[p]
      BY <3>2, <3>4
    <3> QED
      BY <3>1, <3>3, <3>5, QuietStep
  <2> QED
    BY <2>1, <2>2
<1>3. ASSUME NEW r \in Requests, ChooseNumber(r)
      PROVE  Goal
  <2>1. /\ pc[r] = "number" /\ pc' = [pc EXCEPT ![r] = "insert"]
        /\ UNCHANGED <<cached, read, line, pending, invoices, stock>>
    BY <1>3 DEF ChooseNumber
  <2>2. /\ pending'[r] = Nothing /\ pc'[r] = "insert"
        /\ \A q \in Requests \ {r} : pc'[q] = pc[q]
    BY <1>0a, <2>1 DEF InTransaction, TypeOK
  <2> QED
    BY <2>1, <2>2, QuietStep
<1>4. ASSUME NEW r \in Requests, Insert(r)
      PROVE  Goal
  <2>1. CASE Finish(r, "conflict")
    BY <2>1, FinishStock
  <2>2. CASE ~Finish(r, "conflict")
    <3>1. /\ pc[r] = "insert" /\ pc' = [pc EXCEPT ![r] = "read"]
          /\ UNCHANGED <<cached, read, line, pending, invoices, stock>>
      BY <1>4, <2>2 DEF Insert
    <3>2. /\ pending'[r] = Nothing /\ pc'[r] = "read"
          /\ \A q \in Requests \ {r} : pc'[q] = pc[q]
      BY <1>0a, <3>1 DEF InTransaction, TypeOK
    <3> QED
      BY <3>1, <3>2, QuietStep
  <2> QED
    BY <2>1, <2>2
<1>5. ASSUME NEW r \in Requests, ReadStock(r)
      PROVE  Goal
  <2> DEFINE c == Cart[r][line[r]]
  <2>1. PICK v \in Readable(r, c) : read' = [read EXCEPT ![r] = v]
    BY <1>5 DEF ReadStock
  <2>2. c \in Products
    BY <1>0a, CartLines DEF Shape
  <2> HIDE DEF c
  <2>3. v >= Floor(c) - Cardinality(Written(r, c))
    BY <2>1, <2>2, ReadableNotTooLow
  <2>4. /\ pc[r] = "read" /\ pc' = [pc EXCEPT ![r] = "write"]
        /\ UNCHANGED <<cached, line, pending, invoices, stock>>
    BY <1>5 DEF ReadStock
  <2>5. \A p : SoldLines(p)' = SoldLines(p) /\ Floor(p)' = Floor(p)
    BY <2>4, FloorStays
  <2>6. \A q \in Requests : \A p : Written(q, p)' = Written(q, p)
    BY <1>0a, <2>4 DEF Written, LinesOf, TypeOK
  <2>7. RowsNotTooLow'
    BY <2>4, <2>5 DEF StockInv, RowsNotTooLow
  <2>8. /\ read'[r] = v /\ Cart[r][line'[r]] = c
        /\ \A q \in Requests \ {r} : pc'[q] = pc[q] /\ read'[q] = read[q]
    BY <1>0a, <2>1, <2>4 DEF TypeOK, c
  <2>9. WritesNotTooLow'
    BY <2>3, <2>4, <2>5, <2>6, <2>8 DEF StockInv, WritesNotTooLow
  <2> QED
    BY <2>7, <2>9
<1>6. ASSUME NEW r \in Requests, WriteStock(r)
      PROVE  Goal
  <2> DEFINE c == Cart[r][line[r]]
             rows == [q \in DOMAIN pending[r] \cup {c} |->
                        IF q = c THEN read[r] - 1 ELSE pending[r][q]]
  <2>1. /\ pc[r] = "write" /\ pending' = [pending EXCEPT ![r] = rows]
        /\ UNCHANGED <<cached, read, invoices, stock>>
    BY <1>6, <1>0a DEF WriteStock, Shape
  <2>2. /\ DOMAIN rows = DOMAIN pending[r] \cup {c} /\ rows[c] = read[r] - 1
        /\ \A q \in DOMAIN pending[r] \ {c} : rows[q] = pending[r][q]
    OBVIOUS
  <2> HIDE DEF rows
  <2>3. \A q \in Requests : pending'[q] = IF q = r THEN rows ELSE pending[q]
    BY <2>1, <1>0a DEF Shape
  <2>4. /\ pc'[r] \in {"read", "commit"}
        /\ \A q \in Requests \ {r} : pc'[q] = pc[q] /\ line'[q] = line[q]
    BY <1>6, <1>0a DEF WriteStock, Shape, TypeOK
  <2>5. \A p : SoldLines(p)' = SoldLines(p) /\ Floor(p)' = Floor(p)
    BY <2>1, FloorStays
  <2>6. RowsNotTooLow'
    BY <2>1, <2>5 DEF StockInv, RowsNotTooLow
  <2>7. \A p : /\ c = p => Cardinality(Written(r, p)') = Cardinality(Written(r, p)) + 1
               /\ c # p => Written(r, p)' = Written(r, p)
               /\ \A q \in Requests \ {r} : Written(q, p)' = Written(q, p)
    BY <1>0a, <1>6, WriteAddsLine
  <2> HIDE DEF c
  <2>8. ASSUME NEW p \in Products, p \in DOMAIN pending'[r]
        PROVE  pending'[r][p] >= Floor(p)' - Cardinality(Written(r, p)')
    <3>1. CASE p = c
      <4>1. read[r] >= Floor(c) - Cardinality(Written(r, c))
        BY <2>1, <3>1 DEF StockInv, WritesNotTooLow, c
      <4>2. read[r] \in Int /\ Floor(c) \in Int /\ Cardinality(Written(r, c)) \in Nat
        BY <1>0a, <3>1, FloorType, LinesFinite DEF StockInv, RowsNotTooLow, TypeOK
      <4>3. /\ pending'[r][p] = read[r] - 1 /\ Floor(p)' = Floor(c)
            /\ Cardinality(Written(r, p)') = Cardinality(Written(r, c)) + 1
        BY <2>2, <2>3, <2>5, <2>7, <3>1
      <4> QED
        BY <4>1, <4>2, <4>3
    <3>2. CASE p # c
      BY <2>2, <2>3, <2>5, <2>7, <2>8, <3>2 DEF StockInv, WritesNotTooLow
    <3> QED
      BY <3>1, <3>2
  <2>9. ASSUME NEW q \in Requests \ {r}, NEW p \in Products
        PROVE  /\ p \in DOMAIN pending'[q] =>
                    pending'[q][p] >= Floor(p)' - Cardinality(Written(q, p)')
               /\ pc'[q] = "write" /\ Cart[q][line'[q]] = p =>
                    read'[q] >= Floor(p)' - Cardinality(Written(q, p)')
    <3>1. /\ Written(q, p)' = Written(q, p) /\ Floor(p)' = Floor(p) /\ pc'[q] = pc[q]
          /\ pending'[q] = pending[q] /\ line'[q] = line[q] /\ read' = read
      BY <2>1, <2>3, <2>4, <2>5, <2>7
    <3> QED
      BY <3>1 DEF StockInv, WritesNotTooLow
  <2>10. WritesNotTooLow'
    BY <2>4, <2>8, <2>9 DEF WritesNotTooLow
  <2> QED
    BY <2>6, <2>10
<1>7. ASSUME NEW r \in Requests, Commit(r)
      PROVE  Goal
  <2>1. /\ pc[r] = "commit" /\ pc' = [pc EXCEPT ![r] = "respond"]
        /\ pending' = [pending EXCEPT ![r] = Nothing]
        /\ stock' = [p \in Products |->
                       IF p \in DOMAIN pending[r] THEN pending[r][p] ELSE stock[p]]
        /\ UNCHANGED <<cached, read, line>>
    BY <1>7 DEF Commit
  <2>2. /\ pc'[r] = "respond" /\ DOMAIN pending'[r] = {}
        /\ \A q \in Requests \ {r} : pc'[q] = pc[q] /\ pending'[q] = pending[q]
    BY <1>0a, <2>1 DEF Shape, TypeOK, Nothing
  <2>3. \A q \in Requests \ {r} : \A p : Written(q, p)' = Written(q, p)
    BY <2>1, <2>2 DEF Written, LinesOf
  <2>4. ASSUME NEW p \in Products
        PROVE  /\ IsFiniteSet(SoldLines(p)') /\ Floor(p) \in Int /\ Floor(p)' \in Int
               /\ Floor(p)' = Floor(p) - Cardinality(Written(r, p)) /\ Floor(p)' <= Floor(p)
    <3>1. /\ IsFiniteSet(SoldLines(p)')
          /\ Floor(p)' = Floor(p) - Cardinality(Written(r, p))
      BY <1>7, CommitSells
    <3>2. Floor(p) \in Int /\ Cardinality(Written(r, p)) \in Nat
      BY FloorType, LinesFinite DEF StockInv, RowsNotTooLow
    <3> QED
      BY <3>1, <3>2
  <2>5. ASSUME NEW p \in Products
        PROVE  stock'[p] >= Floor(p)'
    <3>1. /\ p \in DOMAIN pending[r] => pending[r][p] >= Floor(p)'
          /\ stock[p] >= Floor(p)
      BY <2>4 DEF StockInv, WritesNotTooLow, RowsNotTooLow
    <3>2. stock'[p] = (IF p \in DOMAIN pending[r] THEN pending[r][p] ELSE stock[p])
          /\ stock[p] \in Int
      BY <1>0a, <2>1 DEF TypeOK
    <3> QED
      BY <2>4, <3>1, <3>2
  <2>6. ASSUME NEW p \in Products, NEW q \in Requests, p \in DOMAIN cached'[q]
        PROVE  cached'[q][p] >= Floor(p)'
    <3>1. cached[q][p] >= Floor(p) /\ cached'[q][p] = cached[q][p] /\ cached[q][p] \in Int
      BY <1>0a, <2>1, <2>6 DEF StockInv, RowsNotTooLow, Shape
    <3> QED
      BY <2>4, <3>1
  <2>7. RowsNotTooLow'
    BY <2>4, <2>5, <2>6 DEF RowsNotTooLow
  <2>8. ASSUME NEW q \in Requests, NEW p \in Products
        PROVE  /\ p \in DOMAIN pending'[q] =>
                    pending'[q][p] >= Floor(p)' - Cardinality(Written(q, p)')
               /\ pc'[q] = "write" /\ Cart[q][line'[q]] = p =>
                    read'[q] >= Floor(p)' - Cardinality(Written(q, p)')
    <3>1. CASE q = r
      BY <2>2, <3>1
    <3>2. CASE q # r
      <4>1. /\ Written(q, p)' = Written(q, p) /\ pc'[q] = pc[q]
            /\ pending'[q] = pending[q] /\ line' = line /\ read' = read
        BY <2>1, <2>2, <2>3, <3>2
      <4>2. /\ p \in DOMAIN pending[q] => pending[q][p] \in Int
            /\ read[q] \in Int /\ Cardinality(Written(q, p)) \in Nat
        BY <1>0a, LinesFinite DEF TypeOK
      <4>3. /\ p \in DOMAIN pending[q] =>
                 pending[q][p] >= Floor(p) - Cardinality(Written(q, p))
            /\ pc[q] = "write" /\ Cart[q][line[q]] = p =>
                 read[q] >= Floor(p) - Cardinality(Written(q, p))
        BY DEF StockInv, WritesNotTooLow
      <4>4. \A x \in Int : x >= Floor(p) - Cardinality(Written(q, p)) =>
                             x >= Floor(p)' - Cardinality(Written(q, p))
        BY <2>4, <4>2
      <4> QED
        BY <4>1, <4>2, <4>3, <4>4
    <3> QED
      BY <3>1, <3>2
  <2>9. WritesNotTooLow'
    BY <2>8 DEF WritesNotTooLow
  <2> QED
    BY <2>7, <2>9
<1>8. ASSUME NEW r \in Requests, Respond(r) \/ BreakDeadlock(r) \/ Crash(r)
      PROVE  Goal
  BY <1>8, FinishStock DEF Respond, BreakDeadlock, Crash
<1>9. ASSUME UNCHANGED vars
      PROVE  Goal
  <2>1. \A p : SoldLines(p)' = SoldLines(p) /\ Floor(p)' = Floor(p)
    BY <1>9, FloorStays DEF vars
  <2>2. \A q \in Requests : \A p : Written(q, p)' = Written(q, p)
    BY <1>9 DEF vars, Written, LinesOf
  <2>3. UNCHANGED <<pc, cached, read, line, pending, stock>>
    BY <1>9 DEF vars
  <2>4. RowsNotTooLow'
    BY <2>1, <2>3 DEF StockInv, RowsNotTooLow
  <2>5. WritesNotTooLow'
    BY <2>1, <2>2, <2>3 DEF StockInv, WritesNotTooLow
  <2> QED
    BY <2>4, <2>5
<1> HIDE DEF Goal
<1>10. Goal
  BY <1>1, <1>2, <1>3, <1>4, <1>5, <1>6, <1>7, <1>8, <1>9, Zenon DEF Next, Step
<1> QED
  BY <1>0, <1>10 DEF StockInv, Goal

(***************************************************************************)
(* Concurrent checkouts lose updates of the quantity on hand one way only: *)
(* it may be too high, never lower than the opening stock less the lines   *)
(* of the committed invoices, whatever was rolled back, retried or lost.   *)
(***************************************************************************)
THEOREM StockOnlyTooHigh == Spec => []StockIsNeverUnderstated
<1>1. StockInv => StockIsNeverUnderstated
  BY DEF StockInv, RowsNotTooLow, Floor, StockIsNeverUnderstated
<1> QED
  BY <1>1, InitStock, NextStock, PTL DEF Spec
-----------------------------------------------------------------------------
(* Module RestaurantBilling.                                               *)

OrderRow == [status : {"none", "open", "billed", "cancelled"},
             lines : SUBSET Rounds, invoice : Bills \cup {NoInvoice}]
BillRow == [at : {"look", "invoice", "close", "done"}, order : Orders \cup {0},
            lines : SUBSET Rounds]

\* What BillingTypeOK leaves out: the shape of the requests.
BillingShape ==
  /\ order \in [Orders -> OrderRow]
  /\ round \in [Rounds -> [at : {"look", "append", "number", "create", "done"},
                           order : Orders \cup {0}]]
  /\ bill \in [Bills -> BillRow]
  /\ release \in [Releases -> [at : {"look", "cancel", "done"}, order : Orders \cup {0}]]
  /\ sales \subseteq Bills
  /\ answer \in [Bills -> Bills \cup {"none", "failed", "lost"}]

\* What a request holds.
Held ==
  /\ \A w \in Rounds : round[w].at = "append" => round[w].order \in Numbers
  /\ \A w \in Rounds : round[w].at = "create" => round[w].order \in Orders
  /\ \A b \in Bills : bill[b].at = "look" <=> bill[b].order = 0
  /\ \A b \in Bills : bill[b].order # 0 => bill[b].order \in Numbers
  /\ \A c \in Releases : release[c].at # "look" => release[c].order \in Numbers

(***************************************************************************)
(* The strengthening of BilledOrderHasItsInvoice: an attempt about to      *)
(* close its order holds a stored invoice, its own or one of its key.      *)
(***************************************************************************)
InvoiceInHand ==
  /\ \A s \in sales : bill[s].order # 0
  /\ \A b \in Bills : bill[b].at = "close" =>
       answer[b] \in sales /\ C!SameCheckout(b, answer[b])

BillingInv == BillingShape /\ Held /\ InvoiceInHand /\ BilledOrderHasItsInvoice
               /\ SoldOrderIsClosed

LEMMA BillingInitInv == BillingInit => BillingInv
<1> SUFFICES ASSUME BillingInit PROVE BillingInv
  OBVIOUS
<1> USE RestaurantBillingAssumption
<1>1. BillingShape
  BY DEF BillingInit, C!Init, BillingShape, OrderRow, BillRow
<1>2. Held /\ InvoiceInHand /\ BilledOrderHasItsInvoice /\ SoldOrderIsClosed
  BY DEF BillingInit, C!Init, Held, InvoiceInHand, BilledOrderHasItsInvoice, SoldOrderIsClosed
<1> QED
  BY <1>1, <1>2 DEF BillingInv

(***************************************************************************)
(* Orders come and change, the bills and the sales stay: no row is lost,   *)
(* a billed order keeps its invoice, and none is opened a second time.     *)
(***************************************************************************)
OrdersGrow ==
  /\ order' \in [Orders -> OrderRow]
  /\ Numbers \subseteq Numbers'
  /\ \A o \in Orders : order'[o].status = "billed" =>
       order[o].status = "billed" /\ order'[o].invoice = order[o].invoice
  /\ \A o \in Numbers : order'[o].status = "open" => order[o].status = "open"

LEMMA OrderStep ==
    ASSUME BillingInv, OrdersGrow, UNCHANGED <<bill, sales, answer>>,
           round' \in [Rounds -> [at : {"look", "append", "number", "create", "done"},
                                  order : Orders \cup {0}]],
           release' \in [Releases -> [at : {"look", "cancel", "done"}, order : Orders \cup {0}]],
           \A w \in Rounds : round'[w].at = "append" => round'[w].order \in Numbers',
           \A w \in Rounds : round'[w].at = "create" => round'[w].order \in Orders,
           \A c \in Releases : release'[c].at # "look" => release'[c].order \in Numbers'
    PROVE  BillingInv'
<1>1. BillingShape'
  BY DEF BillingInv, BillingShape, OrdersGrow
<1>2. Held'
  BY DEF BillingInv, Held, OrdersGrow
<1>3. InvoiceInHand'
  BY DEF BillingInv, InvoiceInHand, C!SameCheckout
<1>4. BilledOrderHasItsInvoice'
  BY DEF BillingInv, OrdersGrow, BilledOrderHasItsInvoice, C!SameCheckout
<1>5. SoldOrderIsClosed'
  <2>1. \A s \in sales : bill[s].order \in Numbers
    BY DEF BillingInv, BillingShape, Held, InvoiceInHand
  <2> QED
    BY <2>1 DEF BillingInv, OrdersGrow, SoldOrderIsClosed
<1> QED
  BY <1>1, <1>2, <1>3, <1>4, <1>5 DEF BillingInv

LEMMA RoundStep ==
    ASSUME BillingInv, NEW w \in Rounds,
           RoundLook(w) \/ RoundAppend(w) \/ RoundNumber(w) \/ RoundCreate(w)
    PROVE  BillingInv'
<1> DEFINE RoundRow == [at : {"look", "append", "number", "create", "done"},
                        order : Orders \cup {0}]
<1>s. /\ order \in [Orders -> OrderRow] /\ round \in [Rounds -> RoundRow]
      /\ release \in [Releases -> [at : {"look", "cancel", "done"}, order : Orders \cup {0}]]
  BY DEF BillingInv, BillingShape
<1>h. Held
  BY DEF BillingInv
<1>o. order' = order => OrdersGrow
  BY <1>s DEF OrdersGrow, Numbers
<1>r. ASSUME OrdersGrow, UNCHANGED <<bill, release, sales, answer>>,
             NEW at \in {"append", "number", "create", "done"}, NEW o \in Orders \cup {0},
             at = "append" => o \in Numbers', at = "create" => o \in Orders,
             round' = [round EXCEPT ![w] = [at |-> at, order |-> o]]
      PROVE  BillingInv'
  <2>1. [at |-> at, order |-> o] \in RoundRow
    OBVIOUS
  <2>2. round' \in [Rounds -> RoundRow]
    BY <1>r, <1>s, <2>1
  <2>3. \A v \in Rounds : /\ round'[v].at = "append" => round'[v].order \in Numbers'
                          /\ round'[v].at = "create" => round'[v].order \in Orders
    BY <1>r, <1>s, <1>h DEF Held, OrdersGrow
  <2> QED
    BY <1>r, <1>s, <1>h, <2>2, <2>3, OrderStep DEF Held, OrdersGrow
<1>e. /\ [round EXCEPT ![w].at = "number"]
           = [round EXCEPT ![w] = [at |-> "number", order |-> round[w].order]]
      /\ [round EXCEPT ![w].at = "done"]
           = [round EXCEPT ![w] = [at |-> "done", order |-> round[w].order]]
  <2>1. round[w] \in RoundRow
    BY <1>s
  <2>2. /\ [round[w] EXCEPT !.at = "number"] = [at |-> "number", order |-> round[w].order]
        /\ [round[w] EXCEPT !.at = "done"] = [at |-> "done", order |-> round[w].order]
    BY <2>1
  <2> QED
    BY <2>2, Zenon
<1>d. round[w].order \in Orders \cup {0}
  BY <1>s
<1>1. CASE RoundLook(w)
  <2>1. order' = order /\ UNCHANGED <<bill, release, sales, answer>>
    BY <1>1 DEF RoundLook
  <2>2. CASE OpenOrders # {}
    <3>1. PICK o \in OpenOrders : round' = [round EXCEPT ![w] = [at |-> "append", order |-> o]]
      BY <1>1, <2>2 DEF RoundLook
    <3>2. o \in Orders /\ o \in Numbers'
      BY <2>1, <3>1 DEF OpenOrders, Numbers
    <3> QED
      BY <1>o, <1>r, <2>1, <3>1, <3>2
  <2>3. CASE OpenOrders = {}
    <3>1. round' = [round EXCEPT ![w] = [at |-> "number", order |-> round[w].order]]
      BY <1>1, <1>e, <2>3, Zenon DEF RoundLook
    <3> QED
      BY <1>o, <1>r, <1>d, <2>1, <3>1
  <2> QED
    BY <2>2, <2>3
<1>2. CASE RoundAppend(w)
  <2> DEFINE o == round[w].order
  <2>1. o \in Numbers /\ o \in Orders
    BY <1>2, <1>h DEF RoundAppend, Held, Numbers
  <2>2. order' = [order EXCEPT ![o].lines = order[o].lines \cup {w}]
    BY <1>2 DEF RoundAppend
  <2>3. OrdersGrow
    <3> HIDE DEF o
    <3> QED
      BY <1>s, <2>1, <2>2 DEF OrdersGrow, OrderRow, Numbers
  <2>4. round' = [round EXCEPT ![w] = [at |-> "done", order |-> o]]
    BY <1>2, <1>e, Zenon DEF RoundAppend
  <2> QED
    BY <1>2, <1>r, <1>d, <2>3, <2>4 DEF RoundAppend
<1>3. CASE RoundNumber(w)
  <2>1. PICK o \in Orders : round' = [round EXCEPT ![w] = [at |-> "create", order |-> o]]
    BY <1>3 DEF RoundNumber
  <2> QED
    BY <1>3, <1>o, <1>r, <2>1 DEF RoundNumber
<1>4. CASE RoundCreate(w)
  <2> DEFINE o == round[w].order
  <2>1. o \in Orders
    BY <1>4, <1>h DEF RoundCreate, Held
  <2>2. OrdersGrow
    <3>1. CASE NumberFree(o)
      <4> DEFINE new == [status |-> "open", lines |-> {w}, invoice |-> NoInvoice]
      <4>1. new \in OrderRow /\ new.status = "open"
        BY DEF OrderRow
      <4>2. order' = [order EXCEPT ![o] = new]
        BY <1>4, <3>1 DEF RoundCreate
      <4>3. o \notin Numbers
        BY <3>1 DEF NumberFree
      <4> HIDE DEF new, o
      <4> QED
        BY <1>s, <2>1, <4>1, <4>2, <4>3 DEF OrdersGrow, Numbers
    <3>2. CASE ~NumberFree(o)
      BY <1>4, <1>o, <3>2 DEF RoundCreate
    <3> QED
      BY <3>1, <3>2
  <2>3. round' = [round EXCEPT ![w] = [at |-> "done", order |-> o]]
    BY <1>4, <1>e, Zenon DEF RoundCreate
  <2> QED
    BY <1>4, <1>r, <1>d, <2>2, <2>3 DEF RoundCreate
<1> QED
  BY <1>1, <1>2, <1>3, <1>4

LEMMA ReleaseStep ==
    ASSUME BillingInv, NEW c \in Releases, ReleaseLook(c) \/ ReleaseCancel(c)
    PROVE  BillingInv'
<1> DEFINE ReleaseRow == [at : {"look", "cancel", "done"}, order : Orders \cup {0}]
<1>s. /\ order \in [Orders -> OrderRow] /\ release \in [Releases -> ReleaseRow]
      /\ round \in [Rounds -> [at : {"look", "append", "number", "create", "done"},
                               order : Orders \cup {0}]]
  BY DEF BillingInv, BillingShape
<1>h. Held
  BY DEF BillingInv
<1>r. ASSUME OrdersGrow, UNCHANGED <<round, bill, sales, answer>>,
             NEW at \in {"cancel", "done"}, NEW o \in Orders, o \in Numbers,
             release' = [release EXCEPT ![c] = [at |-> at, order |-> o]]
      PROVE  BillingInv'
  <2>1. [at |-> at, order |-> o] \in ReleaseRow
    OBVIOUS
  <2>2. release' \in [Releases -> ReleaseRow]
    BY <1>r, <1>s, <2>1
  <2>3. \A d \in Releases : release'[d].at # "look" => release'[d].order \in Numbers'
    BY <1>r, <1>s, <1>h DEF Held, OrdersGrow
  <2> QED
    BY <1>r, <1>s, <1>h, <2>2, <2>3, OrderStep DEF Held, OrdersGrow
<1>1. CASE ReleaseLook(c)
  <2>1. PICK o \in OpenOrders : release' = [release EXCEPT ![c] = [at |-> "cancel", order |-> o]]
    BY <1>1 DEF ReleaseLook
  <2>2. OrdersGrow /\ o \in Numbers /\ o \in Orders
    BY <1>1, <1>s DEF ReleaseLook, OrdersGrow, OpenOrders, Numbers
  <2> QED
    BY <1>1, <1>r, <2>1, <2>2 DEF ReleaseLook
<1>2. CASE ReleaseCancel(c)
  <2> DEFINE o == release[c].order
  <2>1. o \in Numbers /\ o \in Orders
    BY <1>2, <1>h DEF ReleaseCancel, Held, Numbers
  <2>2. order' = [order EXCEPT ![o].status = "cancelled"]
    BY <1>2 DEF ReleaseCancel
  <2>3. OrdersGrow
    <3> HIDE DEF o
    <3> QED
      BY <1>s, <2>1, <2>2 DEF OrdersGrow, OrderRow, Numbers
  <2>4. release' = [release EXCEPT ![c] = [at |-> "done", order |-> o]]
    <3>1. release[c] \in ReleaseRow
      BY <1>s
    <3>2. [release[c] EXCEPT !.at = "done"] = [at |-> "done", order |-> release[c].order]
      BY <3>1
    <3> QED
      BY <1>2, <3>2, Zenon DEF ReleaseCancel
  <2> QED
    BY <1>2, <1>r, <2>1, <2>3, <2>4 DEF ReleaseCancel
<1> QED
  BY <1>1, <1>2

(***************************************************************************)
(* A bill request goes on; the orders stay, no sale is lost.               *)
(***************************************************************************)
LEMMA BillMoves ==
    ASSUME BillingInv, NEW b \in Bills, bill[b].at # "look",
           NEW at \in {"invoice", "close", "done"},
           bill' = [bill EXCEPT ![b].at = at]
    PROVE  /\ bill' \in [Bills -> BillRow]
           /\ \A q \in Bills : bill'[q].order = bill[q].order
           /\ bill'[b].at = at
           /\ \A q \in Bills \ {b} : bill'[q] = bill[q]
<1>1. bill \in [Bills -> BillRow]
  BY DEF BillingInv, BillingShape
<1>2. [bill[b] EXCEPT !.at = at] \in BillRow /\ [bill[b] EXCEPT !.at = at].at = at
      /\ [bill[b] EXCEPT !.at = at].order = bill[b].order
  BY <1>1 DEF BillRow
<1> QED
  BY <1>1, <1>2

LEMMA BillStep ==
    ASSUME BillingInv, UNCHANGED <<order, round, release>>, NEW b \in Bills,
           bill[b].at # "look", NEW at \in {"invoice", "close", "done"},
           bill' = [bill EXCEPT ![b].at = at],
           sales \subseteq sales', sales' \subseteq sales \cup {b},
           answer' \in [Bills -> Bills \cup {"none", "failed", "lost"}],
           \A q \in Bills \ {b} : answer'[q] = answer[q],
           at = "close" => answer'[b] \in sales' /\ C!SameCheckout(b, answer'[b]),
           at = "done" => b \notin sales' \/ b \in MayCrashBilling
    PROVE  BillingInv'
<1>1. /\ bill' \in [Bills -> BillRow]
      /\ \A q \in Bills : bill'[q].order = bill[q].order
      /\ bill'[b].at = at /\ \A q \in Bills \ {b} : bill'[q] = bill[q]
  BY BillMoves
<1>2. BillingShape'
  BY <1>1 DEF BillingInv, BillingShape
<1>3. Held'
  BY <1>1 DEF BillingInv, Held, Numbers
<1>4. InvoiceInHand'
  BY <1>1 DEF BillingInv, Held, InvoiceInHand, C!SameCheckout
<1>5. BilledOrderHasItsInvoice'
  BY <1>1 DEF BillingInv, BilledOrderHasItsInvoice, C!SameCheckout
<1>6. SoldOrderIsClosed'
  BY <1>1 DEF BillingInv, SoldOrderIsClosed
<1> QED
  BY <1>2, <1>3, <1>4, <1>5, <1>6 DEF BillingInv

LEMMA LookStep ==
    ASSUME BillingInv, NEW b \in Bills, NEW o \in Orders, BillLook(b, o)
    PROVE  BillingInv'
<1> DEFINE new == [at |-> "invoice", order |-> o, lines |-> order[o].lines]
<1>s. BillingShape
  BY DEF BillingInv
<1>1. new \in BillRow /\ new.at = "invoice" /\ new.order = o
  BY <1>s DEF BillingShape, OrderRow, BillRow
<1>2. bill' = [bill EXCEPT ![b] = new] /\ UNCHANGED <<order, round, release, sales, answer>>
  BY DEF BillLook
<1> HIDE DEF new
<1>3. /\ bill' \in [Bills -> BillRow] /\ bill'[b] = new
      /\ \A q \in Bills \ {b} : bill'[q] = bill[q]
  BY <1>s, <1>1, <1>2 DEF BillingShape
<1>4. o \in Numbers /\ o # 0 /\ bill[b].order = 0 /\ b \notin sales
  BY RestaurantBillingAssumption DEF BillLook, OpenOrders, Numbers, Orders, BillingInv, Held,
     InvoiceInHand
<1>5. BillingShape'
  BY <1>s, <1>2, <1>3 DEF BillingShape
<1>6. Held'
  BY <1>1, <1>2, <1>3, <1>4 DEF BillingInv, Held, Numbers
<1>7. InvoiceInHand'
  BY <1>s, <1>1, <1>2, <1>3, <1>4 DEF BillingInv, InvoiceInHand, BillingShape, C!SameCheckout
<1>8. BilledOrderHasItsInvoice'
  <2> SUFFICES ASSUME NEW p \in Orders, order'[p].status = "billed"
               PROVE  /\ order'[p].invoice \in sales'
                      /\ \E q \in Bills : bill'[q].order = p /\ C!SameCheckout(q, order'[p].invoice)
    BY DEF BilledOrderHasItsInvoice, C!SameCheckout
  <2>1. order'[p] = order[p] /\ p # 0
    BY <1>2 DEF Orders
  <2>2. PICK q \in Bills : bill[q].order = p /\ C!SameCheckout(q, order[p].invoice)
    BY <2>1 DEF BillingInv, BilledOrderHasItsInvoice
  <2>3. bill'[q] = bill[q]
    BY <1>3, <1>4, <2>1, <2>2
  <2> QED
    BY <1>2, <2>1, <2>2, <2>3 DEF BillingInv, BilledOrderHasItsInvoice, C!SameCheckout
<1>9. SoldOrderIsClosed'
  BY <1>2, <1>3, <1>4 DEF BillingInv, SoldOrderIsClosed
<1> QED
  BY <1>5, <1>6, <1>7, <1>8, <1>9 DEF BillingInv

LEMMA ServeStep ==
    ASSUME BillingInv, NEW b \in Bills,
           BillSell(b) \/ BillAnswered(b) \/ BillFailed(b) \/ BillCrash(b)
    PROVE  BillingInv'
<1>s. BillingShape /\ Held /\ InvoiceInHand
  BY DEF BillingInv
<1>b. bill[b].at # "look" /\ bill[b].order # 0
  BY <1>s DEF BillSell, BillAnswered, BillFailed, BillCrash, Held
<1>1. CASE BillSell(b)
  <2>1. bill[b].at = "invoice" /\ bill' = bill /\ C!Sell(b) /\ UNCHANGED <<order, round, release>>
    BY <1>1 DEF BillSell
  <2>2. bill' = [bill EXCEPT ![b].at = "invoice"]
    BY <1>s, <2>1 DEF BillingShape, BillRow
  <2> QED
    BY <1>s, <1>b, <2>1, <2>2, BillStep DEF C!Sell, BillingShape
<1>2. CASE BillAnswered(b)
  <2>1. PICK s \in sales : C!SameCheckout(b, s) /\ answer' = [answer EXCEPT ![b] = s]
    BY <1>2 DEF BillAnswered, C!Answer
  <2>2. bill' = [bill EXCEPT ![b].at = "close"] /\ UNCHANGED <<order, round, release, sales>>
    BY <1>2 DEF BillAnswered, C!Answer
  <2>3. /\ answer' \in [Bills -> Bills \cup {"none", "failed", "lost"}] /\ answer'[b] = s
        /\ \A q \in Bills \ {b} : answer'[q] = answer[q]
    BY <1>s, <2>1 DEF BillingShape
  <2> QED
    BY <1>b, <2>1, <2>2, <2>3, BillStep
<1>3. CASE BillFailed(b) \/ BillCrash(b)
  <2>1. /\ bill' = [bill EXCEPT ![b].at = "done"] /\ UNCHANGED <<order, round, release, sales>>
        /\ \/ answer' = answer
           \/ answer' = [answer EXCEPT ![b] = "failed"]
           \/ answer' = [answer EXCEPT ![b] = "lost"]
    BY <1>3 DEF BillFailed, BillCrash, C!Fail, C!Lose
  <2>2. /\ answer' \in [Bills -> Bills \cup {"none", "failed", "lost"}]
        /\ \A q \in Bills \ {b} : answer'[q] = answer[q]
    BY <1>s, <2>1 DEF BillingShape
  <2>3. b \notin sales' \/ b \in MayCrashBilling
    BY <1>3, <2>1 DEF BillFailed, BillCrash, C!Fail
  <2> QED
    BY <1>b, <2>1, <2>2, <2>3, BillStep
<1> QED
  BY <1>1, <1>2, <1>3

LEMMA CloseStep ==
    ASSUME BillingInv, NEW b \in Bills, BillClose(b)
    PROVE  BillingInv'
<1> DEFINE o == bill[b].order
           i == answer[b]
<1>s. BillingShape /\ Held /\ InvoiceInHand /\ BilledOrderHasItsInvoice /\ SoldOrderIsClosed
  BY DEF BillingInv
<1>1. /\ bill[b].at = "close" /\ UNCHANGED <<round, release, sales, answer>>
      /\ bill' = [bill EXCEPT ![b].at = "done"] /\ order' = Billed(o, i)
  BY DEF BillClose
<1>2. /\ o \in Numbers /\ o \in Orders /\ bill[b].order = o
      /\ i \in sales /\ i \in Bills /\ C!SameCheckout(b, i)
  BY <1>s, <1>1 DEF Held, InvoiceInHand, Numbers, BillingShape
<1> HIDE DEF o, i
<1>3. /\ order' \in [Orders -> OrderRow]
      /\ order'[o].status = "billed" /\ order'[o].invoice = i
      /\ \A p \in Orders \ {o} : order'[p] = order[p]
  <2>1. order \in [Orders -> OrderRow]
    BY <1>s DEF BillingShape
  <2>2. [[order[o] EXCEPT !.status = "billed"] EXCEPT !.invoice = i] \in OrderRow
    <3>1. [order[o] EXCEPT !.status = "billed"] \in OrderRow
      BY <1>2, <2>1 DEF OrderRow
    <3> DEFINE w == [order[o] EXCEPT !.status = "billed"]
    <3> HIDE DEF w
    <3>2. w \in OrderRow => [w EXCEPT !.invoice = i] \in OrderRow
      BY <1>2 DEF OrderRow
    <3> QED
      BY <3>1, <3>2 DEF w
  <2> QED
    BY <1>1, <1>2, <2>1, <2>2 DEF Billed, OrderRow
<1>4. /\ bill' \in [Bills -> BillRow] /\ \A q \in Bills : bill'[q].order = bill[q].order
      /\ bill'[b].at = "done" /\ \A q \in Bills \ {b} : bill'[q] = bill[q]
  <2>1. bill[b].at # "look"
    BY <1>1
  <2> QED
    BY <1>1, <2>1, BillMoves
<1>5. Numbers \subseteq Numbers'
  BY <1>3 DEF Numbers
<1>7. BillingShape'
  BY <1>s, <1>1, <1>3, <1>4 DEF BillingShape
<1>8. Held'
  BY <1>s, <1>1, <1>4, <1>5 DEF Held
<1>9. InvoiceInHand'
  BY <1>s, <1>1, <1>4 DEF InvoiceInHand, C!SameCheckout, BillingShape
<1>10. BilledOrderHasItsInvoice'
  BY <1>s, <1>1, <1>2, <1>3, <1>4 DEF BilledOrderHasItsInvoice, C!SameCheckout
<1>11. SoldOrderIsClosed'
  <2> SUFFICES ASSUME NEW s \in sales', s \notin MayCrashBilling,
                      order'[bill'[s].order].status = "open"
               PROVE  bill'[s].at \in {"invoice", "close"}
    BY DEF SoldOrderIsClosed
  <2>1. s \in sales /\ s \in Bills /\ bill'[s].order = bill[s].order
    BY <1>s, <1>1, <1>4 DEF BillingShape
  <2>2. bill[s].order # o /\ bill[s].order \in Orders
    BY <1>s, <1>3, <2>1 DEF Held, InvoiceInHand, Numbers
  <2>3. s # b /\ order'[bill[s].order] = order[bill[s].order]
    BY <1>2, <1>3, <2>2
  <2> QED
    BY <1>s, <1>4, <2>1, <2>3 DEF SoldOrderIsClosed
<1> QED
  BY <1>7, <1>8, <1>9, <1>10, <1>11 DEF BillingInv

LEMMA BillingNextInv == BillingInv /\ [BillingNext]_billingVars => BillingInv'
<1> SUFFICES ASSUME BillingInv, [BillingNext]_billingVars PROVE BillingInv'
  OBVIOUS
<1>1. CASE UNCHANGED billingVars
  <2>1. UNCHANGED <<round, release, bill, sales, answer>> /\ OrdersGrow
    BY <1>1 DEF billingVars, BillingInv, BillingShape, OrdersGrow, Numbers
  <2> QED
    BY <2>1, OrderStep DEF BillingInv, BillingShape, Held, OrdersGrow
<1>2. CASE BillingNext
  BY <1>2, RoundStep, ReleaseStep, LookStep, ServeStep, CloseStep DEF BillingNext
<1> QED
  BY <1>1, <1>2

(***************************************************************************)
(* Every variable has its type, and no request holds an order that was     *)
(* never opened.                                                           *)
(***************************************************************************)
THEOREM BillingTypeCorrect == BillingSpec => []BillingTypeOK
<1>1. BillingInv => BillingTypeOK
  BY DEF BillingInv, BillingShape, Held, BillingTypeOK, OrderRow, BillRow
<1> QED
  BY <1>1, BillingInitInv, BillingNextInv, PTL DEF BillingSpec

(***************************************************************************)
(* However rounds, bills and releases of a table interleave, whoever dies, *)
(* and whichever orders a key is sent for, a billed order names a stored   *)
(* invoice, its own or that of a checkout whose key it repeated: bill_order *)
(* composed with what create_invoice promises.                             *)
(***************************************************************************)
THEOREM BilledOrdersAreInvoiced == BillingSpec => []BilledOrderHasItsInvoice
<1>1. BillingInv => BilledOrderHasItsInvoice
  BY DEF BillingInv
<1> QED
  BY <1>1, BillingInitInv, BillingNextInv, PTL DEF BillingSpec

(***************************************************************************)
(* Between bill_order's two commits an order is charged and open; only a   *)
(* server that dies leaves it so, and no round opens it again.             *)
(***************************************************************************)
THEOREM SoldOrdersAreClosed == BillingSpec => []SoldOrderIsClosed
<1>1. BillingInv => SoldOrderIsClosed
  BY DEF BillingInv
<1> QED
  BY <1>1, BillingInitInv, BillingNextInv, PTL DEF BillingSpec

(***************************************************************************)
(* Only a repeated key leaves a billed order uncharged: when no request    *)
(* carries one (the page of a single order sends none) bill_order turns    *)
(* every order it closes into an invoice of that order.                    *)
(***************************************************************************)
THEOREM KeylessBillsCharge ==
    ASSUME \A b \in Bills : BillKey[b] = NoBillKey
    PROVE  BillingSpec => []EveryBilledOrderIsCharged
<1>1. BillingInv => EveryBilledOrderIsCharged
  BY DEF BillingInv, BillingShape, BilledOrderHasItsInvoice, C!SameCheckout, EveryBilledOrderIsCharged,
     SalesOf
<1> QED
  BY <1>1, BillingInitInv, BillingNextInv, PTL DEF BillingSpec
=============================================================================
