------------------------- MODULE IdempotentCheckout -------------------------
(***************************************************************************)
(* What create_invoice (backend/app/modules/sales/service.py) promises its *)
(* callers: a checkout with an idempotency key is charged at most once     *)
(* however often it is sent, every attempt that gets an invoice gets that  *)
(* one, and an attempt that is told it failed was not charged itself.      *)
(***************************************************************************)
CONSTANTS
  Requests,  \* checkout requests received by the server
  Key,       \* [Requests -> idempotency key, or NoKey]
  NoKey

VARIABLES
  sales,   \* the requests an invoice was stored for
  answer   \* what the client of a request got: a sale, "failed", or nothing

vars == <<sales, answer>>

Init == sales = {} /\ answer = [r \in Requests |-> "none"]

SameCheckout(r, s) == r = s \/ (Key[r] # NoKey /\ Key[r] = Key[s])

Sell(r) ==
  /\ answer[r] = "none"
  /\ \A s \in sales : ~SameCheckout(r, s)
  /\ sales' = sales \cup {r}
  /\ UNCHANGED answer

Answer(r) ==
  /\ answer[r] = "none"
  /\ \E s \in sales : SameCheckout(r, s) /\ answer' = [answer EXCEPT ![r] = s]
  /\ UNCHANGED sales

Fail(r) ==
  /\ answer[r] = "none" /\ r \notin sales
  /\ answer' = [answer EXCEPT ![r] = "failed"]
  /\ UNCHANGED sales

\* The server dies on the request; its sale may be stored or not.
Lose(r) ==
  /\ answer[r] = "none"
  /\ answer' = [answer EXCEPT ![r] = "lost"]
  /\ UNCHANGED sales

Next == \E r \in Requests : Sell(r) \/ Answer(r) \/ Fail(r) \/ Lose(r)

Spec == Init /\ [][Next]_vars

(***************************************************************************)
(* No two stored sales belong to the same checkout.                        *)
(***************************************************************************)
ChargedOnce == \A r, s \in sales : SameCheckout(r, s) => r = s
=============================================================================
