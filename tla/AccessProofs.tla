---------------------------- MODULE AccessProofs ----------------------------
(***************************************************************************)
(* Theorems about the two modules of access to the application: Session,   *)
(* the tokens a browser holds and the requests it retries, and             *)
(* Subscription, the shop's plan and the gate behind sign-in.  Any slots,  *)
(* workers, orders and payments.                                           *)
(***************************************************************************)
EXTENDS Session, Subscription, SequenceTheorems, TLAPS

-----------------------------------------------------------------------------
(* Module Session.                                                         *)

(***************************************************************************)
(* What a request knows when n pairs were issued: it was carried out only   *)
(* if its answer says so, it was answered 200 or 402 only with a token, and *)
(* it refreshes only with one.                                             *)
(***************************************************************************)
RequestOK(r, n) ==
    /\ r \in Request /\ r.with <= n /\ r.tok <= n
    /\ r.ran = 0 \/ (r.ran = 1 /\ r.st = "answered" /\ r.status = 200)
    /\ r.st = "answered" /\ r.status \in {200, 402} => r.with # 0
    /\ r.st \in {"refreshing", "rotating", "rotated"} => r.tok # 0

TokensOK ==
    /\ issued \in Seq(Pair) /\ Len(issued) <= MaxPairs
    /\ \A p \in Pairs : issued[p].revokedAt <= Len(issued)

CutoffOK ==
    /\ cutoff \in [Accounts -> 0..MaxPairs]
    /\ \A a \in Accounts : cutoff[a] <= Len(issued)

BrowserOK ==
    /\ store \in Pairs \union {0}
    /\ user \in Accounts \union {None}
    /\ gate \in Accounts \union {None}
    /\ leaving \in BOOLEAN

RequestsOK ==
    /\ req \in [Slots -> Request]
    /\ \A s \in Slots : RequestOK(req[s], Len(issued))

(***************************************************************************)
(* The inductive invariant.  A condemned pair stays dead because cutoffs    *)
(* only rise, which they do because none lies in the future.                *)
(***************************************************************************)
SessionInv ==
    /\ TokensOK /\ CutoffOK /\ BrowserOK /\ RequestsOK
    /\ successor \subseteq Pairs
    /\ dead \subseteq Pairs /\ ReplayedChainIsDead

(***************************************************************************)
(* What every step does to the pairs: none disappears or changes hands, and *)
(* a revoked one stays revoked.                                            *)
(***************************************************************************)
Grows ==
    /\ TokensOK' /\ Len(issued) <= Len(issued')
    /\ \A p \in Pairs :
          /\ issued'[p].who = issued[p].who
          /\ issued[p].refresh = "revoked" => issued'[p].refresh = "revoked"

(***************************************************************************)
(* A pair is a record of its fields.                                       *)
(***************************************************************************)
LEMMA PairFields ==
    ASSUME TokensOK, NEW p \in Pairs
    PROVE  /\ issued[p] \in Pair /\ issued[p].who \in Accounts
           /\ issued[p].revokedAt \in 0..Len(issued)
           /\ Len(issued) \in Nat
<1>1. issued[p] \in Pair /\ Len(issued) \in Nat
  BY DEF TokensOK, Pairs
<1> QED
  BY <1>1 DEF TokensOK, Pair

(***************************************************************************)
(* Revoking keeps every pair where it was.                                 *)
(***************************************************************************)
LEMMA RevokeKeeps ==
    ASSUME TokensOK, NEW T
    PROVE  /\ Revoke(T) \in Seq(Pair) /\ Len(Revoke(T)) = Len(issued)
           /\ \A p \in Pairs :
                 /\ Revoke(T)[p] \in Pair
                 /\ Revoke(T)[p].who = issued[p].who
                 /\ Revoke(T)[p].revokedAt <= Len(issued)
                 /\ issued[p].refresh = "revoked" \/ p \in T => Revoke(T)[p].refresh = "revoked"
<1>1. Len(issued) \in Nat /\ Len(issued) \in 0..MaxPairs
  BY SessionAssumption DEF TokensOK, SessionAssumption
<1>2. ASSUME NEW p \in Pairs
      PROVE  /\ Revoke(T)[p] \in Pair
             /\ Revoke(T)[p].who = issued[p].who
             /\ Revoke(T)[p].revokedAt <= Len(issued)
             /\ issued[p].refresh = "revoked" \/ p \in T => Revoke(T)[p].refresh = "revoked"
  <2>1. issued[p] \in Pair /\ issued[p].revokedAt <= Len(issued)
    BY <1>2, PairFields DEF TokensOK
  <2>2. CASE p \in T
    <3>1. Revoke(T)[p] = [issued[p] EXCEPT !.refresh = "revoked", !.revokedAt = Len(issued)]
      BY <2>2 DEF Revoke
    <3>2. Revoke(T)[p] = [who |-> issued[p].who, access |-> issued[p].access,
                          refresh |-> "revoked", revokedAt |-> Len(issued)]
      BY <2>1, <3>1 DEF Pair
    <3> QED
      BY <1>1, <2>1, <3>2 DEF Pair
  <2>3. CASE p \notin T
    BY <2>1, <2>3 DEF Revoke
  <2> QED
    BY <2>2, <2>3
<1>3. Revoke(T) \in [1..Len(issued) -> Pair]
  BY <1>2 DEF Revoke, Pairs
<1>4. Revoke(T) \in Seq(Pair) /\ Len(Revoke(T)) = Len(issued)
  BY <1>1, <1>3
<1> QED
  BY <1>2, <1>4

(***************************************************************************)
(* A new pair is the last one.                                             *)
(***************************************************************************)
LEMMA IssueKeeps ==
    ASSUME NEW old \in Seq(Pair), NEW a \in Accounts
    PROVE  LET new == Append(old, issue_tokens(a)) IN
           /\ new \in Seq(Pair) /\ Len(new) = Len(old) + 1
           /\ \A p \in 1..Len(old) : new[p] = old[p]
           /\ new[Len(old) + 1] = issue_tokens(a) /\ issue_tokens(a).revokedAt = 0
<1>1. issue_tokens(a) \in Pair
  BY SessionAssumption DEF issue_tokens, Pair, SessionAssumption
<1> QED
  BY <1>1 DEF issue_tokens

(***************************************************************************)
(* The four ways the pairs change.                                         *)
(***************************************************************************)
LEMMA SameGrows ==
    ASSUME TokensOK, UNCHANGED issued
    PROVE  Grows
<1>1. Len(issued) \in Nat
  BY DEF TokensOK
<1> QED
  BY <1>1 DEF Grows, TokensOK, Pairs

LEMMA RevokeGrows ==
    ASSUME TokensOK, NEW T, issued' = Revoke(T)
    PROVE  /\ Grows /\ Len(issued') = Len(issued)
           /\ \A p \in Pairs \intersect T : issued'[p].refresh = "revoked"
<1>1. Len(issued) \in Nat
  BY DEF TokensOK
<1> QED
  BY <1>1, RevokeKeeps DEF Grows, TokensOK, Pairs

LEMMA IssueGrows ==
    ASSUME TokensOK, NEW a \in Accounts, NEW old \in Seq(Pair), Len(old) = Len(issued),
           Len(issued) < MaxPairs, issued' = Append(old, issue_tokens(a)),
           \A p \in Pairs : /\ old[p].who = issued[p].who
                            /\ old[p].revokedAt <= Len(issued)
                            /\ issued[p].refresh = "revoked" => old[p].refresh = "revoked"
    PROVE  /\ Grows /\ Len(issued') = Len(issued) + 1
           /\ issued'[Len(issued) + 1].who = a
<1>1. Len(issued) \in Nat /\ Len(issued) + 1 <= MaxPairs
  BY SessionAssumption DEF TokensOK, SessionAssumption
<1>2. /\ issued' \in Seq(Pair) /\ Len(issued') = Len(issued) + 1
      /\ \A p \in Pairs : issued'[p] = old[p]
      /\ issued'[Len(issued) + 1] = issue_tokens(a) /\ issue_tokens(a).revokedAt = 0
  BY <1>1, IssueKeeps DEF Pairs
<1>3. Pairs' = Pairs \union {Len(issued) + 1}
  BY <1>1, <1>2 DEF Pairs
<1>4. Pairs \subseteq 1..Len(issued) /\ \A p \in Pairs : issued'[p].revokedAt <= Len(issued')
  <2> SUFFICES ASSUME NEW p \in Pairs PROVE issued'[p].revokedAt <= Len(issued')
    BY DEF Pairs
  <2>1. old[p] \in Pair
    BY DEF Pairs
  <2>2. old[p].revokedAt \in Nat
    BY <2>1, SessionAssumption DEF Pair, SessionAssumption
  <2>3. old[p].revokedAt <= Len(issued) /\ issued'[p].revokedAt = old[p].revokedAt
    BY <1>2
  <2> QED
    BY <1>1, <1>2, <2>2, <2>3
<1>5. TokensOK'
  BY <1>1, <1>2, <1>3, <1>4 DEF TokensOK
<1>6. issue_tokens(a).who = a
  BY DEF issue_tokens
<1>7. \A p \in Pairs : /\ issued'[p].who = issued[p].who
                       /\ issued[p].refresh = "revoked" => issued'[p].refresh = "revoked"
  BY <1>2
<1>8. Grows
  <2>1. Len(issued) <= Len(issued')
    BY <1>1, <1>2
  <2> QED
    BY <2>1, <1>5, <1>7 DEF Grows
<1> QED
  BY <1>2, <1>6, <1>8

LEMMA ExpireGrows ==
    ASSUME TokensOK, NEW p \in Pairs, Expire(p)
    PROVE  Grows
<1>1. Len(issued) \in Nat /\ issued \in [1..Len(issued) -> Pair]
  BY DEF TokensOK
<1>2. issued' = [issued EXCEPT ![p] = [issued[p] EXCEPT !.access = "expired"]]
  BY DEF Expire
<1>3. [issued[p] EXCEPT !.access = "expired"] \in Pair
  BY PairFields DEF Pair
<1>4. issued' \in Seq(Pair) /\ Len(issued') = Len(issued)
  BY <1>1, <1>2, <1>3, ExceptSeq DEF TokensOK, Pairs
<1>5. \A q \in Pairs : /\ issued'[q].who = issued[q].who
                       /\ issued'[q].refresh = issued[q].refresh
                       /\ issued'[q].revokedAt = issued[q].revokedAt
  <2> TAKE q \in Pairs
  <2>1. issued[q] \in Pair
    BY PairFields
  <2> QED
    BY <1>1, <1>2, <2>1 DEF Pair, Pairs
<1> QED
  BY <1>1, <1>4, <1>5 DEF Grows, TokensOK, Pairs

(***************************************************************************)
(* What a step that leaves the cutoffs alone keeps, whatever it does to the *)
(* pairs and to one of the requests.                                       *)
(***************************************************************************)
LEMMA GrowthKeeps ==
    ASSUME SessionInv, Grows
    PROVE  /\ Pairs \subseteq Pairs'
           /\ \A s \in Slots : RequestOK(req[s], Len(issued'))
           /\ \A a \in Accounts : cutoff[a] <= Len(issued')
<1>1. Len(issued) \in Nat /\ Len(issued') \in Nat /\ Len(issued) <= Len(issued')
  BY DEF SessionInv, TokensOK, Grows
<1>2. \A s \in Slots : RequestOK(req[s], Len(issued')) 
  <2> TAKE s \in Slots
  <2>1. RequestOK(req[s], Len(issued)) /\ req[s].with \in Nat /\ req[s].tok \in Nat
    BY SessionAssumption DEF SessionInv, RequestsOK, RequestOK, Request, SessionAssumption
  <2> QED
    BY <1>1, <2>1 DEF RequestOK
<1>3. \A a \in Accounts : cutoff[a] \in Nat /\ cutoff[a] <= Len(issued)
  BY SessionAssumption DEF SessionInv, CutoffOK, SessionAssumption
<1> QED
  BY <1>1, <1>2, <1>3 DEF Pairs

LEMMA DeadStayDead ==
    ASSUME SessionInv, Grows, UNCHANGED <<cutoff, dead>>
    PROVE  CutoffOK' /\ dead' \subseteq Pairs' /\ ReplayedChainIsDead'
<1>1. CutoffOK' /\ dead' \subseteq Pairs'
  BY GrowthKeeps DEF SessionInv, CutoffOK
<1>2. \A p \in dead : p \in Pairs /\ ~Current(p) /\ issued[p].refresh = "revoked"
  BY DEF SessionInv, ReplayedChainIsDead
<1> QED
  BY <1>1, <1>2 DEF Grows, ReplayedChainIsDead, Current

(***************************************************************************)
(* The rest of the state, when a step leaves it alone or gives one request  *)
(* a new value.                                                            *)
(***************************************************************************)
LEMMA BrowserKeeps ==
    ASSUME SessionInv, Grows, UNCHANGED auth
    PROVE  BrowserOK'
BY GrowthKeeps DEF SessionInv, BrowserOK, auth

LEMMA OneRequest ==
    ASSUME SessionInv, Grows, NEW s \in Slots, NEW r, RequestOK(r, Len(issued')),
           req' = [req EXCEPT ![s] = r]
    PROVE  RequestsOK'
<1>1. req \in [Slots -> Request] /\ r \in Request
  BY DEF SessionInv, RequestsOK, RequestOK
<1>2. req' \in [Slots -> Request]
  BY <1>1
<1>3. ASSUME NEW t \in Slots PROVE RequestOK(req'[t], Len(issued'))
  BY <1>1, GrowthKeeps
<1> QED
  BY <1>2, <1>3 DEF RequestsOK

LEMMA SameRequests ==
    ASSUME SessionInv, Grows, UNCHANGED req
    PROVE  RequestsOK'
BY GrowthKeeps DEF SessionInv, RequestsOK

LEMMA NoRequest ==
    ASSUME NEW n \in Nat
    PROVE  RequestOK(Idle, n)
BY SessionAssumption DEF RequestOK, Request, Idle, Kinds, Stages, SessionAssumption

(***************************************************************************)
(* The fields of a request, and of the request after some of them changed.  *)
(***************************************************************************)
LEMMA RequestFields ==
    ASSUME SessionInv, NEW s \in Slots
    PROVE  /\ RequestOK(req[s], Len(issued)) /\ req[s] \in Request
           /\ req[s].with \in 0..Len(issued) /\ req[s].tok \in 0..Len(issued)
           /\ req[s].ran \in Nat /\ Len(issued) \in 0..MaxPairs /\ Len(issued) \in Nat
<1>1. RequestOK(req[s], Len(issued)) /\ Len(issued) \in Nat /\ Len(issued) <= MaxPairs
  BY DEF SessionInv, RequestsOK, TokensOK
<1> QED
  BY <1>1, SessionAssumption DEF RequestOK, Request, SessionAssumption

LEMMA Staged ==
    ASSUME SessionInv, NEW s \in Slots, NEW st \in Stages, NEW tok \in 0..MaxPairs,
           NEW n \in Nat, Len(issued) <= n, tok <= n,
           st = "answered" <=> req[s].st = "answered",
           st \in {"refreshing", "rotating", "rotated"} => tok # 0
    PROVE  RequestOK([req[s] EXCEPT !.st = st, !.tok = tok], n)
<1>1. req[s] \in Request /\ RequestOK(req[s], Len(issued))
  BY RequestFields
<1> DEFINE r == [req[s] EXCEPT !.st = st, !.tok = tok]
<1>2. /\ r \in Request /\ r.with = req[s].with /\ r.tok = tok /\ r.ran = req[s].ran
      /\ r.st = st /\ r.status = req[s].status
  BY <1>1 DEF Request
<1>3. r.with <= n
  BY <1>2, RequestFields
<1> HIDE DEF r
<1> QED
  BY <1>1, <1>2, <1>3 DEF RequestOK, r

(***************************************************************************)
(* Every step of the browser and of the backend keeps the invariant.       *)
(***************************************************************************)
LEMMA InitSession == Init => SessionInv
<1> SUFFICES ASSUME Init PROVE SessionInv
  OBVIOUS
<1>1. Len(issued) = 0 /\ issued \in Seq(Pair)
  BY DEF Init
<1>2. MaxPairs \in Nat
  BY SessionAssumption DEF SessionAssumption
<1>3. RequestsOK
  <2>1. RequestOK(Idle, 0) /\ Idle \in Request
    BY NoRequest DEF RequestOK
  <2> QED
    BY <1>1, <2>1 DEF Init, RequestsOK
<1>4. TokensOK
  BY <1>1, <1>2 DEF TokensOK, Pairs
<1>5. CutoffOK
  <2>1. cutoff = [a \in Accounts |-> 0]
    BY DEF Init
  <2> QED
    BY <1>1, <1>2, <2>1 DEF CutoffOK
<1>6. BrowserOK
  BY DEF Init, BrowserOK
<1> QED
  BY <1>3, <1>4, <1>5, <1>6 DEF Init, SessionInv, ReplayedChainIsDead

LEMMA LoginStep ==
    ASSUME SessionInv, NEW a \in Accounts, login(a)
    PROVE  SessionInv'
<1>1. Grows /\ Len(issued') = Len(issued) + 1 /\ Len(issued) \in Nat
  <2>1. Len(issued) \in Nat /\ issued \in Seq(Pair) /\ \A p \in Pairs : issued[p].revokedAt <= Len(issued)
    BY DEF SessionInv, TokensOK
  <2> QED
    BY <2>1, IssueGrows DEF SessionInv, login
<1>2. BrowserOK'
  <2>1. Len(issued) + 1 \in Pairs' /\ Pairs \subseteq Pairs'
    BY <1>1, GrowthKeeps DEF Pairs
  <2> QED
    BY <2>1 DEF SessionInv, BrowserOK, login
<1> QED
  BY <1>1, <1>2, DeadStayDead, SameRequests, GrowthKeeps DEF SessionInv, login, Grows

LEMMA LogoutStep ==
    ASSUME SessionInv, logout
    PROVE  SessionInv'
<1>1. Grows
  <2>1. CASE UNCHANGED issued
    BY <2>1, SameGrows DEF SessionInv
  <2>2. CASE store # 0 /\ issued' = Revoke({store} \intersect LiveOf(issued[store].who))
    BY <2>2, RevokeGrows DEF SessionInv
  <2> QED
    BY <2>1, <2>2 DEF logout
<1>2. BrowserOK'
  BY <1>1, GrowthKeeps DEF SessionInv, BrowserOK, logout
<1> QED
  BY <1>1, <1>2, DeadStayDead, SameRequests, GrowthKeeps DEF SessionInv, logout, Grows

LEMMA QuietStep ==
    ASSUME SessionInv, UNCHANGED server, BrowserOK', RequestsOK'
    PROVE  SessionInv'
<1>1. Grows
  BY SameGrows DEF SessionInv, server
<1> QED
  BY <1>1, DeadStayDead, GrowthKeeps DEF SessionInv, server, Grows

LEMMA SignedOutStep ==
    ASSUME SessionInv, SignedOut
    PROVE  SessionInv'
<1>1. BrowserOK' /\ RequestsOK' /\ UNCHANGED server
  BY DEF SessionInv, BrowserOK, RequestsOK, SignedOut, server, Pairs
<1> QED
  BY <1>1, QuietStep

LEMMA UsageStep ==
    ASSUME SessionInv, UsageLoaded
    PROVE  SessionInv'
<1>1. store \in Pairs
  BY DEF SessionInv, BrowserOK, UsageLoaded
<1>2. issued[store].who \in Accounts
  BY <1>1, PairFields DEF SessionInv
<1>3. BrowserOK' /\ RequestsOK' /\ UNCHANGED server
  BY <1>1, <1>2 DEF SessionInv, BrowserOK, RequestsOK, UsageLoaded, server, Pairs
<1> QED
  BY <1>3, QuietStep

LEMMA Asked ==
    ASSUME SessionInv, NEW kind \in Kinds
    PROVE  RequestOK([Idle EXCEPT !.st = "sent", !.kind = kind, !.with = store], Len(issued))
<1>1. /\ Len(issued) \in Nat /\ MaxPairs \in Nat
      /\ store \in 0..MaxPairs /\ store <= Len(issued)
  BY SessionAssumption DEF SessionInv, TokensOK, BrowserOK, SessionAssumption, Pairs
<1> DEFINE r == [Idle EXCEPT !.st = "sent", !.kind = kind, !.with = store]
<1>2. RequestOK(Idle, Len(issued)) /\ Idle \in Request /\ Idle.ran = 0 /\ Idle.tok = 0
  BY <1>1, NoRequest DEF RequestOK, Idle
<1>3. r \in Request /\ r.st = "sent" /\ r.with = store /\ r.tok = Idle.tok /\ r.ran = Idle.ran
  BY <1>1, <1>2 DEF Request, Stages
<1> HIDE DEF r
<1>4. RequestOK(r, Len(issued))
  BY <1>1, <1>2, <1>3 DEF RequestOK
<1> QED
  BY <1>4 DEF r

LEMMA ReloadStep ==
    ASSUME SessionInv, NEW s \in Slots, Reload(s)
    PROVE  SessionInv'
<1>1. UNCHANGED server /\ BrowserOK'
  BY DEF SessionInv, BrowserOK, Reload, server, Pairs
<1>2. Len(issued) \in Nat /\ Len(issued) <= MaxPairs /\ MaxPairs \in Nat
  BY SessionAssumption DEF SessionInv, TokensOK, SessionAssumption
<1>3. RequestOK(Idle, Len(issued))
  BY <1>2, NoRequest
<1>4. RequestOK([Idle EXCEPT !.st = "sent", !.kind = "me", !.with = store], Len(issued))
  BY Asked DEF Kinds
<1>5. RequestsOK'
  <2>1. req' \in [Slots -> Request]
    BY <1>3, <1>4 DEF Reload, RequestOK
  <2>2. \A t \in Slots : RequestOK(req'[t], Len(issued))
    BY <1>3, <1>4 DEF Reload
  <2> QED
    BY <1>1, <2>1, <2>2 DEF RequestsOK, server
<1> QED
  BY <1>1, <1>5, QuietStep

LEMMA SendStep ==
    ASSUME SessionInv, NEW s \in Slots, NEW kind \in Kinds, Send(s, kind)
    PROVE  SessionInv'
<1>1. UNCHANGED <<server, auth>>
  BY DEF Send
<1>2. Grows
  BY <1>1, SameGrows DEF SessionInv, server
<1>4. RequestOK([Idle EXCEPT !.st = "sent", !.kind = kind, !.with = store], Len(issued))
  BY Asked
<1>5. RequestsOK'
  BY <1>1, <1>2, <1>4, OneRequest DEF Send, server
<1> QED
  BY <1>1, <1>2, <1>5, BrowserKeeps, QuietStep

LEMMA ExpireStep ==
    ASSUME SessionInv, NEW p \in Pairs, Expire(p)
    PROVE  SessionInv'
<1>1. Grows
  BY ExpireGrows DEF SessionInv
<1> QED
  BY <1>1, DeadStayDead, SameRequests, BrowserKeeps, GrowthKeeps DEF SessionInv, Expire, Grows

(***************************************************************************)
(* A request that ended.                                                   *)
(***************************************************************************)
LEMMA Ended ==
    ASSUME SessionInv, NEW s \in Slots, UNCHANGED server, req' = [req EXCEPT ![s] = Idle]
    PROVE  RequestsOK'
<1>1. Grows
  BY SameGrows DEF SessionInv, server
<1>2. RequestOK(Idle, Len(issued'))
  BY <1>1, NoRequest DEF Grows, TokensOK
<1> QED
  BY <1>1, <1>2, OneRequest

LEMMA LostStep ==
    ASSUME SessionInv, NEW s \in Slots, Lost(s)
    PROVE  SessionInv'
<1>1. UNCHANGED server /\ BrowserOK'
  BY DEF SessionInv, BrowserOK, Lost, Fails, server, Pairs
<1> QED
  BY <1>1, Ended, QuietStep DEF Lost, Fails

LEMMA SucceededStep ==
    ASSUME SessionInv, NEW s \in Slots, Succeeded(s)
    PROVE  SessionInv'
<1>1. req[s].with \in Pairs /\ req[s].tok \in Pairs \union {0}
  BY RequestFields DEF Succeeded, RequestOK, Pairs
<1>2. issued[req[s].with].who \in Accounts
  BY <1>1, PairFields DEF SessionInv
<1>3. UNCHANGED server /\ BrowserOK'
  BY <1>1, <1>2 DEF SessionInv, BrowserOK, Succeeded, server, Pairs
<1> QED
  BY <1>3, Ended, QuietStep DEF Succeeded

LEMMA RequiredStep ==
    ASSUME SessionInv, NEW s \in Slots, SubscriptionRequired(s)
    PROVE  SessionInv'
<1>1. req[s].with \in Pairs
  BY RequestFields DEF SubscriptionRequired, RequestOK, Pairs
<1>2. issued[req[s].with].who \in Accounts
  BY <1>1, PairFields DEF SessionInv
<1>3. UNCHANGED server /\ BrowserOK'
  BY <1>1, <1>2 DEF SessionInv, BrowserOK, SubscriptionRequired, Fails, server, Pairs
<1> QED
  BY <1>3, Ended, QuietStep DEF SubscriptionRequired, Fails

LEMMA UnauthorizedStep ==
    ASSUME SessionInv, NEW s \in Slots, Unauthorized(s)
    PROVE  SessionInv'
<1>1. UNCHANGED server /\ BrowserOK'
  BY DEF SessionInv, BrowserOK, Unauthorized, Fails, server, Pairs
<1>2. CASE req' = [req EXCEPT ![s] = Idle]
  BY <1>1, <1>2, Ended, QuietStep
<1>3. CASE /\ store # 0
           /\ req' = [req EXCEPT ![s] = [@ EXCEPT !.st = "refreshing", !.status = 0,
                                                 !.with = 0, !.tok = store]]
  <2> DEFINE r == [req[s] EXCEPT !.st = "refreshing", !.status = 0, !.with = 0, !.tok = store]
  <2>1. /\ Len(issued) \in Nat /\ MaxPairs \in Nat
        /\ store \in 0..MaxPairs /\ store <= Len(issued)
    BY SessionAssumption DEF SessionInv, TokensOK, BrowserOK, SessionAssumption, Pairs
  <2>2. req[s] \in Request /\ req[s].ran = 0 /\ req \in [Slots -> Request]
    BY RequestFields DEF Unauthorized, RequestOK, SessionInv, RequestsOK
  <2>3. /\ r \in Request /\ r.st = "refreshing" /\ r.with = 0 /\ r.tok = store
        /\ r.ran = req[s].ran
    <3>1. r.st = "refreshing" /\ r.with = 0 /\ r.tok = store /\ r.ran = req[s].ran
      BY <2>2 DEF Request
    <3> DEFINE q == [req[s] EXCEPT !.st = "refreshing"]
               u == [q EXCEPT !.status = 0]
    <3>2. q \in Request
      BY <2>2 DEF Request, Stages
    <3> HIDE DEF q
    <3>3. u \in Request
      BY <3>2 DEF Request
    <3> HIDE DEF u
    <3> DEFINE v == [u EXCEPT !.with = 0]
    <3>4. v \in Request
      BY <2>1, <3>3 DEF Request
    <3> HIDE DEF v
    <3>5. [v EXCEPT !.tok = store] \in Request
      BY <2>1, <3>4 DEF Request
    <3> QED
      BY <3>1, <3>5 DEF v, u, q
  <2>4. req' = [req EXCEPT ![s] = r]
    BY <1>3, <2>2
  <2> HIDE DEF r
  <2>5. RequestOK(r, Len(issued))
    BY <1>3, <2>1, <2>2, <2>3 DEF RequestOK
  <2>6. RequestsOK'
    BY <1>1, <2>4, <2>5, SameGrows, OneRequest DEF SessionInv, server
  <2> QED
    BY <1>1, <2>6, QuietStep
<1> QED
  BY <1>2, <1>3 DEF Unauthorized, Fails

(***************************************************************************)
(* A pair that was presented again: everything its account was issued      *)
(* before lies below the new cutoff and is revoked.                        *)
(***************************************************************************)
LEMMA ReplayKills ==
    ASSUME SessionInv, NEW p \in Pairs, Grows, Len(issued') = Len(issued),
           NEW a, a = issued[p].who,
           dead' = dead \union {q \in 1..issued[p].revokedAt : issued[q].who = a},
           cutoff' = [cutoff EXCEPT ![a] = ReplayCutoff(p)],
           issued' = Revoke(LiveOf(a))
    PROVE  CutoffOK' /\ dead' \subseteq Pairs' /\ ReplayedChainIsDead'
<1>1. /\ a \in Accounts /\ Len(issued) \in Nat /\ MaxPairs \in Nat
      /\ issued[p].revokedAt \in 0..Len(issued) /\ Len(issued) <= MaxPairs
  BY PairFields, SessionAssumption DEF SessionInv, TokensOK, SessionAssumption
<1>2. cutoff \in [Accounts -> 0..MaxPairs] /\ \A b \in Accounts : cutoff[b] \in 0..Len(issued)
  BY <1>1 DEF SessionInv, CutoffOK
<1>3. /\ ReplayCutoff(p) \in 0..Len(issued)
      /\ cutoff[a] <= ReplayCutoff(p) /\ issued[p].revokedAt <= ReplayCutoff(p)
  BY <1>1, <1>2 DEF ReplayCutoff
<1>4. CutoffOK'
  BY <1>1, <1>2, <1>3 DEF CutoffOK
<1>5. \A b \in Accounts : cutoff[b] <= cutoff'[b] /\ cutoff'[b] \in Nat
  BY <1>1, <1>2, <1>3
<1>6. ASSUME NEW q \in dead'
      PROVE  q \in Pairs /\ q <= cutoff'[issued[q].who] /\ issued'[q].refresh = "revoked"
  <2>1. CASE q \in dead
    <3>1. q \in Pairs /\ ~Current(q) /\ issued[q].refresh = "revoked"
      BY <2>1 DEF SessionInv, ReplayedChainIsDead
    <3>2. issued[q].who \in Accounts
      BY <3>1, PairFields DEF SessionInv
    <3> QED
      BY <1>1, <1>2, <1>5, <3>1, <3>2 DEF Current, Grows, Pairs
  <2>2. CASE q \in 1..issued[p].revokedAt /\ issued[q].who = a
    <3>1. q \in Pairs /\ q <= cutoff'[a]
      BY <1>1, <1>2, <1>3, <2>2 DEF Pairs
    <3>2. issued[q] \in Pair
      BY <3>1, PairFields DEF SessionInv
    <3>3. issued[q].refresh = "revoked" \/ q \in LiveOf(a)
      BY <2>2, <3>1, <3>2 DEF LiveOf, Pair
    <3>4. issued'[q].refresh = "revoked"
      BY <3>1, <3>3, RevokeKeeps DEF SessionInv
    <3> QED
      BY <2>2, <3>1, <3>4
  <2> QED
    BY <1>6, <2>1, <2>2
<1>7. \A q \in dead' : q \in Pairs' /\ issued'[q].who = issued[q].who /\ issued[q].who \in Accounts
  BY <1>6, PairFields, GrowthKeeps DEF SessionInv, Grows
<1>8. ReplayedChainIsDead'
  <2> SUFFICES ASSUME NEW q \in dead'
               PROVE  ~(q > cutoff'[issued'[q].who]) /\ issued'[q].refresh = "revoked"
    BY DEF ReplayedChainIsDead, Current
  <2>1. q \in Nat /\ cutoff'[issued[q].who] \in Nat /\ issued'[q].who = issued[q].who
    BY <1>1, <1>5, <1>6, <1>7 DEF Pairs
  <2> QED
    BY <1>6, <2>1
<1> QED
  BY <1>4, <1>7, <1>8

LEMMA RotateReadStep ==
    ASSUME SessionInv, NEW s \in Slots, RotateRead(s)
    PROVE  SessionInv'
<1> DEFINE p == req[s].tok
           a == issued[p].who
<1>1. p \in Pairs
  BY RequestFields DEF RotateRead, RequestOK, Pairs
<1>2. \A st \in {"refused", "rotating"} : RequestOK([req[s] EXCEPT !.st = st], Len(issued))
  <2> TAKE st \in {"refused", "rotating"}
  <2> DEFINE r == [req[s] EXCEPT !.st = st]
  <2>1. req[s] \in Request /\ RequestOK(req[s], Len(issued)) /\ req[s].st = "refreshing"
    BY RequestFields DEF RotateRead
  <2>2. /\ r \in Request /\ r.st = st /\ r.tok = req[s].tok /\ r.with = req[s].with
        /\ r.ran = req[s].ran
    BY <2>1 DEF Request, Stages
  <2> HIDE DEF r
  <2>3. RequestOK(r, Len(issued))
    BY <2>1, <2>2 DEF RequestOK
  <2> QED
    BY <2>3 DEF r
<1>3. req \in [Slots -> Request]
  BY DEF SessionInv, RequestsOK
<1>4. CASE /\ dead' = dead \union {q \in 1..issued[p].revokedAt : issued[q].who = a}
           /\ cutoff' = [cutoff EXCEPT ![a] = ReplayCutoff(p)]
           /\ issued' = Revoke(LiveOf(a))
           /\ req' = [req EXCEPT ![s].st = "refused"]
  <2>1. Grows /\ Len(issued') = Len(issued)
    BY <1>4, RevokeGrows DEF SessionInv
  <2>2. CutoffOK' /\ dead' \subseteq Pairs' /\ ReplayedChainIsDead'
    BY <1>1, <1>4, <2>1, ReplayKills
  <2>3. req' = [req EXCEPT ![s] = [req[s] EXCEPT !.st = "refused"]]
    BY <1>3, <1>4
  <2>4. RequestsOK'
    BY <1>2, <2>1, <2>3, OneRequest
  <2> QED
    BY <2>1, <2>2, <2>4, BrowserKeeps, GrowthKeeps DEF SessionInv, RotateRead, Grows
<1>5. CASE /\ \E st \in {"rotating", "refused"} : req' = [req EXCEPT ![s].st = st]
           /\ UNCHANGED <<issued, cutoff, dead>>
  <2>1. PICK st \in {"rotating", "refused"} : req' = [req EXCEPT ![s] = [req[s] EXCEPT !.st = st]]
    BY <1>3, <1>5
  <2>2. Grows
    BY <1>5, SameGrows DEF SessionInv
  <2>3. RequestsOK'
    BY <1>2, <1>5, <2>1, <2>2, OneRequest
  <2>4. UNCHANGED server /\ BrowserOK'
    BY <1>5, <2>2, BrowserKeeps DEF RotateRead, server
  <2> QED
    BY <2>3, <2>4, QuietStep
<1> QED
  BY <1>4, <1>5 DEF RotateRead

LEMMA RotateCommitStep ==
    ASSUME SessionInv, NEW s \in Slots, RotateCommit(s)
    PROVE  SessionInv'
<1> DEFINE p == req[s].tok
<1>1. p \in Pairs /\ issued[p].who \in Accounts
  <2>1. p \in Pairs
    BY RequestFields DEF RotateCommit, RequestOK, Pairs
  <2> QED
    BY <2>1, PairFields DEF SessionInv
<1>2. req \in [Slots -> Request] /\ req[s].st = "rotating" /\ Len(issued) \in Nat
  BY RequestFields DEF SessionInv, RequestsOK, RotateCommit
<1>3. CASE /\ Len(issued) < MaxPairs
           /\ issued' = Append(Revoke({p}), issue_tokens(issued[p].who))
           /\ req' = [req EXCEPT ![s].st = "rotated", ![s].tok = Len(issued) + 1]
  <2>1. Grows /\ Len(issued') = Len(issued) + 1
    <3>1. /\ Revoke({p}) \in Seq(Pair) /\ Len(Revoke({p})) = Len(issued)
          /\ \A q \in Pairs :
                /\ Revoke({p})[q].who = issued[q].who
                /\ Revoke({p})[q].revokedAt <= Len(issued)
                /\ issued[q].refresh = "revoked" => Revoke({p})[q].refresh = "revoked"
      BY RevokeKeeps DEF SessionInv
    <3> QED
      BY <1>1, <1>3, <3>1, IssueGrows DEF SessionInv
  <2>2. req' = [req EXCEPT ![s] = [req[s] EXCEPT !.st = "rotated", !.tok = Len(issued) + 1]]
    BY <1>2, <1>3
  <2>3. RequestOK([req[s] EXCEPT !.st = "rotated", !.tok = Len(issued) + 1], Len(issued'))
    <3>1. /\ Len(issued) + 1 \in 0..MaxPairs /\ Len(issued) + 1 # 0
          /\ Len(issued) <= Len(issued') /\ Len(issued) + 1 <= Len(issued') /\ Len(issued') \in Nat
      BY <1>2, <1>3, <2>1, SessionAssumption DEF SessionAssumption
    <3> QED
      BY <1>2, <3>1, Staged DEF Stages
  <2>4. RequestsOK'
    BY <2>1, <2>2, <2>3, OneRequest
  <2>5. UNCHANGED <<cutoff, dead, successor, auth>>
    BY DEF RotateCommit
  <2> QED
    BY <2>1, <2>4, <2>5, DeadStayDead, BrowserKeeps, GrowthKeeps DEF SessionInv, Grows
<1>4. CASE req' = [req EXCEPT ![s].st = "refused"] /\ UNCHANGED issued
  <2>1. UNCHANGED server /\ Grows
    BY <1>4, SameGrows DEF RotateCommit, server, SessionInv
  <2> DEFINE r == [req[s] EXCEPT !.st = "refused"]
  <2>2. req[s] \in Request /\ RequestOK(req[s], Len(issued)) /\ req' = [req EXCEPT ![s] = r]
    BY <1>2, <1>4, RequestFields
  <2>3. /\ r \in Request /\ r.st = "refused" /\ r.tok = req[s].tok /\ r.with = req[s].with
        /\ r.ran = req[s].ran
    BY <2>2 DEF Request, Stages
  <2> HIDE DEF r
  <2>4. RequestOK(r, Len(issued'))
    BY <1>2, <1>4, <2>2, <2>3 DEF RequestOK
  <2>5. RequestsOK' /\ BrowserOK'
    BY <2>1, <2>2, <2>4, OneRequest, BrowserKeeps DEF RotateCommit
  <2> QED
    BY <2>1, <2>5, QuietStep
<1> QED
  BY <1>3, <1>4 DEF RotateCommit

LEMMA RefreshStep ==
    ASSUME SessionInv, NEW s \in Slots, tryRefresh(s)
    PROVE  SessionInv'
<1>1. CASE store' = 0 /\ req' = [req EXCEPT ![s] = Idle]
  <2>1. UNCHANGED server /\ BrowserOK'
    BY <1>1 DEF SessionInv, BrowserOK, tryRefresh, server, Pairs
  <2> QED
    BY <1>1, <2>1, Ended, QuietStep
<1>2. CASE /\ req[s].st = "rotated" /\ store' = req[s].tok
           /\ req' = [req EXCEPT ![s].st = "sent", ![s].with = req[s].tok, ![s].tok = 0, ![s].retry = FALSE]
  <2>1. /\ RequestOK(req[s], Len(issued)) /\ req[s] \in Request /\ req[s].tok \in Pairs
        /\ req[s].tok \in 0..MaxPairs /\ 0 \in 0..MaxPairs /\ Len(issued) \in Nat
        /\ req \in [Slots -> Request]
    <3>1. /\ RequestOK(req[s], Len(issued)) /\ req[s].tok \in 0..Len(issued)
          /\ Len(issued) \in 0..MaxPairs /\ MaxPairs \in Nat
      BY RequestFields, SessionAssumption DEF SessionAssumption
    <3>2. req[s] \in Request /\ req[s].tok # 0 /\ req \in [Slots -> Request]
      BY <1>2, <3>1 DEF RequestOK, SessionInv, RequestsOK
    <3> QED
      BY <3>1, <3>2 DEF Pairs
  <2>2. UNCHANGED server /\ BrowserOK'
    BY <1>2, <2>1 DEF SessionInv, BrowserOK, tryRefresh, server, Pairs
  <2> DEFINE q == [req[s] EXCEPT !.st = "sent"]
             u == [q EXCEPT !.with = req[s].tok]
             v == [u EXCEPT !.tok = 0]
             r == [v EXCEPT !.retry = FALSE]
  <2>3. req' = [req EXCEPT ![s] = r]
    BY <1>2, <2>1
  <2>4. q \in Request /\ q.st = "sent" /\ q.ran = req[s].ran
    BY <2>1 DEF Request, Stages
  <2> HIDE DEF q
  <2>5. u \in Request /\ u.st = "sent" /\ u.ran = req[s].ran /\ u.with = req[s].tok
    BY <2>1, <2>4 DEF Request
  <2> HIDE DEF u
  <2>6. v \in Request /\ v.st = "sent" /\ v.ran = req[s].ran /\ v.with = req[s].tok /\ v.tok = 0
    BY <2>1, <2>5 DEF Request
  <2> HIDE DEF v
  <2>7. r \in Request /\ r.st = "sent" /\ r.ran = req[s].ran /\ r.with = req[s].tok /\ r.tok = 0
    <3>1. r \in Request
      <4>1. \A b \in BOOLEAN : [v EXCEPT !.retry = b] \in Request
        BY <2>6 DEF Request
      <4> QED
        BY <4>1, Zenon
    <3>2. r.st = v.st /\ r.ran = v.ran /\ r.with = v.with /\ r.tok = v.tok
      BY <2>6 DEF Request
    <3> QED
      BY <2>6, <3>1, <3>2
  <2> HIDE DEF r
  <2>8. RequestOK(r, Len(issued))
    BY <1>2, <2>1, <2>7 DEF RequestOK, Pairs
  <2>9. RequestsOK'
    BY <2>2, <2>3, <2>8, SameGrows, OneRequest DEF SessionInv, server
  <2> QED
    BY <2>2, <2>9, QuietStep
<1> QED
  BY <1>1, <1>2 DEF tryRefresh

(***************************************************************************)
(* A changed password: every session of the account ends but a new one.    *)
(***************************************************************************)
LEMMA PasswordStep ==
    ASSUME SessionInv, NEW s \in Slots, req[s].with \in Pairs, change_password(s), UNCHANGED dead
    PROVE  /\ Grows /\ Len(issued') = Len(issued) + 1 /\ Len(issued) + 1 <= MaxPairs
           /\ CutoffOK' /\ dead' \subseteq Pairs' /\ ReplayedChainIsDead'
           /\ successor' \subseteq Pairs'
<1> DEFINE a == issued[req[s].with].who
<1>1. a \in Accounts /\ Len(issued) \in Nat /\ MaxPairs \in Nat /\ Len(issued) + 1 <= MaxPairs
  BY PairFields, SessionAssumption DEF SessionInv, SessionAssumption, change_password
<1>2. Grows /\ Len(issued') = Len(issued) + 1
  <2>1. /\ Revoke(LiveOf(a)) \in Seq(Pair) /\ Len(Revoke(LiveOf(a))) = Len(issued)
        /\ \A q \in Pairs :
              /\ Revoke(LiveOf(a))[q].who = issued[q].who
              /\ Revoke(LiveOf(a))[q].revokedAt <= Len(issued)
              /\ issued[q].refresh = "revoked" => Revoke(LiveOf(a))[q].refresh = "revoked"
    BY RevokeKeeps DEF SessionInv
  <2>2. issued' = Append(Revoke(LiveOf(a)), issue_tokens(a)) /\ Len(issued) < MaxPairs
    BY DEF change_password
  <2> QED
    BY <1>1, <2>1, <2>2, IssueGrows DEF SessionInv
<1>3. cutoff' = [cutoff EXCEPT ![a] = Len(issued)]
  BY DEF change_password
<1>4. cutoff \in [Accounts -> 0..MaxPairs] /\ \A b \in Accounts : cutoff[b] \in 0..Len(issued)
  BY <1>1 DEF SessionInv, CutoffOK
<1>5. CutoffOK' /\ \A b \in Accounts : cutoff[b] <= cutoff'[b] /\ cutoff'[b] \in Nat
  BY <1>1, <1>2, <1>3, <1>4 DEF CutoffOK
<1>6. ReplayedChainIsDead'
  <2> SUFFICES ASSUME NEW q \in dead
               PROVE  ~(q > cutoff'[issued'[q].who]) /\ issued'[q].refresh = "revoked"
    BY DEF ReplayedChainIsDead, Current
  <2>1. q \in Pairs /\ ~(q > cutoff[issued[q].who]) /\ issued[q].refresh = "revoked"
    BY DEF SessionInv, ReplayedChainIsDead, Current
  <2>2. issued'[q].who = issued[q].who /\ issued[q].who \in Accounts /\ issued'[q].refresh = "revoked"
    BY <1>2, <2>1, PairFields DEF SessionInv, Grows
  <2>3. q \in Nat /\ cutoff[issued[q].who] \in Nat
    BY <1>1, <1>4, <2>1, <2>2 DEF Pairs
  <2> QED
    BY <1>5, <2>1, <2>2, <2>3
<1>7. Pairs \subseteq Pairs' /\ Len(issued) + 1 \in Pairs'
  BY <1>1, <1>2 DEF Pairs
<1>8. successor' \subseteq Pairs'
  BY <1>7 DEF SessionInv, change_password
<1> QED
  BY <1>1, <1>2, <1>5, <1>6, <1>7, <1>8 DEF SessionInv

LEMMA ServeStep ==
    ASSUME SessionInv, NEW s \in Slots, Serve(s)
    PROVE  SessionInv'
<1> PICK code \in Statuses(s) :
      LET changes == code = 200 /\ req[s].kind = "password" IN
      /\ req' = [req EXCEPT ![s] =
                   [req[s] EXCEPT !.st = "answered", !.status = code,
                                  !.ran = IF code = 200 THEN req[s].ran + 1 ELSE req[s].ran,
                                  !.tok = IF changes THEN Len(issued) + 1 ELSE req[s].tok]]
      /\ IF changes THEN change_password(s) ELSE UNCHANGED <<issued, cutoff, successor>>
  BY DEF Serve
<1> DEFINE changes == code = 200 /\ req[s].kind = "password"
           tok == IF changes THEN Len(issued) + 1 ELSE req[s].tok
           ran == IF code = 200 THEN req[s].ran + 1 ELSE req[s].ran
<1>1. /\ RequestOK(req[s], Len(issued)) /\ req[s] \in Request /\ req[s].with \in 0..Len(issued)
      /\ req[s].tok \in 0..Len(issued) /\ Len(issued) \in 0..MaxPairs /\ Len(issued) \in Nat
      /\ req \in [Slots -> Request] /\ MaxPairs \in Nat
  BY RequestFields, SessionAssumption DEF SessionInv, RequestsOK, SessionAssumption
<1>2. req[s].st = "sent" /\ req[s].ran = 0
  BY <1>1 DEF Serve, RequestOK
<1>3. code \in {200, 401, 402} /\ (code \in {200, 402} => req[s].with # 0)
  <2>1. CASE ~Accepted(req[s].with)
    BY <2>1 DEF Statuses
  <2>2. CASE Accepted(req[s].with)
    BY <2>2 DEF Statuses, Accepted
  <2> QED
    BY <2>1, <2>2
<1>4. /\ Grows /\ (changes => Len(issued') = Len(issued) + 1 /\ Len(issued) + 1 <= MaxPairs)
      /\ CutoffOK' /\ dead' \subseteq Pairs' /\ ReplayedChainIsDead' /\ successor' \subseteq Pairs'
  <2>1. CASE changes
    <3>1. req[s].with \in Pairs
      BY <1>1, <1>3, <2>1 DEF Pairs
    <3> QED
      BY <2>1, <3>1, PasswordStep DEF Serve
  <2>2. CASE ~changes
    BY <2>2, SameGrows, DeadStayDead, GrowthKeeps DEF Serve, SessionInv
  <2> QED
    BY <2>1, <2>2
<1>5. /\ Len(issued') \in Nat /\ Len(issued) <= Len(issued')
      /\ tok \in 0..MaxPairs /\ tok <= Len(issued')
  BY <1>1, <1>4 DEF Grows, TokensOK
<1>6. ran \in {0, 1} /\ (ran = 1 <=> code = 200)
  BY <1>2
<1> HIDE DEF tok, ran
<1> DEFINE q == [req[s] EXCEPT !.st = "answered"]
           u == [q EXCEPT !.status = code]
           v == [u EXCEPT !.ran = ran]
           r == [v EXCEPT !.tok = tok]
<1>7. req' = [req EXCEPT ![s] = r]
  BY <1>1 DEF tok, ran
<1>8. q \in Request /\ q.st = "answered" /\ q.with = req[s].with
  BY <1>1 DEF Request, Stages
<1> HIDE DEF q
<1>9. u \in Request /\ u.st = "answered" /\ u.with = req[s].with /\ u.status = code
  BY <1>3, <1>8 DEF Request
<1> HIDE DEF u
<1>10. v \in Request /\ v.st = "answered" /\ v.with = req[s].with /\ v.status = code /\ v.ran = ran
  BY <1>6, <1>9 DEF Request
<1> HIDE DEF v
<1>11. /\ r \in Request /\ r.st = "answered" /\ r.with = req[s].with /\ r.status = code
       /\ r.ran = ran /\ r.tok = tok
  BY <1>5, <1>10 DEF Request
<1> HIDE DEF r
<1>12. RequestOK(r, Len(issued'))
  BY <1>1, <1>3, <1>5, <1>6, <1>11 DEF RequestOK
<1>13. RequestsOK' /\ BrowserOK'
  BY <1>4, <1>7, <1>12, OneRequest, BrowserKeeps DEF Serve
<1> QED
  BY <1>4, <1>13 DEF SessionInv, Grows

LEMMA NextSession == SessionInv /\ [Next]_vars => SessionInv'
<1> SUFFICES ASSUME SessionInv, [Next]_vars PROVE SessionInv'
  OBVIOUS
<1>1. CASE UNCHANGED vars
  <2>1. UNCHANGED server /\ BrowserOK' /\ RequestsOK'
    BY <1>1 DEF SessionInv, BrowserOK, RequestsOK, vars, server, auth, Pairs
  <2> QED
    BY <2>1, QuietStep
<1>2. CASE (\E p \in Pairs : Expire(p)) \/ (\E a \in Accounts : login(a))
  BY <1>2, ExpireStep, LoginStep
<1>3. CASE logout \/ SignedOut \/ UsageLoaded
  BY <1>3, LogoutStep, SignedOutStep, UsageStep
<1>4. ASSUME NEW s \in Slots,
             \/ Reload(s) \/ \E kind \in Kinds : Send(s, kind)
             \/ Serve(s) \/ Lost(s) \/ Answer(s)
             \/ RotateRead(s) \/ RotateCommit(s) \/ tryRefresh(s)
      PROVE  SessionInv'
  BY <1>4, ReloadStep, SendStep, ServeStep, LostStep, SucceededStep, RequiredStep,
     UnauthorizedStep, RotateReadStep, RotateCommitStep, RefreshStep DEF Answer
<1> QED
  BY <1>1, <1>2, <1>3, <1>4 DEF Next

(***************************************************************************)
(* Type correctness: every variable keeps its type, and a browser holds     *)
(* only tokens that were issued, to whoever is signed in by then.          *)
(***************************************************************************)
THEOREM SessionTypeCorrect == Spec => []TypeOK
<1>1. SessionInv => TypeOK
  <2> SUFFICES ASSUME SessionInv PROVE TypeOK
    OBVIOUS
  <2>1. \A s \in Slots : req[s].with <= Len(issued) /\ req[s].tok <= Len(issued)
    BY DEF SessionInv, RequestsOK, RequestOK
  <2> QED
    BY <2>1 DEF SessionInv, TokensOK, CutoffOK, BrowserOK, RequestsOK, TypeOK
<1> QED
  BY <1>1, InitSession, NextSession, PTL DEF Spec

(***************************************************************************)
(* A request that is refreshed and sent again is carried out once at most   *)
(* (request(), api-client.ts): only a 401 is retried, and a 401 did nothing. *)
(***************************************************************************)
THEOREM RetriedIsNotRepeated == Spec => []ExecutedAtMostOnce
<1>1. SessionInv => ExecutedAtMostOnce
  <2> SUFFICES ASSUME SessionInv, NEW s \in Slots PROVE req[s].ran <= 1
    BY DEF ExecutedAtMostOnce
  <2>1. req[s].ran = 0 \/ req[s].ran = 1
    BY DEF SessionInv, RequestsOK, RequestOK
  <2> QED
    BY <2>1
<1> QED
  BY <1>1, InitSession, NextSession, PTL DEF Spec

(***************************************************************************)
(* Reuse detection is not undone (auth/service.py): whatever is issued,     *)
(* rotated, replayed or changed afterwards, a pair that was condemned opens *)
(* nothing and cannot be refreshed, also when a rotation of it was already  *)
(* under way.                                                              *)
(***************************************************************************)
THEOREM ReplayIsFinal == Spec => []ReplayedChainIsDead
<1>1. SessionInv => ReplayedChainIsDead
  BY DEF SessionInv
<1> QED
  BY <1>1, InitSession, NextSession, PTL DEF Spec

-----------------------------------------------------------------------------
(* Module Subscription.                                                    *)

(***************************************************************************)
(* What a transaction may be about to write: it pays only an order there    *)
(* is whose money was taken, and activates only if it pays or is the        *)
(* operator's.                                                             *)
(***************************************************************************)
TransactionOK(w) ==
    /\ txn[w].paid # "no" <=> txn[w].order # NoOrder
    /\ txn[w].order # NoOrder => order[txn[w].order].status # "none"
    /\ txn[w].paid = "paid" => bank[txn[w].order] = "captured"
    /\ txn[w].change.status = "active" => w = Admin \/ txn[w].paid = "paid"
    /\ txn[w].change.status # "cancelled"

(***************************************************************************)
(* The inductive invariant: the rows, what is about to be written into      *)
(* them, and why the tenant is active.                                     *)
(***************************************************************************)
RowsOK ==
    /\ row \in Row /\ order \in [Orders -> Payment] /\ txn \in [Workers -> Transaction]
    /\ granted \in BOOLEAN
    /\ \A w \in Workers : TransactionOK(w)
    /\ \A o \in Orders : order[o].status # "none" => order[o].plan \in Priced

RazorpayOK ==
    /\ bank \in [Orders -> {"none", "offered", "captured"}]
    /\ events \subseteq Event
    /\ \A o \in Orders : bank[o] # "none" => order[o].status # "none"
    /\ \A e \in events : e[1] = "captured" => bank[e[2]] = "captured"

PagesOK ==
    /\ view \in [status : SubscriptionStatuses, presses : 0..MaxPresses]
    /\ page \in Page /\ (page.pay # "idle" <=> page.order # NoOrder)

SubscriptionInv == RowsOK /\ RazorpayOK /\ PagesOK /\ NoFreeRide

(***************************************************************************)
(* A transaction that was not begun writes nothing.                        *)
(***************************************************************************)
LEMMA IdleOK == NoWork \in Transaction /\ Nothing \in Change
<1>1. Nothing \in Change
  BY DEF Nothing, Change
<1>2. NoOrder \in Orders \union {NoOrder} /\ "no" \in {"no", "paid", "failed"} /\ FALSE \in BOOLEAN
  OBVIOUS
<1> QED
  BY <1>1, <1>2, Zenon DEF NoWork, Transaction

(***************************************************************************)
(* The columns a transaction writes hold values of their types.            *)
(***************************************************************************)
LEMMA ChangedType ==
    ASSUME NEW want \in Row
    PROVE  /\ Changed(want) \in Change
           /\ Changed(want).status \in {"kept", want.status} /\ Changed(want).status # "cancelled"
           /\ Changed(want).status = "active" => row.status # "active"
<1>1. want.status \in SubscriptionStatuses \ {"cancelled"} /\ want.plan \in Plans
      /\ want.trial \in {"none", "ahead", "past"}
  BY DEF Row
<1> QED
  BY <1>1 DEF Changed, Change, SubscriptionStatuses

(***************************************************************************)
(* A transaction begins: the rows stay, and what it will write is sound.   *)
(***************************************************************************)
LEMMA WorkStaged ==
    ASSUME RowsOK, NoFreeRide, NEW w \in Workers, NEW t \in Transaction,
           txn' = [txn EXCEPT ![w] = t], UNCHANGED <<row, order, granted, bank>>,
           t.paid # "no" <=> t.order # NoOrder,
           t.order # NoOrder => order[t.order].status # "none",
           t.paid = "paid" => bank[t.order] = "captured",
           t.change.status = "active" => w = Admin \/ t.paid = "paid",
           t.change.status # "cancelled"
    PROVE  RowsOK' /\ NoFreeRide'
<1>1. txn' \in [Workers -> Transaction]
  BY DEF RowsOK
<1>2. txn'[w] = t /\ \A v \in Workers \ {w} : txn'[v] = txn[v]
  BY DEF RowsOK
<1>3. TransactionOK(w)'
  BY <1>2 DEF TransactionOK
<1>4. ASSUME NEW v \in Workers \ {w}
      PROVE  TransactionOK(v)'
  <2>1. TransactionOK(v)
    BY DEF RowsOK
  <2> QED
    BY <1>2, <2>1 DEF TransactionOK
<1>5. \A v \in Workers : TransactionOK(v)'
  BY <1>3, <1>4
<1>6. RowsOK'
  BY <1>1, <1>5 DEF RowsOK
<1> QED
  BY <1>6 DEF NoFreeRide

(***************************************************************************)
(* The same for what Begin stages: only an operator, or money that was      *)
(* taken, makes an inactive tenant active.                                 *)
(***************************************************************************)
LEMMA BeginStep ==
    ASSUME RowsOK, NoFreeRide, NEW w \in Workers, NEW want \in Row,
           NEW o \in Orders \union {NoOrder}, NEW paid \in {"no", "paid", "failed"},
           Begin(w, want, o, paid), UNCHANGED bank,
           paid # "no" <=> o # NoOrder,
           o # NoOrder => order[o].status # "none",
           paid = "paid" => bank[o] = "captured",
           want.status = "active" => row.status = "active" \/ w = Admin \/ paid = "paid"
    PROVE  RowsOK' /\ NoFreeRide' /\ UNCHANGED <<row, order, granted>>
<1> DEFINE t == [change |-> Changed(want), order |-> o, paid |-> paid, open |-> TRUE]
<1>1. /\ Changed(want) \in Change
      /\ Changed(want).status \in {"kept", want.status} /\ Changed(want).status # "cancelled"
      /\ Changed(want).status = "active" => row.status # "active"
  BY ChangedType
<1>2. t \in Transaction
  <2>1. TRUE \in BOOLEAN
    OBVIOUS
  <2> QED
    BY <1>1, <2>1, Zenon DEF Transaction
<1>3. /\ t.order = o /\ t.paid = paid /\ t.change = Changed(want)
  OBVIOUS
<1>4. txn' = [txn EXCEPT ![w] = t] /\ UNCHANGED <<row, order, granted>>
  BY DEF Begin
<1>5. t.change.status = "active" => w = Admin \/ t.paid = "paid"
  BY <1>1, <1>3
<1> HIDE DEF t
<1> QED
  BY <1>1, <1>2, <1>3, <1>4, <1>5, WorkStaged

(***************************************************************************)
(* A transaction commits: it writes sound values, forgets no order, and     *)
(* the tenant it makes active was paid for or activated by the operator.   *)
(***************************************************************************)
LEMMA CommitStep ==
    ASSUME RowsOK, NoFreeRide, NEW w \in Workers, Commit(w), UNCHANGED bank,
           granted' \in BOOLEAN, granted => granted',
           w = Admin /\ txn[w].change.status = "active" => granted'
    PROVE  /\ RowsOK' /\ NoFreeRide'
           /\ \A o \in Orders : order[o].status # "none" => order'[o].status # "none"
<1> DEFINE t == txn[w]
           c == t.change
<1>1. t \in Transaction /\ TransactionOK(w)
  BY DEF RowsOK
<1>2. c \in Change /\ t.order \in Orders \union {NoOrder} /\ t.paid \in {"no", "paid", "failed"}
  BY <1>1 DEF Transaction
<1>3. /\ c.status \in (SubscriptionStatuses \ {"cancelled"}) \union {"kept"} /\ c.plan \in Plans \union {NoPlan}
      /\ c.trial \in {"none", "ahead", "past", "kept"}
  BY <1>1, <1>2 DEF Change, TransactionOK
<1>4. row.status \in SubscriptionStatuses \ {"cancelled"} /\ row.plan \in Plans /\ row.trial \in {"none", "ahead", "past"}
  BY DEF RowsOK, Row
<1>5. /\ row' \in Row
      /\ row'.status = IF c.status = "kept" THEN row.status ELSE c.status
  <2> DEFINE s == IF c.status = "kept" THEN row.status ELSE c.status
             p == IF c.plan = NoPlan THEN row.plan ELSE c.plan
             r == IF c.trial = "kept" THEN row.trial ELSE c.trial
  <2>1. s \in SubscriptionStatuses \ {"cancelled"} /\ p \in Plans /\ r \in {"none", "ahead", "past"}
    BY <1>3, <1>4
  <2>2. row' = [status |-> s, plan |-> p, trial |-> r]
    BY DEF Commit
  <2> HIDE DEF s, p, r
  <2>3. row' \in Row /\ row'.status = s
    BY <2>1, <2>2 DEF Row
  <2> QED
    BY <2>3 DEF s
<1>6. /\ order' \in [Orders -> Payment]
      /\ \A o \in Orders : order'[o].plan = order[o].plan
      /\ \A o \in Orders : order'[o].status = order[o].status \/ order'[o].status \in {"paid", "failed"}
      /\ \A o \in Orders : order'[o].status # order[o].status => order[o].status # "none"
  <2>1. CASE t.order = NoOrder
    <3>1. order' = order
      BY <2>1 DEF Commit
    <3> QED
      BY <3>1 DEF RowsOK
  <2>2. CASE t.order # NoOrder
    <3>1. order' = [order EXCEPT ![t.order].status = t.paid] /\ t.order \in Orders
      BY <1>2, <2>2 DEF Commit
    <3>2. t.paid \in {"paid", "failed"} /\ order[t.order].status # "none"
      BY <1>1, <1>2, <2>2 DEF TransactionOK
    <3>3. \A o \in Orders : order[o] \in Payment
      BY DEF RowsOK
    <3>5. order \in [Orders -> Payment]
      BY DEF RowsOK
    <3>6. order' = [order EXCEPT ![t.order] = [order[t.order] EXCEPT !.status = t.paid]]
      BY <3>1, <3>5
    <3> DEFINE k == t.order
               q == [order[t.order] EXCEPT !.status = t.paid]
    <3>7. k \in Orders /\ order' = [order EXCEPT ![k] = q] /\ order[k].status # "none"
      BY <3>1, <3>2, <3>6
    <3>8. q \in Payment /\ q.plan = order[k].plan /\ q.status \in {"paid", "failed"}
      <4>1. order[k] \in Payment
        BY <3>3, <3>7
      <4>2. order[k].plan \in Plans \union {NoPlan}
        BY <4>1 DEF Payment
      <4>3. q = [status |-> t.paid, plan |-> order[k].plan]
        BY <4>1 DEF Payment
      <4>4. q \in Payment /\ q.plan = order[k].plan /\ q.status = t.paid
        BY <3>2, <4>2, <4>3 DEF Payment
      <4> QED
        BY <3>2, <4>4
    <3> HIDE DEF k, q
    <3>9. order' \in [Orders -> Payment]
      BY <3>5, <3>7, <3>8
    <3>10. \A o \in Orders : order'[o] = IF o = k THEN q ELSE order[o]
      BY <3>5, <3>7
    <3> QED
      BY <3>7, <3>8, <3>9, <3>10
  <2> QED
    BY <2>1, <2>2
<1>7. txn' = [txn EXCEPT ![w] = NoWork] /\ txn' \in [Workers -> Transaction]
  BY IdleOK DEF Commit, RowsOK
<1>8. ASSUME NEW v \in Workers
      PROVE  TransactionOK(v)'
  <2>1. CASE v = w
    <3>1. txn'[v] = NoWork
      BY <1>7, <2>1 DEF RowsOK
    <3>2. NoWork.paid = "no" /\ NoWork.order = NoOrder /\ NoWork.change.status = "kept"
      BY DEF NoWork, Nothing
    <3> QED
      BY <3>1, <3>2 DEF TransactionOK
  <2>2. CASE v # w
    <3>1. txn'[v] = txn[v] /\ TransactionOK(v) /\ txn[v] \in Transaction
      BY <1>7, <2>2 DEF RowsOK
    <3>2. txn[v].order \in Orders \union {NoOrder}
      BY <3>1 DEF Transaction
    <3> QED
      BY <1>6, <3>1, <3>2 DEF TransactionOK
  <2> QED
    BY <2>1, <2>2
<1>9. \A o \in Orders : order[o].status # "none" => order'[o].status # "none"
  BY <1>6
<1>10. \A o \in Orders : order'[o].status # "none" => order'[o].plan \in Priced
  BY <1>6 DEF RowsOK
<1>11. RowsOK'
  BY <1>5, <1>6, <1>7, <1>8, <1>10 DEF RowsOK
<1>12. NoFreeRide'
  <2>1. CASE c.status = "kept"
    BY <1>5, <1>6, <2>1 DEF NoFreeRide
  <2>2. CASE c.status # "kept"
    <3> SUFFICES ASSUME row'.status = "active"
                 PROVE  granted' \/ \E o \in Orders : bank'[o] = "captured" /\ order'[o].plan \in Priced
      BY DEF NoFreeRide
    <3>1. c.status = "active"
      BY <1>5, <2>2
    <3>2. CASE t.paid = "paid"
      <4>1. t.order \in Orders /\ order[t.order].status # "none" /\ bank[t.order] = "captured"
        BY <1>1, <1>2, <3>2 DEF TransactionOK
      <4>2. order[t.order].plan \in Priced
        BY <4>1 DEF RowsOK
      <4> QED
        BY <1>6, <4>1, <4>2
    <3>3. CASE w = Admin
      BY <3>1, <3>3
    <3> QED
      BY <1>1, <3>1, <3>2, <3>3 DEF TransactionOK
  <2> QED
    BY <2>1, <2>2
<1> QED
  BY <1>9, <1>11, <1>12

(***************************************************************************)
(* What leaves the backend alone, and takes no money back, keeps the rows. *)
(***************************************************************************)
LEMMA QuietServer ==
    ASSUME RowsOK, NoFreeRide, UNCHANGED backend,
           \A o \in Orders : bank[o] = "captured" => bank'[o] = "captured"
    PROVE  RowsOK' /\ NoFreeRide'
<1>1. row' = row /\ order' = order /\ txn' = txn /\ granted' = granted
  BY DEF backend
<1>2. ASSUME NEW w \in Workers
      PROVE  TransactionOK(w)'
  <2>1. TransactionOK(w) /\ txn[w] \in Transaction
    BY DEF RowsOK
  <2>2. txn[w].order \in Orders \union {NoOrder}
    BY <2>1 DEF Transaction
  <2> QED
    BY <1>1, <2>1, <2>2 DEF TransactionOK
<1>3. RowsOK'
  BY <1>1, <1>2 DEF RowsOK
<1>4. NoFreeRide'
  BY <1>1 DEF NoFreeRide
<1> QED
  BY <1>3, <1>4

(***************************************************************************)
(* Razorpay keeps what it has while no order is forgotten.                 *)
(***************************************************************************)
LEMMA QuietRazorpay ==
    ASSUME RazorpayOK, UNCHANGED bank, events' \subseteq events,
           \A o \in Orders : order[o].status # "none" => order'[o].status # "none"
    PROVE  RazorpayOK'
BY DEF RazorpayOK

(***************************************************************************)
(* The rows that the operator and the daily job want.                      *)
(***************************************************************************)
LEMMA RowEdits ==
    ASSUME row \in Row
    PROVE  /\ \A s \in SubscriptionStatuses \ {"cancelled"} :
                 [row EXCEPT !.status = s] \in Row /\ [row EXCEPT !.status = s].status = s
           /\ \A p \in Plans :
                 [row EXCEPT !.plan = p] \in Row /\ [row EXCEPT !.plan = p].status = row.status
           /\ [row EXCEPT !.trial = "past"] \in Row /\ [row EXCEPT !.trial = "past"].status = row.status
           /\ \A p \in Plans : [status |-> "active", plan |-> p, trial |-> "none"] \in Row
           /\ _activate_from_payment \in Row
BY DEF Row, SubscriptionStatuses, _activate_from_payment

(***************************************************************************)
(* The first state: a trial, no order, no transaction.                     *)
(***************************************************************************)
LEMMA InitInv ==
    ASSUME SubscriptionInit
    PROVE  SubscriptionInv
<1>1. RowsOK
  <2>1. row \in Row
    BY SubscriptionAssumption DEF SubscriptionInit, Row, SubscriptionStatuses
  <2>2. order \in [Orders -> Payment] /\ \A o \in Orders : order[o].status = "none"
    BY DEF SubscriptionInit, Payment
  <2>3. txn \in [Workers -> Transaction] /\ \A w \in Workers : txn[w] = NoWork
    BY IdleOK DEF SubscriptionInit
  <2>4. NoWork.paid = "no" /\ NoWork.order = NoOrder /\ NoWork.change.status = "kept"
    BY DEF NoWork, Nothing
  <2>5. \A w \in Workers : TransactionOK(w)
    BY <2>3, <2>4 DEF TransactionOK
  <2> QED
    BY <2>1, <2>2, <2>3, <2>5 DEF RowsOK, SubscriptionInit
<1>2. RazorpayOK
  BY DEF SubscriptionInit, RazorpayOK
<1>3. PagesOK
  <2>1. view \in [status : SubscriptionStatuses, presses : 0..MaxPresses]
    BY SubscriptionAssumption DEF SubscriptionInit, SubscriptionStatuses
  <2>2. FALSE \in BOOLEAN /\ Loading.pay = "idle" /\ Loading.order = NoOrder
    BY DEF Loading
  <2>3. Loading \in Page
    BY <2>2 DEF Loading, Page, PayStages
  <2> QED
    BY <2>1, <2>2, <2>3 DEF SubscriptionInit, PagesOK
<1>4. NoFreeRide
  BY DEF SubscriptionInit, NoFreeRide
<1> QED
  BY <1>1, <1>2, <1>3, <1>4 DEF SubscriptionInv

(***************************************************************************)
(* A step of the backend after which the orders are still there, while      *)
(* Razorpay and the pages rest.                                            *)
(***************************************************************************)
LEMMA BackendOnly ==
    ASSUME SubscriptionInv, RowsOK', NoFreeRide', UNCHANGED <<razorpay, view, page>>,
           \A o \in Orders : order[o].status # "none" => order'[o].status # "none"
    PROVE  SubscriptionInv'
<1>1. RazorpayOK'
  BY QuietRazorpay DEF SubscriptionInv, razorpay
<1>2. PagesOK'
  BY DEF SubscriptionInv, PagesOK
<1> QED
  BY <1>1, <1>2 DEF SubscriptionInv

(***************************************************************************)
(* The clock and the daily job.                                            *)
(***************************************************************************)
LEMMA CronStep ==
    ASSUME SubscriptionInv, TrialEnds \/ _check_trials \/ run_subscription_check
    PROVE  SubscriptionInv'
<1>1. RowsOK /\ NoFreeRide /\ row \in Row /\ granted \in BOOLEAN
  BY DEF SubscriptionInv, RowsOK
<1>2. Cron \in Workers /\ Cron # Admin
  BY DEF Workers, Cron, Admin
<1>3. CASE TrialEnds
  <2>1. row' \in Row /\ row'.status = row.status /\ UNCHANGED <<order, txn, granted, razorpay, view, page>>
    BY <1>1, <1>3, RowEdits DEF TrialEnds
  <2>2. bank' = bank
    BY <2>1 DEF razorpay
  <2>3. \A w \in Workers : TransactionOK(w)'
    BY <1>1, <2>1, <2>2 DEF RowsOK, TransactionOK
  <2>4. RowsOK'
    BY <1>1, <2>1, <2>3 DEF RowsOK
  <2>5. NoFreeRide'
    BY <1>1, <2>1, <2>2 DEF NoFreeRide
  <2> QED
    BY <2>1, <2>4, <2>5, BackendOnly
<1>4. CASE _check_trials
  <2>1. suspend_for_trial_expiry \in Row /\ suspend_for_trial_expiry.status = "suspended"
    BY <1>1, RowEdits DEF suspend_for_trial_expiry, SubscriptionStatuses
  <2>2. Begin(Cron, suspend_for_trial_expiry, NoOrder, "no") /\ UNCHANGED <<razorpay, view, page>>
    BY <1>4 DEF _check_trials
  <2>3. bank' = bank
    BY <2>2 DEF razorpay
  <2>4. RowsOK' /\ NoFreeRide' /\ UNCHANGED <<row, order, granted>>
    BY <1>1, <1>2, <2>1, <2>2, <2>3, BeginStep
  <2> QED
    BY <2>2, <2>4, BackendOnly
<1>5. CASE run_subscription_check
  <2>1. Commit(Cron) /\ UNCHANGED <<granted, razorpay, view, page>>
    BY <1>5 DEF run_subscription_check
  <2>2. bank' = bank
    BY <2>1 DEF razorpay
  <2>3. /\ RowsOK' /\ NoFreeRide'
        /\ \A o \in Orders : order[o].status # "none" => order'[o].status # "none"
    BY <1>1, <1>2, <2>1, <2>2, CommitStep
  <2> QED
    BY <2>1, <2>3, BackendOnly
<1> QED
  BY <1>3, <1>4, <1>5

(***************************************************************************)
(* The operator's buttons and their commit.                                *)
(***************************************************************************)
LEMMA AdministrationStep ==
    ASSUME SubscriptionInv, Administration
    PROVE  SubscriptionInv'
<1>1. RowsOK /\ NoFreeRide /\ RazorpayOK /\ PagesOK /\ row \in Row /\ granted \in BOOLEAN
  BY DEF SubscriptionInv, RowsOK
<1>2. Admin \in Workers
  BY DEF Workers
<1>3. view.presses \in 0..MaxPresses /\ view.status \in SubscriptionStatuses /\ row.status \in SubscriptionStatuses
  BY <1>1 DEF PagesOK, Row
<1>4. ASSUME Pressed
      PROVE  PagesOK' /\ UNCHANGED <<razorpay, page>>
  <2>1. view.presses + 1 \in 0..MaxPresses /\ view' = [view EXCEPT !.presses = view.presses + 1]
    BY <1>3, <1>4, SubscriptionAssumption DEF Pressed
  <2>2. view' \in [status : SubscriptionStatuses, presses : 0..MaxPresses]
    BY <1>1, <2>1 DEF PagesOK
  <2> QED
    BY <1>1, <1>4, <2>2 DEF Pressed, PagesOK
<1>5. ASSUME NEW want \in Row, Operator(want)
      PROVE  SubscriptionInv'
  <2>1. Begin(Admin, want, NoOrder, "no") /\ PagesOK' /\ UNCHANGED <<razorpay, page>>
    BY <1>4, <1>5 DEF Operator
  <2>2. bank' = bank /\ events' = events
    BY <2>1 DEF razorpay
  <2>3. RowsOK' /\ NoFreeRide' /\ UNCHANGED <<row, order, granted>>
    BY <1>1, <1>2, <2>1, <2>2, BeginStep
  <2>4. RazorpayOK'
    BY <1>1, <2>2, <2>3, QuietRazorpay
  <2> QED
    BY <2>1, <2>3, <2>4 DEF SubscriptionInv
<1>6. ASSUME NEW p \in Plans, planMutation(p) \/ activateSubMutation(p)
      PROVE  SubscriptionInv'
  <2>1. CASE planMutation(p)
    <3>1. [row EXCEPT !.plan = p] \in Row
      BY <1>1, RowEdits
    <3> QED
      BY <1>5, <2>1, <3>1 DEF planMutation
  <2>2. CASE activateSubMutation(p)
    <3>1. [status |-> "active", plan |-> p, trial |-> "none"] \in Row
      BY <1>1, RowEdits
    <3> QED
      BY <1>5, <2>2, <3>1 DEF activateSubMutation
  <2> QED
    BY <1>6, <2>1, <2>2
<1>7. CASE suspendSubMutation \/ expireSubMutation
  <2>1. "suspended" \in SubscriptionStatuses \ {"cancelled"} /\ "expired" \in SubscriptionStatuses \ {"cancelled"}
    BY DEF SubscriptionStatuses
  <2>2. [row EXCEPT !.status = "suspended"] \in Row /\ [row EXCEPT !.status = "expired"] \in Row
    BY <1>1, <2>1, RowEdits
  <2> QED
    BY <1>5, <1>7, <2>2 DEF suspendSubMutation, expireSubMutation
<1>8. CASE extendTrialMutation
  <2> DEFINE s == IF row.status = "trialing" THEN "kept" ELSE "trialing"
             c == [status |-> s, plan |-> NoPlan, trial |-> "ahead"]
             t == [change |-> c, order |-> NoOrder, paid |-> "no", open |-> TRUE]
  <2>1. s \in {"kept", "trialing"}
    OBVIOUS
  <2>3. c \in Change /\ c.status = s
    BY <2>1 DEF Change, SubscriptionStatuses
  <2>4. TRUE \in BOOLEAN /\ NoOrder \in Orders \union {NoOrder} /\ "no" \in {"no", "paid", "failed"}
    OBVIOUS
  <2>5. t \in Transaction
    BY <2>3, <2>4, Zenon DEF Transaction
  <2>6. t.order = NoOrder /\ t.paid = "no" /\ t.change = c
    OBVIOUS
  <2>7. txn' = [txn EXCEPT ![Admin] = t] /\ UNCHANGED <<row, order, granted>>
    BY <1>8 DEF extendTrialMutation
  <2>8. PagesOK' /\ UNCHANGED <<razorpay, page>>
    BY <1>4, <1>8 DEF extendTrialMutation
  <2>9. bank' = bank /\ events' = events
    BY <2>8 DEF razorpay
  <2> HIDE DEF s, c, t
  <2>10. RowsOK' /\ NoFreeRide'
    BY <1>1, <1>2, <2>1, <2>3, <2>5, <2>6, <2>7, <2>9, WorkStaged
  <2>11. RazorpayOK'
    BY <1>1, <2>7, <2>9, QuietRazorpay
  <2> QED
    BY <2>8, <2>10, <2>11 DEF SubscriptionInv
<1>9. CASE AdminCommit
  <2>1. /\ Commit(Admin) /\ UNCHANGED <<razorpay, page>>
        /\ granted' = (granted \/ txn[Admin].change.status = "active")
        /\ view' \in {view, [view EXCEPT !.status = row'.status]}
    BY <1>9 DEF AdminCommit
  <2>2. bank' = bank /\ events' = events
    BY <2>1 DEF razorpay
  <2>3. granted' \in BOOLEAN /\ (granted => granted') /\ (txn[Admin].change.status = "active" => granted')
    BY <1>1, <2>1
  <2>4. /\ RowsOK' /\ NoFreeRide'
        /\ \A o \in Orders : order[o].status # "none" => order'[o].status # "none"
    BY <1>1, <1>2, <2>1, <2>2, <2>3, CommitStep
  <2>5. RazorpayOK'
    BY <1>1, <2>2, <2>4, QuietRazorpay
  <2>6. row'.status \in SubscriptionStatuses
    BY <2>4 DEF RowsOK, Row
  <2>7. PagesOK'
    BY <1>1, <2>1, <2>6 DEF PagesOK
  <2> QED
    BY <2>4, <2>5, <2>7 DEF SubscriptionInv
<1>10. CASE PortalRefetch
  <2>1. view' = [view EXCEPT !.status = row.status] /\ UNCHANGED <<backend, razorpay, page>>
    BY <1>10 DEF PortalRefetch
  <2>2. RowsOK' /\ NoFreeRide'
    BY <1>1, <2>1, QuietServer DEF razorpay
  <2>3. RazorpayOK'
    BY <1>1, <2>1, QuietRazorpay DEF razorpay, backend
  <2>4. PagesOK'
    BY <1>1, <1>3, <2>1 DEF PagesOK
  <2> QED
    BY <2>2, <2>3, <2>4 DEF SubscriptionInv
<1> QED
  BY <1>6, <1>7, <1>8, <1>9, <1>10 DEF Administration

(***************************************************************************)
(* A step of the browser that leaves the backend and Razorpay alone.       *)
(***************************************************************************)
LEMMA BrowserOnly ==
    ASSUME SubscriptionInv, UNCHANGED <<backend, razorpay, view>>,
           page' \in Page, page'.pay # "idle" <=> page'.order # NoOrder
    PROVE  SubscriptionInv'
<1>1. bank' = bank /\ events' = events /\ order' = order
  BY DEF razorpay, backend
<1>2. RowsOK' /\ NoFreeRide'
  BY <1>1, QuietServer DEF SubscriptionInv
<1>3. RazorpayOK'
  BY <1>1, QuietRazorpay DEF SubscriptionInv
<1>4. PagesOK'
  BY DEF SubscriptionInv, PagesOK
<1> QED
  BY <1>2, <1>3, <1>4 DEF SubscriptionInv

(***************************************************************************)
(* The gate: what the browser asks and is told of the tenant's status.     *)
(***************************************************************************)
LEMMA BrowserStep ==
    ASSUME SubscriptionInv, Browser \/ ReloadPage
    PROVE  SubscriptionInv'
<1>1. RowsOK /\ NoFreeRide /\ RazorpayOK /\ PagesOK /\ row \in Row /\ granted \in BOOLEAN
  BY DEF SubscriptionInv, RowsOK
<1>2. page \in Page /\ (page.pay # "idle" <=> page.order # NoOrder)
  BY <1>1 DEF PagesOK
<1>3. row.status \in SubscriptionStatuses
  BY <1>1 DEF Row
<1>4. ASSUME NEW x \in {"none", "healing", "refused"}
      PROVE  /\ [page EXCEPT !.call = x] \in Page
             /\ [page EXCEPT !.call = x].pay = page.pay /\ [page EXCEPT !.call = x].order = page.order
  BY <1>2 DEF Page
<1>5. CASE ReloadPage
  <2>1. FALSE \in BOOLEAN /\ Loading.pay = "idle" /\ Loading.order = NoOrder
    BY DEF Loading
  <2>2. Loading \in Page
    BY <2>1 DEF Loading, Page, PayStages
  <2> QED
    BY <1>5, <2>1, <2>2, BrowserOnly DEF ReloadPage
<1>6. CASE getUsage
  <2>1. page' = [page EXCEPT !.look = row.status] /\ UNCHANGED <<backend, razorpay, view>>
    BY <1>6 DEF getUsage
  <2>2. page' \in Page /\ page'.pay = page.pay /\ page'.order = page.order
    BY <1>2, <1>3, <2>1 DEF Page
  <2> QED
    BY <1>2, <2>1, <2>2, BrowserOnly
<1>7. CASE UsageApplied
  <2>1. PICK changed \in {page.look # page.usage, TRUE} :
          page' = [page EXCEPT !.look = "none", !.usage = page.look,
                               !.gate = IF changed THEN page.look \in BLOCKING_SUBSCRIPTION_STATUSES
                                                   ELSE page.gate]
    BY <1>7 DEF UsageApplied
  <2> DEFINE g == IF changed THEN page.look \in BLOCKING_SUBSCRIPTION_STATUSES ELSE page.gate
             l == page.look
  <2>2. g \in BOOLEAN
    <3>1. page.gate \in BOOLEAN
      BY <1>2 DEF Page
    <3>2. (page.look \in BLOCKING_SUBSCRIPTION_STATUSES) \in BOOLEAN
      OBVIOUS
    <3>3. CASE changed
      BY <3>2, <3>3, Zenon
    <3>4. CASE ~changed
      BY <3>1, <3>4, Zenon
    <3> QED
      BY <3>3, <3>4
  <2>3. l \in SubscriptionStatuses /\ UNCHANGED <<backend, razorpay, view>>
    BY <1>7 DEF UsageApplied
  <2> HIDE DEF g
  <2>4. page' = [page EXCEPT !.look = "none", !.usage = l, !.gate = g]
    BY <2>1 DEF g
  <2> HIDE DEF l
  <2> DEFINE p == [page EXCEPT !.look = "none"]
             q == [p EXCEPT !.usage = l]
             r == [q EXCEPT !.gate = g]
  <2>5. p \in Page /\ p.pay = page.pay /\ p.order = page.order
    BY <1>2 DEF Page
  <2> HIDE DEF p
  <2>6. q \in Page /\ q.pay = page.pay /\ q.order = page.order
    BY <2>3, <2>5 DEF Page
  <2> HIDE DEF q
  <2>7. \A b \in BOOLEAN : /\ [q EXCEPT !.gate = b] \in Page
                            /\ [q EXCEPT !.gate = b].pay = page.pay
                            /\ [q EXCEPT !.gate = b].order = page.order
    BY <2>6 DEF Page
  <2>8. r \in Page /\ r.pay = page.pay /\ r.order = page.order
    BY <2>2, <2>7, Zenon
  <2>9. page' = r
    <3>1. r = [page EXCEPT !.look = "none", !.usage = l, !.gate = g]
      BY <1>2 DEF p, q, Page
    <3> QED
      BY <2>4, <3>1
  <2> HIDE DEF r
  <2> QED
    BY <1>2, <2>3, <2>8, <2>9, BrowserOnly
<1>8. CASE enforce_subscription_access
  <2>1. CASE is_trial_overdue
    <3>1. /\ Begin(GatedRequest, suspend_for_trial_expiry, NoOrder, "no") /\ UNCHANGED <<razorpay, view>>
          /\ page' = [page EXCEPT !.call = "healing"]
      BY <1>8, <2>1 DEF enforce_subscription_access
    <3>2. bank' = bank /\ events' = events
      BY <3>1 DEF razorpay
    <3>3. suspend_for_trial_expiry \in Row /\ suspend_for_trial_expiry.status = "suspended"
      BY <1>1, RowEdits DEF suspend_for_trial_expiry, SubscriptionStatuses
    <3>4. GatedRequest \in Workers
      BY DEF Workers
    <3>5. RowsOK' /\ NoFreeRide' /\ UNCHANGED <<row, order, granted>>
      BY <1>1, <3>1, <3>2, <3>3, <3>4, BeginStep
    <3>6. RazorpayOK'
      BY <1>1, <3>2, <3>5, QuietRazorpay
    <3>7. PagesOK'
      BY <1>1, <1>2, <1>4, <3>1 DEF PagesOK
    <3> QED
      BY <3>5, <3>6, <3>7 DEF SubscriptionInv
  <2>2. CASE ~is_trial_overdue
    <3>1. page' = [page EXCEPT !.call = "refused"] /\ UNCHANGED <<backend, razorpay, view>>
      BY <1>8, <2>2 DEF enforce_subscription_access
    <3> QED
      BY <1>2, <1>4, <3>1, BrowserOnly
  <2> QED
    BY <2>1, <2>2
<1>9. CASE SelfHealed
  <2>1. /\ Commit(GatedRequest) /\ UNCHANGED <<granted, razorpay, view>>
        /\ page' = [page EXCEPT !.call = IF page.call = "healing" THEN "refused" ELSE page.call]
    BY <1>9 DEF SelfHealed
  <2>2. bank' = bank /\ events' = events
    BY <2>1 DEF razorpay
  <2>3. GatedRequest \in Workers /\ GatedRequest # Admin
    BY DEF Workers, GatedRequest, Admin
  <2>4. /\ RowsOK' /\ NoFreeRide'
        /\ \A o \in Orders : order[o].status # "none" => order'[o].status # "none"
    BY <1>1, <2>1, <2>2, <2>3, CommitStep
  <2>5. RazorpayOK'
    BY <1>1, <2>2, <2>4, QuietRazorpay
  <2>6. page.call \in {"none", "healing", "refused"}
    BY <1>2 DEF Page
  <2>7. \E x \in {"none", "healing", "refused"} : page' = [page EXCEPT !.call = x]
    BY <2>1, <2>6
  <2>8. PagesOK'
    BY <1>1, <1>2, <1>4, <2>1, <2>7 DEF PagesOK
  <2> QED
    BY <2>4, <2>5, <2>8 DEF SubscriptionInv
<1>10. CASE Answered
  <2>1. page' = [page EXCEPT !.call = "none", !.gate = TRUE] /\ UNCHANGED <<backend, razorpay, view>>
    BY <1>10 DEF Answered
  <2> DEFINE p == [page EXCEPT !.call = "none"]
  <2>2. p \in Page /\ p.pay = page.pay /\ p.order = page.order
    BY <1>4
  <2>3. page' = [p EXCEPT !.gate = TRUE]
    BY <2>1
  <2> HIDE DEF p
  <2>4. page' \in Page /\ page'.pay = page.pay /\ page'.order = page.order
    BY <2>2, <2>3 DEF Page
  <2> QED
    BY <1>2, <2>1, <2>4, BrowserOnly
<1> QED
  BY <1>5, <1>6, <1>7, <1>8, <1>9, <1>10 DEF Browser

(***************************************************************************)
(* What a payment makes of the row: active, and of a type.                 *)
(***************************************************************************)
LEMMA CapturedBegins ==
    ASSUME RowsOK, NoFreeRide, RazorpayOK, NEW w \in Workers, NEW o \in Orders, bank[o] = "captured",
           Begin(w, _activate_from_payment, o, "paid"), UNCHANGED bank
    PROVE  RowsOK' /\ NoFreeRide' /\ UNCHANGED <<row, order, granted>>
<1>1. _activate_from_payment \in Row
  BY RowEdits DEF RowsOK
<1>2. order[o].status # "none" /\ o # NoOrder
  BY SubscriptionAssumption DEF RazorpayOK
<1> QED
  BY <1>1, <1>2, BeginStep

(***************************************************************************)
(* The window opens for an order, or is done with one.                     *)
(***************************************************************************)
LEMMA PayEdits ==
    ASSUME page \in Page, NEW x \in PayStages, NEW o \in Orders \union {NoOrder}
    PROVE  LET p == [page EXCEPT !.pay = x, !.order = o]
           IN  p \in Page /\ p.pay = x /\ p.order = o
<1> DEFINE q == [page EXCEPT !.pay = x]
           r == [q EXCEPT !.order = o]
<1>1. q \in Page /\ q.pay = x
  BY DEF Page
<1>2. r = [page EXCEPT !.pay = x, !.order = o]
  BY DEF Page
<1> HIDE DEF q
<1>3. r \in Page /\ r.pay = x /\ r.order = o
  BY <1>1 DEF Page
<1> HIDE DEF r
<1> QED
  BY <1>2, <1>3

(***************************************************************************)
(* The tenant presses the button: an order that was never paid for, nor     *)
(* offered, at the price of the plan it has.                               *)
(***************************************************************************)
LEMMA OrderStep ==
    ASSUME SubscriptionInv, NEW o \in Orders, usePaySubscription(o)
    PROVE  SubscriptionInv'
<1>1. RowsOK /\ NoFreeRide /\ RazorpayOK /\ PagesOK /\ row \in Row /\ granted \in BOOLEAN
  BY DEF SubscriptionInv, RowsOK
<1>2. page \in Page /\ (page.pay # "idle" <=> page.order # NoOrder)
  BY <1>1 DEF PagesOK
<1>3. /\ row.plan \in Priced /\ order[o].status = "none"
      /\ order' = [order EXCEPT ![o] = [status |-> "created", plan |-> row.plan]]
      /\ UNCHANGED <<row, txn, granted, events, view>>
      /\ \/ /\ page' = [page EXCEPT !.pay = "open", !.order = o]
            /\ bank' = [bank EXCEPT ![o] = "offered"]
         \/ UNCHANGED <<page, bank>>
  BY DEF usePaySubscription, create_checkout_order
<1>4. [status |-> "created", plan |-> row.plan] \in Payment
  BY <1>1 DEF Row, Payment
<1>5. /\ order' \in [Orders -> Payment]
      /\ order'[o].status = "created" /\ order'[o].plan = row.plan
      /\ \A v \in Orders \ {o} : order'[v] = order[v]
  BY <1>1, <1>3, <1>4 DEF RowsOK
<1>6. \A v \in Orders : order[v].status # "none" => order'[v] = order[v]
  BY <1>3, <1>5
<1>7. bank[o] = "none" /\ bank \in [Orders -> {"none", "offered", "captured"}]
  BY <1>1, <1>3 DEF RazorpayOK
<1>8. /\ bank' \in [Orders -> {"none", "offered", "captured"}]
      /\ \A v \in Orders \ {o} : bank'[v] = bank[v]
      /\ \A v \in Orders : bank[v] = "captured" => bank'[v] = "captured"
  BY <1>3, <1>7
<1>9. ASSUME NEW w \in Workers
      PROVE  TransactionOK(w)'
  <2>1. TransactionOK(w) /\ txn[w] \in Transaction
    BY <1>1 DEF RowsOK
  <2>2. txn[w].order \in Orders \union {NoOrder}
    BY <2>1 DEF Transaction
  <2> QED
    BY <1>3, <1>6, <1>8, <2>1, <2>2 DEF TransactionOK
<1>10. \A v \in Orders : order'[v].status # "none" => order'[v].plan \in Priced
  BY <1>1, <1>3, <1>5 DEF RowsOK
<1>11. RowsOK'
  BY <1>1, <1>3, <1>5, <1>9, <1>10 DEF RowsOK
<1>12. NoFreeRide'
  <2>1. \A v \in Orders : bank[v] = "captured" => order[v].status # "none"
    BY <1>1 DEF RazorpayOK
  <2> QED
    BY <1>1, <1>3, <1>6, <1>8, <2>1 DEF NoFreeRide
<1>13. RazorpayOK'
  <2>1. \A v \in Orders : bank'[v] # "none" => order'[v].status # "none"
    BY <1>1, <1>5, <1>6, <1>8 DEF RazorpayOK
  <2>2. \A e \in events : e[2] \in Orders
    BY <1>1 DEF RazorpayOK, Event
  <2> QED
    BY <1>1, <1>3, <1>8, <2>1, <2>2 DEF RazorpayOK
<1>14. PagesOK'
  <2>1. "open" \in PayStages /\ o # NoOrder
    BY SubscriptionAssumption DEF PayStages
  <2>2. page' \in Page /\ (page'.pay # "idle" <=> page'.order # NoOrder)
    <3> DEFINE p == [page EXCEPT !.pay = "open", !.order = o]
    <3>1. p \in Page /\ p.pay = "open" /\ p.order = o
      BY <1>2, <2>1, PayEdits
    <3>2. page' = p \/ page' = page
      BY <1>3
    <3> HIDE DEF p
    <3> QED
      BY <1>2, <2>1, <3>1, <3>2
  <2> QED
    BY <1>1, <1>3, <2>2 DEF PagesOK
<1> QED
  BY <1>11, <1>12, <1>13, <1>14 DEF SubscriptionInv

(***************************************************************************)
(* Razorpay takes the money or refuses an attempt, and has it told.        *)
(***************************************************************************)
LEMMA MoneyStep ==
    ASSUME SubscriptionInv, NEW o \in Orders, AttemptFails(o) \/ Capture(o)
    PROVE  SubscriptionInv'
<1>1. RowsOK /\ NoFreeRide /\ RazorpayOK /\ PagesOK
  BY DEF SubscriptionInv
<1>2. UNCHANGED <<backend, view, page>> /\ events' \subseteq Event
  BY <1>1 DEF AttemptFails, Capture, RazorpayOK, Event
<1>3. /\ bank' \in [Orders -> {"none", "offered", "captured"}]
      /\ \A v \in Orders : bank[v] = "captured" => bank'[v] = "captured"
      /\ \A v \in Orders : bank'[v] # "none" => bank[v] # "none"
  BY <1>1 DEF AttemptFails, Capture, RazorpayOK
<1>4. RowsOK' /\ NoFreeRide'
  BY <1>1, <1>2, <1>3, QuietServer
<1>5. order' = order
  BY <1>2 DEF backend
<1>6. \A e \in events' : e[1] = "captured" => bank'[e[2]] = "captured"
  <2>1. \A e \in events : e[2] \in Orders
    BY <1>1 DEF RazorpayOK, Event
  <2>2. CASE AttemptFails(o)
    BY <1>1, <2>2 DEF AttemptFails, RazorpayOK
  <2>3. CASE Capture(o)
    <3>1. bank'[o] = "captured" /\ events' = events \union {<<"captured", o>>}
      BY <1>1, <2>3 DEF Capture, RazorpayOK
    <3> QED
      BY <1>1, <1>3, <2>1, <3>1 DEF RazorpayOK
  <2> QED
    BY <2>2, <2>3
<1>7. RazorpayOK'
  BY <1>1, <1>2, <1>3, <1>5, <1>6 DEF RazorpayOK
<1>8. PagesOK'
  BY <1>1, <1>2 DEF PagesOK
<1> QED
  BY <1>4, <1>7, <1>8 DEF SubscriptionInv

(***************************************************************************)
(* The window closes, and the browser has the payment verified.            *)
(***************************************************************************)
LEMMA VerifyStep ==
    ASSUME SubscriptionInv, Dismissed \/ verifyPayment \/ verify_and_activate
    PROVE  SubscriptionInv'
<1>1. RowsOK /\ NoFreeRide /\ RazorpayOK /\ PagesOK /\ row \in Row /\ granted \in BOOLEAN
  BY DEF SubscriptionInv, RowsOK
<1>2. page \in Page /\ (page.pay # "idle" <=> page.order # NoOrder)
  BY <1>1 DEF PagesOK
<1>3. "idle" \in PayStages /\ "confirming" \in PayStages
  BY DEF PayStages
<1>4. LET p == [page EXCEPT !.pay = "idle", !.order = NoOrder]
      IN  p \in Page /\ p.pay = "idle" /\ p.order = NoOrder
  BY <1>2, <1>3, PayEdits
<1>5. ASSUME NEW l \in SubscriptionStatuses \union {"none"}
      PROVE  LET p == [page EXCEPT !.pay = "idle", !.order = NoOrder, !.look = l]
             IN  p \in Page /\ p.pay = "idle" /\ p.order = NoOrder
  <2> DEFINE z == [page EXCEPT !.pay = "idle"]
             q == [z EXCEPT !.order = NoOrder]
             r == [q EXCEPT !.look = l]
  <2>1. q \in Page /\ q.pay = "idle" /\ q.order = NoOrder
    <3>1. q = [page EXCEPT !.pay = "idle", !.order = NoOrder]
      BY <1>2 DEF Page
    <3> QED
      BY <1>4, <3>1
  <2>2. r = [page EXCEPT !.pay = "idle", !.order = NoOrder, !.look = l]
    BY <1>2 DEF Page
  <2> HIDE DEF q, z
  <2>3. r \in Page /\ r.pay = "idle" /\ r.order = NoOrder
    BY <2>1 DEF Page
  <2> HIDE DEF r
  <2> QED
    BY <2>2, <2>3
<1>6. Verify \in Workers /\ Verify # Admin
  BY DEF Workers, Verify, Admin
<1>7. CASE Dismissed
  BY <1>4, <1>7, BrowserOnly DEF Dismissed
<1>8. CASE verifyPayment
  <2>1. page.order \in Orders /\ bank[page.order] = "captured" /\ page.pay = "open"
    BY <1>2, <1>8 DEF verifyPayment, Page
  <2>2. CASE order[page.order].status = "paid"
    <3>1. /\ page' = [page EXCEPT !.pay = "idle", !.order = NoOrder, !.look = "none"]
          /\ UNCHANGED <<backend, razorpay, view>>
      BY <1>8, <2>2 DEF verifyPayment
    <3> QED
      BY <1>5, <3>1, BrowserOnly
  <2>3. CASE order[page.order].status # "paid"
    <3>1. /\ Begin(Verify, _activate_from_payment, page.order, "paid")
          /\ page' = [page EXCEPT !.pay = "confirming"] /\ UNCHANGED <<razorpay, view>>
      BY <1>8, <2>3 DEF verifyPayment
    <3>2. bank' = bank /\ events' = events
      BY <3>1 DEF razorpay
    <3>3. RowsOK' /\ NoFreeRide' /\ UNCHANGED <<row, order, granted>>
      BY <1>1, <1>6, <2>1, <3>1, <3>2, CapturedBegins
    <3>4. RazorpayOK'
      BY <1>1, <3>2, <3>3, QuietRazorpay
    <3>5. page' \in Page /\ page'.pay = "confirming" /\ page'.order = page.order
      BY <1>2, <1>3, <3>1 DEF Page
    <3>6. PagesOK'
      BY <1>1, <1>2, <2>1, <3>1, <3>5 DEF PagesOK
    <3> QED
      BY <3>3, <3>4, <3>6 DEF SubscriptionInv
  <2> QED
    BY <2>2, <2>3
<1>9. CASE verify_and_activate
  <2>1. Commit(Verify) /\ UNCHANGED <<granted, razorpay, view>>
    BY <1>9 DEF verify_and_activate
  <2>2. bank' = bank /\ events' = events
    BY <2>1 DEF razorpay
  <2>3. /\ RowsOK' /\ NoFreeRide'
        /\ \A o \in Orders : order[o].status # "none" => order'[o].status # "none"
    BY <1>1, <1>6, <2>1, <2>2, CommitStep
  <2>4. RazorpayOK'
    BY <1>1, <2>2, <2>3, QuietRazorpay
  <2>5. \/ page' = page
        \/ \E l \in {"none", page.look} : page' = [page EXCEPT !.pay = "idle", !.order = NoOrder, !.look = l]
    BY <1>9 DEF verify_and_activate
  <2>6. page.look \in SubscriptionStatuses \union {"none"}
    BY <1>2 DEF Page
  <2>7. page' \in Page /\ (page'.pay # "idle" <=> page'.order # NoOrder)
    BY <1>2, <1>5, <2>5, <2>6
  <2>8. PagesOK'
    BY <1>1, <2>1, <2>7 DEF PagesOK
  <2> QED
    BY <2>3, <2>4, <2>8 DEF SubscriptionInv
<1> QED
  BY <1>7, <1>8, <1>9

(***************************************************************************)
(* The webhook, however late and however often it is called.               *)
(***************************************************************************)
LEMMA WebhookStep ==
    ASSUME SubscriptionInv, NEW e \in Event, Webhook(e)
    PROVE  SubscriptionInv'
<1>1. RowsOK /\ NoFreeRide /\ RazorpayOK /\ PagesOK /\ row \in Row /\ granted \in BOOLEAN
  BY DEF SubscriptionInv, RowsOK
<1>2. e[1] \in {"captured", "failed"} /\ e[2] \in Orders /\ e = <<e[1], e[2]>> /\ e[2] # NoOrder
  BY SubscriptionAssumption DEF Event
<1>3. e \in Workers /\ e # Admin
  BY <1>2 DEF Workers, Admin
<1>4. CASE WebhookIgnored(e)
  <2>1. UNCHANGED <<backend, bank, view, page>> /\ events' \subseteq events
    BY <1>4 DEF WebhookIgnored
  <2>2. RowsOK' /\ NoFreeRide'
    BY <1>1, <2>1, QuietServer
  <2>3. RazorpayOK'
    BY <1>1, <2>1, QuietRazorpay DEF backend
  <2>4. PagesOK'
    BY <1>1, <2>1 DEF PagesOK
  <2> QED
    BY <2>2, <2>3, <2>4 DEF SubscriptionInv
<1>5. CASE handle_webhook(e)
  <2>1. e \in events /\ Wanted(e) /\ UNCHANGED <<razorpay, view, page>>
    BY <1>5 DEF handle_webhook
  <2>2. bank' = bank
    BY <2>1 DEF razorpay
  <2>3. RowsOK' /\ NoFreeRide' /\ UNCHANGED <<row, order, granted>>
    <3>1. CASE e[1] = "captured"
      <4>1. Begin(e, _activate_from_payment, e[2], "paid") /\ bank[e[2]] = "captured"
        BY <1>1, <1>5, <2>1, <3>1 DEF handle_webhook, RazorpayOK
      <4> QED
        BY <1>1, <1>2, <1>3, <2>2, <4>1, CapturedBegins
    <3>2. CASE e[1] # "captured"
      <4>1. Begin(e, row, e[2], "failed") /\ order[e[2]].status # "none"
        BY <1>2, <1>5, <2>1, <3>2 DEF handle_webhook, Wanted
      <4> QED
        BY <1>1, <1>2, <1>3, <2>2, <4>1, BeginStep
    <3> QED
      BY <3>1, <3>2
  <2> QED
    BY <2>1, <2>3, BackendOnly
<1>6. CASE WebhookCommit(e)
  <2>1. Commit(e) /\ UNCHANGED <<granted, bank, view, page>> /\ events' \subseteq events
    BY <1>6 DEF WebhookCommit
  <2>2. /\ RowsOK' /\ NoFreeRide'
        /\ \A o \in Orders : order[o].status # "none" => order'[o].status # "none"
    BY <1>1, <1>3, <2>1, CommitStep
  <2>3. RazorpayOK'
    BY <1>1, <2>1, <2>2, QuietRazorpay
  <2>4. PagesOK'
    BY <1>1, <2>1 DEF PagesOK
  <2> QED
    BY <2>2, <2>3, <2>4 DEF SubscriptionInv
<1> QED
  BY <1>4, <1>5, <1>6 DEF Webhook

(***************************************************************************)
(* Every step keeps the invariant.                                         *)
(***************************************************************************)
LEMMA NextInv ==
    ASSUME SubscriptionInv, [SubscriptionNext]_subscriptionVars
    PROVE  SubscriptionInv'
<1>1. CASE TrialEnds \/ _check_trials \/ run_subscription_check
  BY <1>1, CronStep
<1>2. CASE Administration
  BY <1>2, AdministrationStep
<1>3. CASE Browser \/ ReloadPage
  BY <1>3, BrowserStep
<1>4. CASE Paying
  BY <1>4, OrderStep, MoneyStep, VerifyStep DEF Paying
<1>5. CASE \E e \in Event : Webhook(e)
  BY <1>5, WebhookStep
<1>6. CASE UNCHANGED subscriptionVars
  <2>1. UNCHANGED <<backend, razorpay, view, page>>
    BY <1>6 DEF subscriptionVars
  <2>2. page' \in Page /\ (page'.pay # "idle" <=> page'.order # NoOrder)
    BY <2>1 DEF SubscriptionInv, PagesOK
  <2> QED
    BY <2>1, <2>2, BrowserOnly
<1> QED
  BY <1>1, <1>2, <1>3, <1>4, <1>5, <1>6 DEF SubscriptionNext

(***************************************************************************)
(* Every variable keeps its type: whatever overlaps, no column is given a   *)
(* value of another's, and what Razorpay holds belongs to an order there    *)
(* is.                                                                     *)
(***************************************************************************)
THEOREM SubscriptionTypeCorrect == SubscriptionSpec => []SubscriptionTypeOK
<1>1. SubscriptionInv => SubscriptionTypeOK
  BY DEF SubscriptionInv, RowsOK, RazorpayOK, PagesOK, SubscriptionTypeOK
<1> QED
  BY <1>1, InitInv, NextInv, PTL DEF SubscriptionSpec

(***************************************************************************)
(* Nobody is active for nothing, however the daily job, the self-healing    *)
(* request, the operator, the browser and a webhook that repeats itself     *)
(* overlap, each writing over what the others committed: _activate_from_    *)
(* payment() is reached only with a captured payment, and an order is       *)
(* created only for a plan with a price.                                   *)
(***************************************************************************)
THEOREM NobodyRidesFree == SubscriptionSpec => []NoFreeRide
<1>1. SubscriptionInv => NoFreeRide
  BY DEF SubscriptionInv
<1> QED
  BY <1>1, InitInv, NextInv, PTL DEF SubscriptionSpec
=============================================================================
