------------------------------- MODULE Session -------------------------------
(***************************************************************************)
(* A signed-in browser (src/billing-app/src/lib/api-client.ts, features/   *)
(* auth/store/authStore.ts; the admin portal has the same two files) and    *)
(* the refresh tokens the backend keeps for it (backend/app/modules/auth).  *)
(* Several requests run at once and each refreshes on its own; accounts     *)
(* follow one another on one browser; pages are reloaded; answers are lost. *)
(*                                                                         *)
(* A token pair is its number in the order of issue, which also serves as   *)
(* the clock: a revocation is dated by how many pairs existed.  Pairs issued *)
(* within the second of an invalidation, which deps.py:49 spares, are not    *)
(* told apart from later ones.                                              *)
(***************************************************************************)
EXTENDS Naturals, Sequences, FiniteSets

CONSTANTS
    Accounts,   \* users of different tenants, in turn on this browser
    Slots,      \* requests in flight at once
    MaxPairs,   \* bound: token pairs issued
    None

ASSUME SessionAssumption ==
    /\ None \notin Accounts
    /\ MaxPairs \in Nat

VARIABLES
    issued,     \* the pairs: [who, access, refresh, revokedAt]
    cutoff,     \* account |-> session_invalidated_at
    dead,       \* ghost: pairs condemned by the reuse of a token
    successor,  \* ghost: pair that replaced the session of a changed password
    store,      \* the pair in localStorage, 0 when there is none
    user,       \* the auth store: who the pages show as signed in
    gate,       \* subscriptionGateStore: whose block it shows
    leaving,    \* whether logout() waits for the answer to its call
    req         \* slot |-> the request in it

server == <<issued, cutoff, dead, successor>>
auth == <<store, user, gate, leaving>>
vars == <<server, auth, req>>

Pairs == 1..Len(issued)
Pair == [who : Accounts, access : {"good", "expired"}, refresh : {"live", "revoked"},
         revokedAt : 0..MaxPairs]
Kinds == {"call", "password", "me"}
Stages == {"idle", "sent", "answered", "refreshing", "rotating", "rotated", "refused"}
Request == [st : Stages, kind : Kinds, with : 0..MaxPairs, retry : BOOLEAN,
            status : {0, 200, 401, 402}, tok : 0..MaxPairs, ran : Nat]

\* Every variable has its type, and what the browser holds was issued.
TypeOK ==
    /\ issued \in Seq(Pair) /\ Len(issued) <= MaxPairs
    /\ cutoff \in [Accounts -> 0..MaxPairs]
    /\ dead \subseteq Pairs
    /\ successor \subseteq Pairs
    /\ store \in Pairs \union {0}
    /\ user \in Accounts \union {None}
    /\ gate \in Accounts \union {None}
    /\ leaving \in BOOLEAN
    /\ req \in [Slots -> Request]
    /\ \A s \in Slots : req[s].with <= Len(issued) /\ req[s].tok <= Len(issued)

Idle == [st |-> "idle", kind |-> "call", with |-> 0, retry |-> TRUE, status |-> 0, tok |-> 0, ran |-> 0]

Init ==
    /\ issued = <<>>
    /\ cutoff = [a \in Accounts |-> 0]
    /\ dead = {} /\ successor = {}
    /\ store = 0 /\ user = None /\ gate = None
    /\ leaving = FALSE
    /\ req = [s \in Slots |-> Idle]

-----------------------------------------------------------------------------
(* The backend's tokens. *)

(* issue_tokens() *)
issue_tokens(a) == [who |-> a, access |-> "good", refresh |-> "live", revokedAt |-> 0]

LiveOf(a) == {p \in Pairs : issued[p].who = a /\ issued[p].refresh = "live"}

Revoke(tokens) ==
    [p \in Pairs |-> IF p \in tokens
                     THEN [issued[p] EXCEPT !.refresh = "revoked", !.revokedAt = Len(issued)]
                     ELSE issued[p]]

(* get_current_user(): the token, the subscription, then the invalidation. *)
Accepted(p) == p # 0 /\ issued[p].access = "good"
Current(p) == p > cutoff[issued[p].who]

(* An access token reaches its expiry. *)
Expire(p) ==
    /\ issued[p].access = "good"
    /\ issued' = [issued EXCEPT ![p].access = "expired"]
    /\ UNCHANGED <<cutoff, dead, successor, auth, req>>

(* Mutant of ReplayCutoff: an older replay moves the invalidation back. *)
ReplayCutoffLatest(p) == issued[p].revokedAt

(* Reuse of a revoked token invalidates what was issued before it was revoked. *)
ReplayCutoff(p) ==
    IF issued[p].revokedAt > cutoff[issued[p].who] THEN issued[p].revokedAt ELSE cutoff[issued[p].who]

(* rotate_refresh_token(), first half: the record is read.  One already       *)
(* revoked signs the account out everywhere; an expired one, an inactive      *)
(* user or a suspended tenant is just refused.                               *)
RotateRead(s) ==
    /\ req[s].st = "refreshing"
    /\ LET p == req[s].tok  a == issued[p].who IN
         \/ /\ issued[p].refresh = "revoked"
            /\ dead' = dead \union {q \in 1..issued[p].revokedAt : issued[q].who = a}
            /\ cutoff' = [cutoff EXCEPT ![a] = ReplayCutoff(p)]
            /\ issued' = Revoke(LiveOf(a))
            /\ req' = [req EXCEPT ![s].st = "refused"]
         \/ /\ issued[p].refresh = "live"
            /\ \E st \in {"rotating", "refused"} : req' = [req EXCEPT ![s].st = st]
            /\ UNCHANGED <<issued, cutoff, dead>>
    /\ UNCHANGED <<successor, auth>>

(* Mutant of RotateCommit: the answer carries a pair the commit did not store. *)
RotateBeforeCommit(s) ==
    /\ req[s].st = "rotating"
    /\ issued' = Revoke({req[s].tok})
    /\ req' = [req EXCEPT ![s].st = "rotated", ![s].tok = Len(issued) + 1]
    /\ UNCHANGED <<cutoff, dead, successor, auth>>

(* Second half: the commit, which no lock keeps from following another's. *)
RotateCommit(s) ==
    /\ req[s].st = "rotating"
    /\ \/ /\ Len(issued) < MaxPairs
          /\ issued' = Append(Revoke({req[s].tok}), issue_tokens(issued[req[s].tok].who))
          /\ req' = [req EXCEPT ![s].st = "rotated", ![s].tok = Len(issued) + 1]
       \/ req' = [req EXCEPT ![s].st = "refused"] /\ UNCHANGED issued
    /\ UNCHANGED <<cutoff, dead, successor, auth>>

-----------------------------------------------------------------------------
(* Signing in and out. *)

(* login() of a person at the login page: the backend issues the pair, the    *)
(* browser drops what the last session left and takes it - or the answer     *)
(* never comes.                                                              *)
login(a) ==
    /\ user = None /\ ~leaving /\ Len(issued) < MaxPairs
    /\ issued' = Append(issued, issue_tokens(a))
    /\ \/ store' = Len(issued) + 1 /\ user' = a /\ gate' = None
       \/ UNCHANGED <<store, user, gate>>
    /\ UNCHANGED <<cutoff, dead, successor, leaving, req>>

(* logout(), by hand or after half an hour without activity: first the call   *)
(* that revokes the refresh token, whose failure is ignored ...              *)
logout ==
    /\ user # None /\ ~leaving
    /\ leaving' = TRUE
    /\ \/ issued' = IF store # 0 THEN Revoke({store} \intersect LiveOf(issued[store].who)) ELSE issued
       \/ UNCHANGED issued
    /\ UNCHANGED <<cutoff, dead, successor, store, user, gate, req>>

(* ... then the browser forgets the session. *)
SignedOut ==
    /\ leaving
    /\ store' = 0 /\ user' = None /\ gate' = None
    /\ leaving' = FALSE
    /\ UNCHANGED <<server, req>>

(* The page is reloaded: every request and answer in flight is gone, and a    *)
(* stored session is taken up again with me().                               *)
Reload(s) ==
    /\ user' = None /\ gate' = None
    /\ leaving' = FALSE
    /\ req' = [t \in Slots |-> IF t = s /\ store # 0
                               THEN [Idle EXCEPT !.st = "sent", !.kind = "me", !.with = store]
                               ELSE Idle]
    /\ UNCHANGED <<server, store>>

(* AppShell's look at the billing usage, which is never blocked. *)
UsageLoaded ==
    /\ user # None /\ store # 0 /\ Accepted(store) /\ Current(store)
    /\ gate' \in {issued[store].who, None}
    /\ gate' # gate
    /\ UNCHANGED <<server, store, user, leaving, req>>

-----------------------------------------------------------------------------
(* request(): one call with its refresh and its second try. *)

Send(s, kind) ==
    /\ req[s].st = "idle" /\ user # None /\ kind # "me"
    /\ req' = [req EXCEPT ![s] = [Idle EXCEPT !.st = "sent", !.kind = kind, !.with = store]]
    /\ UNCHANGED <<server, auth>>

(* A call of a tenant whose subscription blocks it, now or since its last     *)
(* request, is refused with 402, even with an invalidated token.             *)
Statuses(s) ==
    LET p == req[s].with IN
    CASE ~Accepted(p) -> {401}
      [] Accepted(p) /\ req[s].kind = "call" -> {402, IF Current(p) THEN 200 ELSE 401}
      [] OTHER -> {IF Current(p) THEN 200 ELSE 401}

(* change_password(): every session of the account ends, and this one gets a  *)
(* pair of its own.                                                          *)
change_password(s) ==
    LET a == issued[req[s].with].who IN
    /\ Len(issued) < MaxPairs
    /\ cutoff' = [cutoff EXCEPT ![a] = Len(issued)]
    /\ issued' = Append(Revoke(LiveOf(a)), issue_tokens(a))
    /\ successor' = successor \union {Len(issued) + 1}

Serve(s) ==
    /\ req[s].st = "sent"
    /\ \E code \in Statuses(s) : LET granted == code = 200 /\ req[s].kind = "password" IN
         /\ req' = [req EXCEPT ![s] =
                      [req[s] EXCEPT !.st = "answered", !.status = code,
                                     !.ran = IF code = 200 THEN req[s].ran + 1 ELSE req[s].ran,
                                     !.tok = IF granted THEN Len(issued) + 1 ELSE req[s].tok]]
         /\ IF granted THEN change_password(s) ELSE UNCHANGED <<issued, cutoff, successor>>
    /\ UNCHANGED <<dead, auth>>

(* A request that ends without its data: me() at start-up clears the tokens,  *)
(* whatever the reason was.                                                  *)
Fails(s) ==
    /\ req' = [req EXCEPT ![s] = Idle]
    /\ store' = IF req[s].kind = "me" THEN 0 ELSE store

(* Mutant of Lost: a lost answer is tried again. *)
LostAndResent(s) ==
    /\ req[s].st \in {"sent", "answered"}
    /\ req' = [req EXCEPT ![s].st = "sent"]
    /\ UNCHANGED <<server, auth>>

(* The connection fails before the request arrived or before its answer did. *)
Lost(s) ==
    /\ req[s].st \in {"sent", "answered"}
    /\ Fails(s)
    /\ UNCHANGED <<server, user, gate, leaving>>

Succeeded(s) ==
    /\ req[s].st = "answered" /\ req[s].status = 200
    /\ req' = [req EXCEPT ![s] = Idle]
    /\ user' = IF req[s].kind = "me" THEN issued[req[s].with].who ELSE user
    /\ store' = IF req[s].kind = "password" THEN req[s].tok ELSE store  \* swapTokens()
    /\ UNCHANGED <<server, gate, leaving>>

SubscriptionRequired(s) ==
    /\ req[s].st = "answered" /\ req[s].status = 402
    /\ gate' = issued[req[s].with].who
    /\ Fails(s)
    /\ UNCHANGED <<server, user, leaving>>

(* A 401 starts a refresh of the request's own, with whatever token is stored *)
(* by now; the second time, or without a token, it is final.                 *)
Unauthorized(s) ==
    /\ req[s].st = "answered" /\ req[s].status = 401
    /\ IF req[s].retry /\ store # 0
       THEN req' = [req EXCEPT ![s] = [@ EXCEPT !.st = "refreshing", !.status = 0, !.with = 0, !.tok = store]]
            /\ UNCHANGED store
       ELSE Fails(s)
    /\ UNCHANGED <<server, user, gate, leaving>>

(* tryRefresh(): the new pair is stored over whatever is there, and the       *)
(* request goes out again; any failure empties the store, whatever is there. *)
tryRefresh(s) ==
    /\ \/ /\ req[s].st = "rotated"
          /\ store' = req[s].tok
          /\ req' = [req EXCEPT ![s].st = "sent", ![s].with = req[s].tok, ![s].tok = 0, ![s].retry = FALSE]
       \/ /\ req[s].st \in {"refused", "rotated", "refreshing"}  \* refused, or lost
          /\ store' = 0
          /\ req' = [req EXCEPT ![s] = Idle]
    /\ UNCHANGED <<server, user, gate, leaving>>

-----------------------------------------------------------------------------
Answer(s) == Succeeded(s) \/ SubscriptionRequired(s) \/ Unauthorized(s)

Next ==
    \/ \E p \in Pairs : Expire(p)
    \/ \E a \in Accounts : login(a)
    \/ logout \/ SignedOut \/ UsageLoaded
    \/ \E s \in Slots :
         \/ Reload(s) \/ \E kind \in Kinds : Send(s, kind)
         \/ Serve(s) \/ Lost(s) \/ Answer(s)
         \/ RotateRead(s) \/ RotateCommit(s) \/ tryRefresh(s)

Spec == Init /\ [][Next]_vars

-----------------------------------------------------------------------------
(* The second try after a refresh never carries out a request the first try  *)
(* carried out: a sale posted when the token ran out is one sale.            *)
ExecutedAtMostOnce == \A s \in Slots : req[s].ran <= 1

(* Once a refresh token was presented a second time, no pair issued before it *)
(* was revoked opens anything again, and none of them can be refreshed:       *)
(* "anything issued before the revocation ... is still invalidated"           *)
(* (auth/service.py:412).                                                    *)
ReplayedChainIsDead ==
    \A p \in dead : ~Current(p) /\ issued[p].refresh = "revoked"

-----------------------------------------------------------------------------
(* "Changing your password must not sign you out ... the session it replaced  *)
(* must survive" the dead token being presented once more                    *)
(* (tests/test_profile.py:86, :112; auth/service.py:409).  Reuse detection    *)
(* revokes every live refresh token, the successor's included.               *)
SuccessorSurvivesReplay ==
    [][\A s \in Slots : \A p \in successor :
          RotateRead(s) /\ issued[p].refresh = "live" /\ issued[req[s].tok].revokedAt < p => issued'[p].refresh = "live"]_vars
=============================================================================
