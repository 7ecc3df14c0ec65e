------------------------------ MODULE Printing ------------------------------
(***************************************************************************)
(* A till's browser printing (src/billing-app/src/lib/printing and its      *)
(* callers) through the Print Agent of module PrintAgent, or another         *)
(* transport: which transport a print takes, the connection the prints of   *)
(* one tab share, the request and its answer, and what the cashier is told. *)
(*                                                                         *)
(* A call stands for one print action.  It draws a fresh job id, so the     *)
(* call's own name serves as its job id.                                   *)
(***************************************************************************)
EXTENDS PrintAgent

CONSTANTS
    AutoReceipts,  \* automatic receipts, one per completed sale
    HandReceipts,  \* receipts somebody prints by hand
    Kot,           \* kitchen tickets
    Modes,         \* device modes the owner chooses among
    MaxEdits,      \* bound: changes of the printing settings
    None

Calls == AutoReceipts \union HandReceipts \union Kot

ASSUME PrintingAssumption ==
    /\ Jobs = Calls
    /\ None \notin Conns
    /\ Modes \subseteq {"agent", "qz", "web", "dialog"}
    /\ MaxEdits \in Nat

VARIABLES
    server,      \* settings.auto_print_device_mode of the tenant
    override,    \* this device's own mode in localStorage
    prefs,       \* the business preferences the POS page holds
    dialogMode,  \* the mode InvoiceSuccessDialog took when it was mounted
    edits,       \* changes of settings so far
    enrol,       \* pairing as the browser sees it
    sock,        \* the module-level socket of printAgentClient.ts
    phase,       \* of the shared connectingPromise: "no", "token", "socket"
    attempt,     \* the WebSocket that attempt opened
    call         \* call |-> where it is, its document, its transport and connection

browserVars == <<server, override, prefs, dialogMode, edits, enrol, sock, phase, attempt, call>>
vars == <<agentVars, browserVars>>

Waiting == {"connecting", "encoding", "sent", "printing", "okd", "erred", "direct"}
Ended == {"printed", "failed", "tab"}

Call == [st : {"idle"} \union Waiting \union Ended, doc : {"thermal", "pdf"},
         via : {"none", "agent", "direct", "tab"}, conn : Conns \union {None}]

\* Every variable has its type, with the job table indexed by the calls; a call
\* that is with the agent names the connection it went out on.
TypeOK ==
    /\ AgentTypeOK
    /\ server \in Modes \union {"none"}
    /\ override \in Modes \union {"none", "agent"}
    /\ prefs \in Modes \union {"none", "unloaded"}
    /\ dialogMode \in Modes \union {"none", "agent"}
    /\ edits \in 0..MaxEdits
    /\ enrol \in {"no", "code", "listed", "known"}
    /\ sock \in Conns \union {None} /\ attempt \in Conns \union {None}
    /\ phase \in {"no", "token", "socket"}
    /\ phase = "socket" <=> attempt # None
    /\ call \in [Calls -> Call]
    /\ \A k \in Calls : call[k].st \in {"sent", "printing", "okd", "erred"} => call[k].conn # None

\* A till set up by an earlier build may still hold "agent" as its override.
Init ==
    /\ AgentInit
    /\ server \in Modes \union {"none"}
    /\ override \in {"none", "agent"}
    /\ prefs = "unloaded"
    /\ dialogMode = override
    /\ edits = 0
    /\ enrol = "no"
    /\ sock = None /\ attempt = None /\ phase = "no"
    /\ call = [k \in Calls |-> [st |-> "idle", doc |-> "thermal", via |-> "none", conn |-> None]]

-----------------------------------------------------------------------------
(* Settings and pairing. *)

isDeviceBoundMode(m) == m = "web"
resolveDeviceMode(m) == IF override # "none" THEN override ELSE IF m = "unloaded" THEN "none" ELSE m

(* The owner picks a mode in this browser, and saves the form or does not:   *)
(* the override changes at once, the tenant's setting with the save.         *)
handleDeviceModeChange(m, saved) ==
    /\ edits < MaxEdits
    /\ edits' = edits + 1
    /\ override' = IF isDeviceBoundMode(m) THEN m ELSE "none"
    /\ server' = IF saved THEN m ELSE server
    /\ UNCHANGED <<agentVars, prefs, dialogMode, enrol, sock, phase, attempt, call>>

(* The setting is saved on another till. *)
SavedElsewhere(m) ==
    /\ edits < MaxEdits
    /\ edits' = edits + 1
    /\ server' = m
    /\ UNCHANGED <<agentVars, override, prefs, dialogMode, enrol, sock, phase, attempt, call>>

(* The POS page's query for the business preferences answers. *)
PreferencesLoaded ==
    /\ prefs # server
    /\ prefs' = server
    /\ UNCHANGED <<agentVars, server, override, dialogMode, edits, enrol, sock, phase, attempt, call>>

(* The POS page is opened: the dialog is mounted with it, long before a sale  *)
(* is completed, and takes its mode from what the page holds at that moment. *)
MountPOSPage ==
    /\ dialogMode # resolveDeviceMode(prefs)
    /\ dialogMode' = resolveDeviceMode(prefs)
    /\ UNCHANGED <<agentVars, server, override, prefs, edits, enrol, sock, phase, attempt, call>>

(* connectPrintAgent(): ask for a code; the agent's own page exchanges it;    *)
(* polling finds the new device, or gives up after two minutes.              *)
requestPairingCode ==
    /\ enrol \in {"no", "known"} /\ ~config.paired /\ pairing = "idle" /\ up
    /\ enrol' = "code"
    /\ UNCHANGED <<agentVars, server, override, prefs, dialogMode, edits, sock, phase, attempt, call>>

CodeExchanged ==
    /\ enrol = "code"
    /\ ExchangeCode
    /\ enrol' = "listed"
    /\ UNCHANGED <<server, override, prefs, dialogMode, edits, sock, phase, attempt, call>>

waitForPairing ==
    /\ \/ enrol = "listed" /\ enrol' = "known"
       \/ enrol \in {"code", "listed"} /\ enrol' = "no"
    /\ UNCHANGED <<agentVars, server, override, prefs, dialogMode, edits, sock, phase, attempt, call>>

getPairedDeviceId == enrol = "known"

-----------------------------------------------------------------------------
(* A print begins: which transport takes it. *)

dispatchSilentPrint(mode, doc) ==
    CASE mode = "agent" -> "agent"
      [] mode = "qz" -> "direct"
      [] mode = "web" /\ doc = "thermal" -> "direct"
      [] OTHER -> "tab"

(* The kitchen printer follows the device's override only. *)
sendOnce == IF override = "agent" THEN "agent" ELSE "direct"

isOpen == sock # None /\ conn[sock] \in {"open", "dead"}

(* ensureConnected(), then rpc(): over an open socket a receipt is sent at    *)
(* once and a PDF after it is encoded; otherwise the call waits for the one   *)
(* attempt to connect all calls share.                                       *)
Begin(k, doc, via) ==
    /\ call[k].st = "idle"
    /\ LET next == CASE via # "agent" -> via
                     [] isOpen -> IF doc = "pdf" THEN "encoding" ELSE "sent"
                     [] phase = "no" /\ ~getPairedDeviceId -> "failed"
                     [] OTHER -> "connecting"
       IN /\ call' = [call EXCEPT ![k] = [st |-> next, doc |-> doc, via |-> via,
                                          conn |-> IF next = "sent" THEN sock ELSE None]]
          /\ phase' = IF next = "connecting" /\ phase = "no" THEN "token" ELSE phase
    /\ UNCHANGED <<agentVars, server, override, prefs, dialogMode, edits, enrol, sock, attempt>>

(* The effect of InvoiceSuccessDialog, once per invoice. *)
AutoPrint(k) ==
    /\ k \in AutoReceipts /\ prefs # "unloaded"
    /\ \E doc \in {"thermal", "pdf"} : Begin(k, doc, dispatchSilentPrint(dialogMode, doc))

(* printInvoiceSilently() reads the preferences afresh. *)
printInvoiceSilently(k) ==
    /\ k \in HandReceipts
    /\ \E doc \in {"thermal", "pdf"} : Begin(k, doc, dispatchSilentPrint(resolveDeviceMode(server), doc))

printKot(k) == k \in Kot /\ Begin(k, "thermal", sendOnce)

(* The other transports: a promise that resolves or rejects. *)
DirectResult(k) ==
    /\ call[k].st = "direct"
    /\ \E st \in {"printed", "failed"} : call' = [call EXCEPT ![k].st = st]
    /\ UNCHANGED <<agentVars, server, override, prefs, dialogMode, edits, enrol, sock, phase, attempt>>

-----------------------------------------------------------------------------
(* doConnect(): one attempt, shared by the calls that wait for it. *)

Waiters == {k \in Calls : call[k].st = "connecting"}
(* Mutant of RejectWaiters: a failed attempt forgets who waits for it. *)
RejectNobody == UNCHANGED call
RejectWaiters == call' = [k \in Calls |-> IF k \in Waiters THEN [call[k] EXCEPT !.st = "failed"] ELSE call[k]]
ReleaseWaiters ==
    call' = [k \in Calls |->
               IF k \notin Waiters THEN call[k]
               ELSE IF call[k].doc = "pdf" THEN [call[k] EXCEPT !.st = "encoding"]
               ELSE [call[k] EXCEPT !.st = "sent", !.conn = attempt]]
Settled == phase' = "no" /\ attempt' = None

SessionTokenAnswered ==
    /\ phase = "token"
    /\ \/ /\ \E c \in Conns : conn[c] = "unused"
          /\ attempt' = CHOOSE c \in Conns : conn[c] = "unused"
          /\ conn' = [conn EXCEPT ![attempt'] = "opening"]
          /\ phase' = "socket"
          /\ UNCHANGED call
       \/ RejectWaiters /\ Settled /\ UNCHANGED conn
    /\ UNCHANGED <<up, crashes, config, disk, pairing, job, run, inked, tokens>>
    /\ UNCHANGED <<server, override, prefs, dialogMode, edits, enrol, sock>>

(* No agent listens, or it refuses the handshake. *)
onerror ==
    /\ phase = "socket" /\ conn[attempt] = "opening"
    /\ conn' = [conn EXCEPT ![attempt] = "closed"]
    /\ sock' = None
    /\ RejectWaiters /\ Settled
    /\ UNCHANGED <<up, crashes, config, disk, pairing, job, run, inked, tokens>>
    /\ UNCHANGED <<server, override, prefs, dialogMode, edits, enrol>>

(* Five seconds without an answer; closing the socket lets its close event    *)
(* come later.                                                               *)
ConnectTimeout ==
    /\ phase = "socket"
    /\ conn' = [conn EXCEPT ![attempt] = IF @ = "closed" THEN @ ELSE "dead"]
    /\ RejectWaiters /\ Settled
    /\ UNCHANGED <<up, crashes, config, disk, pairing, job, run, inked, tokens>>
    /\ UNCHANGED <<server, override, prefs, dialogMode, edits, enrol, sock>>

(* The answer to the auth message. *)
AuthAnswered ==
    /\ phase = "socket"
    /\ \/ /\ conn[attempt] = "authed"
          /\ conn' = [conn EXCEPT ![attempt] = "open"]
          /\ sock' = attempt
          /\ ReleaseWaiters
       \/ /\ conn[attempt] = "refused"
          /\ conn' = [conn EXCEPT ![attempt] = "dead"]
          /\ sock' = sock
          /\ RejectWaiters
    /\ Settled
    /\ UNCHANGED <<up, crashes, config, disk, pairing, job, run, inked, tokens>>
    /\ UNCHANGED <<server, override, prefs, dialogMode, edits, enrol>>

(* The close event of any socket clears the module's one, whichever that is. *)
onclose(c) ==
    /\ conn[c] = "dead"
    /\ conn' = [conn EXCEPT ![c] = "closed"]
    /\ sock' = None
    /\ UNCHANGED <<up, crashes, config, disk, pairing, job, run, inked, tokens>>
    /\ UNCHANGED <<server, override, prefs, dialogMode, edits, enrol, phase, attempt, call>>

-----------------------------------------------------------------------------
(* The request and its answer. *)

(* The PDF is encoded: it goes out on the socket there is now. *)
blobToBase64(k) ==
    /\ call[k].st = "encoding"
    /\ call' = [call EXCEPT ![k].st = IF sock = None THEN "failed" ELSE "sent", ![k].conn = sock]
    /\ UNCHANGED <<agentVars, server, override, prefs, dialogMode, edits, enrol, sock, phase, attempt>>

(* handleMessage() of the agent: rate limit, then runPrintJob(). *)
AgentTakes(k) ==
    /\ up /\ call[k].st = "sent" /\ conn[call[k].conn] = "open"
    /\ \/ tokens = 0 /\ call' = [call EXCEPT ![k].st = "erred"] /\ UNCHANGED <<tokens, job, run>>
       \/ /\ tokens > 0
          /\ tokens' = tokens - 1
          /\ Enqueue(k)
          /\ call' = [call EXCEPT ![k].st = AnswerTo(k)]
    /\ UNCHANGED <<up, crashes, config, disk, pairing, inked, conn>>
    /\ UNCHANGED <<server, override, prefs, dialogMode, edits, enrol, sock, phase, attempt>>

BytesOut(k) == Ink(k, call[k].doc) /\ UNCHANGED browserVars

AgentAnswers(k) ==
    /\ call[k].st = "printing"
    /\ \E ok \in BOOLEAN :
         JobDone(k, ok) /\ call' = [call EXCEPT ![k].st = IF ok THEN "okd" ELSE "erred"]
    /\ UNCHANGED <<server, override, prefs, dialogMode, edits, enrol, sock, phase, attempt>>

(* The answer settles the rpc: the cashier sees "sent to printer", or the     *)
(* fallback - a print tab for a receipt, a warning for a kitchen ticket.      *)
onmessage(k) ==
    /\ call[k].st \in {"okd", "erred"} /\ conn[call[k].conn] = "open"
    /\ call' = [call EXCEPT ![k].st = IF @ = "okd" THEN "printed" ELSE "failed"]
    /\ UNCHANGED <<agentVars, server, override, prefs, dialogMode, edits, enrol, sock, phase, attempt>>

-----------------------------------------------------------------------------
AgentAlone ==
    \/ StartAgent \/ Crash \/ SaveIdentity \/ EnsureTokenPublicKey \/ Refill
    \/ \E c \in Conns : Accept(c) \/ Authenticate(c)
    \/ \E j \in Jobs : Repeat(j) \/ Cancel(j)

Connect == SessionTokenAnswered \/ onerror \/ ConnectTimeout \/ AuthAnswered

Next ==
    \/ AgentAlone /\ UNCHANGED browserVars
    \/ \E m \in Modes : SavedElsewhere(m) \/ \E saved \in BOOLEAN : handleDeviceModeChange(m, saved)
    \/ PreferencesLoaded \/ MountPOSPage
    \/ requestPairingCode \/ CodeExchanged \/ waitForPairing
    \/ Connect
    \/ \E c \in Conns : onclose(c)
    \/ \E k \in Calls :
         \/ AutoPrint(k) \/ printInvoiceSilently(k) \/ printKot(k)
         \/ DirectResult(k) \/ blobToBase64(k)
         \/ AgentTakes(k) \/ BytesOut(k) \/ AgentAnswers(k) \/ onmessage(k)

(* Timers fire, answers that are on their way arrive, and an adapter's promise *)
(* settles.  Nothing obliges anybody to print, to pair, or to start the agent. *)
Fairness ==
    /\ WF_vars(Connect)
    /\ \A k \in Calls :
         /\ WF_vars(DirectResult(k)) /\ WF_vars(blobToBase64(k)) /\ WF_vars(AgentTakes(k))
         /\ WF_vars(AgentAnswers(k)) /\ WF_vars(onmessage(k))

Spec == Init /\ [][Next]_vars /\ Fairness

-----------------------------------------------------------------------------
(* A job id is printed at most once, whatever is repeated, cancelled or       *)
(* restarted: "never as a second physical print" (server.ts:10).              *)
NeverASecondPrint == \A j \in Jobs : inked[j] <= 1

(* Nothing is called done that did not reach the printer: neither a record of *)
(* the job table, also after a restart, nor the message the cashier got.      *)
DoneIsOnPaper ==
    \A k \in Calls :
        job[k] = "completed" \/ (call[k].st = "printed" /\ call[k].via = "agent") => inked[k] > 0

(* A print that began ends, in success or in its fallback, as long as the     *)
(* agent keeps the connection it went out on.                                *)
ConnectionLost(k) == call[k].conn # None /\ conn[call[k].conn] \in {"dead", "closed"}
EveryPrintEnds ==
    \A k \in Calls : (call[k].st \in Waiting) ~> (call[k].st \in Ended \/ ConnectionLost(k))

-----------------------------------------------------------------------------
(* What the code says of itself and does not do. *)

(* "Never silent": whoever prints is told how it ended (kotPrint.ts:24-28,    *)
(* InvoiceSuccessDialog.tsx:38-40).  The agent dies with the request in hand, *)
(* and the promise of rpc() never settles.                                   *)
NeverSilent == \A k \in Calls : (call[k].st \in Waiting) ~> (call[k].st \in Ended)

(* "Which transport this till prints through - the tenant-wide setting, with  *)
(* this device's own override on top" (InvoiceSuccessDialog.tsx:57-58).  The   *)
(* dialog keeps the mode it found when the page was opened.                  *)
AutoPrintFollowsTheSetting ==
    [][\A k \in AutoReceipts : call[k].st = "idle" /\ call'[k].st # "idle" =>
          call'[k].via = dispatchSilentPrint(resolveDeviceMode(prefs), call'[k].doc)]_vars
=============================================================================
