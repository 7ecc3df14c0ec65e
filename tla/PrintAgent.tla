----------------------------- MODULE PrintAgent -----------------------------
(***************************************************************************)
(* The RevGenAI Print Agent (src/print-agent): a process on the till's own *)
(* computer that prints what an authenticated browser sends it over a      *)
(* WebSocket.  Its job table (SQLite) and its configuration file survive a *)
(* crash; the connections, the jobs being printed and the rate limiter do  *)
(* not.                                                                    *)
(***************************************************************************)
EXTENDS Naturals, FiniteSets

CONSTANTS
    Conns,       \* WebSocket connections a browser may open
    Jobs,        \* print job ids (the UUIDs a browser draws)
    Burst,       \* capacity of the rate limiter's bucket
    Printer,     \* how the printer is attached: "os", "bluetooth", "usb", "network"
    MaxCrashes   \* bound: how often the agent's process dies

ASSUME AgentAssumption ==
    /\ Burst \in Nat \ {0}
    /\ MaxCrashes \in Nat
    /\ Printer \in {"os", "bluetooth", "usb", "network"}

VARIABLES
    up,        \* whether the process runs
    crashes,   \* how often it died
    config,    \* the configuration in memory
    disk,      \* config.json
    pairing,   \* how far pairDevice() got: "idle", "exchanged", "saved"
    job,       \* print_jobs: job id |-> status
    run,       \* job id |-> its runPrintJob(): "no", "going", "written" (bytes out)
    inked,     \* ghost: job id |-> how often its bytes reached the printer
    tokens,    \* the rate limiter's bucket
    conn       \* connection |-> its state, at whichever end moved last

agentVars == <<up, crashes, config, disk, pairing, job, run, inked, tokens, conn>>

JobStatus == {"none", "printing", "completed", "failed", "cancelled"}
Config == [paired : BOOLEAN, key : BOOLEAN]

\* "opening": handshake sent; "authing": the auth message is on its way or being
\* checked; "authed" and "refused": the agent's answer is on its way; "open":
\* the browser has the answer; "dead": one end is gone and the browser's
\* close event is still to come.
ConnState == {"unused", "opening", "authing", "authed", "refused", "open", "dead", "closed"}

\* States in which the agent holds its end of the connection.
Held == {"authing", "authed", "refused", "open"}

AgentTypeOK ==
    /\ up \in BOOLEAN
    /\ crashes \in 0..MaxCrashes
    /\ config \in Config /\ disk \in Config
    /\ pairing \in {"idle", "exchanged", "saved"}
    /\ job \in [Jobs -> JobStatus]
    /\ run \in [Jobs -> {"no", "going", "written"}]
    /\ inked \in [Jobs -> Nat]
    /\ tokens \in 0..Burst
    /\ conn \in [Conns -> ConnState]

NotPaired == [paired |-> FALSE, key |-> FALSE]

AgentInit ==
    /\ up = TRUE
    /\ crashes = 0
    /\ config = NotPaired /\ disk = NotPaired
    /\ pairing = "idle"
    /\ job = [j \in Jobs |-> "none"]
    /\ run = [j \in Jobs |-> "no"]
    /\ inked = [j \in Jobs |-> 0]
    /\ tokens = Burst
    /\ conn = [c \in Conns |-> "unused"]

-----------------------------------------------------------------------------
(* Which documents the attached printer takes.  Thermal transports refuse a  *)
(* PDF; the USB and the network adapter print only what was configure()d, and *)
(* index.ts configures neither.                                              *)
OsPrinterAdapter(doc) == TRUE
BluetoothSerialAdapter(doc) == doc = "thermal"
UsbEscPosAdapter(doc) == FALSE
NetworkAdapter(doc) == FALSE

Printable(doc) ==
    \/ Printer = "os" /\ OsPrinterAdapter(doc)
    \/ Printer = "bluetooth" /\ BluetoothSerialAdapter(doc)
    \/ Printer = "usb" /\ UsbEscPosAdapter(doc)
    \/ Printer = "network" /\ NetworkAdapter(doc)

(* OsPrinterAdapter.cancel throws; the other adapters have nothing to cancel *)
(* and return.                                                               *)
AdapterCancels == Printer # "os"

-----------------------------------------------------------------------------
(* The process: starting, dying, pairing.                                    *)

(* Mutant of Recovered: what was in flight is taken for done. *)
RecoveredAsDone == [j \in Jobs |-> IF job[j] = "printing" THEN "completed" ELSE job[j]]

(* The queue's constructor: whatever was in flight when the process ended    *)
(* did not finish.                                                           *)
Recovered == [j \in Jobs |-> IF job[j] = "printing" THEN "failed" ELSE job[j]]

(* main(): read the configuration, fetch the key when the device is paired   *)
(* and the backend answers, open the queue, listen, save the configuration.  *)
StartAgent ==
    /\ ~up
    /\ up' = TRUE
    /\ \E fetched \in BOOLEAN :
         config' = [disk EXCEPT !.key = @ \/ (disk.paired /\ fetched)]
    /\ disk' = config'
    /\ job' = Recovered
    /\ tokens' = Burst
    /\ UNCHANGED <<crashes, pairing, run, inked, conn>>

(* The process dies, whatever it was doing. *)
Crash ==
    /\ up /\ crashes < MaxCrashes
    /\ up' = FALSE
    /\ crashes' = crashes + 1
    /\ config' = disk
    /\ pairing' = "idle"
    /\ run' = [j \in Jobs |-> "no"]
    /\ conn' = [c \in Conns |-> IF conn[c] \in Held THEN "dead" ELSE conn[c]]
    /\ UNCHANGED <<disk, job, inked, tokens>>

(* pairDevice() in the steps a crash can separate: the code is exchanged and  *)
(* the identity noted in memory; the file is written; the verification key    *)
(* is fetched and saved, or the fetch fails and pairing reports an error with *)
(* the identity already in place.                                            *)
ExchangeCode ==
    /\ up /\ pairing = "idle"
    /\ pairing' = "exchanged"
    /\ config' = [config EXCEPT !.paired = TRUE]
    /\ UNCHANGED <<up, crashes, disk, job, run, inked, tokens, conn>>

SaveIdentity ==
    /\ up /\ pairing = "exchanged"
    /\ pairing' = "saved"
    /\ disk' = config
    /\ UNCHANGED <<up, crashes, config, job, run, inked, tokens, conn>>

EnsureTokenPublicKey ==
    /\ up /\ pairing = "saved"
    /\ pairing' = "idle"
    /\ \E fetched \in BOOLEAN : config' = [config EXCEPT !.key = @ \/ fetched]
    /\ disk' = config'
    /\ UNCHANGED <<up, crashes, job, run, inked, tokens, conn>>

-----------------------------------------------------------------------------
(* The WebSocket server. *)

(* The handshake of an allowed origin; the browser sends its auth message as *)
(* soon as the socket opens.                                                 *)
Accept(c) ==
    /\ up /\ conn[c] = "opening"
    /\ conn' = [conn EXCEPT ![c] = "authing"]
    /\ UNCHANGED <<up, crashes, config, disk, pairing, job, run, inked, tokens>>

(* The auth message: paired, key at hand, signature, device, expiry and       *)
(* tenant.  An agent that is paired and holds its key may still refuse: the   *)
(* token is not its tenant's, has expired, or came after the five seconds.   *)
Authenticate(c) ==
    /\ up /\ conn[c] = "authing"
    /\ \/ /\ config.paired /\ config.key
          /\ conn' = [conn EXCEPT ![c] = "authed"]
       \/ conn' = [conn EXCEPT ![c] = "refused"]
    /\ UNCHANGED <<up, crashes, config, disk, pairing, job, run, inked, tokens>>

(* The bucket refills with time. *)
Refill ==
    /\ up /\ tokens < Burst
    /\ tokens' = tokens + 1
    /\ UNCHANGED <<up, crashes, config, disk, pairing, job, run, inked, conn>>

(* Mutant of IsNew: a job that failed is printed again. *)
NewOrFailed(j) == job[j] \in {"none", "failed"}

(* enqueue(): a job id seen before is not printed again. *)
IsNew(j) == job[j] = "none"

(* The first half of runPrintJob(), up to the call of the adapter. *)
Enqueue(j) ==
    /\ job' = IF IsNew(j) THEN [job EXCEPT ![j] = "printing"] ELSE job
    /\ run' = IF IsNew(j) THEN [run EXCEPT ![j] = "going"] ELSE run

(* What the request is answered: nothing yet for a new job; for a known one   *)
(* what its record says, where every status but "failed" reads as done.      *)
AnswerTo(j) ==
    CASE IsNew(j) -> "printing"
      [] job[j] = "failed" -> "erred"
      [] OTHER -> "okd"

(* The bytes reach the printer. *)
Ink(j, doc) ==
    /\ up /\ run[j] = "going"
    /\ Printable(doc)
    /\ run' = [run EXCEPT ![j] = "written"]
    /\ inked' = [inked EXCEPT ![j] = @ + 1]
    /\ UNCHANGED <<up, crashes, config, disk, pairing, job, tokens, conn>>

(* The second half of runPrintJob(): the adapter resolved, or threw - which   *)
(* it may also do after the bytes went out (a timeout, a failed release).    *)
JobDone(j, ok) ==
    /\ up /\ run[j] # "no"
    /\ ok => run[j] = "written"
    /\ run' = [run EXCEPT ![j] = "no"]
    /\ job' = [job EXCEPT ![j] = IF ok THEN "completed" ELSE "failed"]
    /\ UNCHANGED <<up, crashes, config, disk, pairing, inked, tokens, conn>>

(* Another program of the tenant repeats a request with its job id: the      *)
(* duplicate branch of runPrintJob.                                          *)
Repeat(j) ==
    /\ up /\ tokens > 0 /\ job[j] # "none"
    /\ Enqueue(j)
    /\ tokens' = tokens - 1
    /\ UNCHANGED <<up, crashes, config, disk, pairing, inked, conn>>

(* A cancel request: the adapter has nothing to cancel, the job is marked     *)
(* whatever its status was; an OS printer's adapter throws instead.          *)
Cancel(j) ==
    /\ up /\ tokens > 0 /\ job[j] # "none"
    /\ tokens' = tokens - 1
    /\ job' = IF AdapterCancels THEN [job EXCEPT ![j] = "cancelled"] ELSE job
    /\ UNCHANGED <<up, crashes, config, disk, pairing, run, inked, conn>>
=============================================================================
