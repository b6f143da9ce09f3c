------------------------------ MODULE PayOnce ------------------------------
(***************************************************************************)
(* What a connected app may rely on when it asks the wallet to pay.  A job *)
(* is one payment of one request event.  Each job is handed to the         *)
(* Lightning node at most once, is never handed over after the app was     *)
(* told how it ended, and the app is told at most one verdict; the verdict *)
(* "success" is only given for a payment that settled.                     *)
(*                                                                         *)
(* Nip47Handler, the model of the request handler, implements this module. *)
(***************************************************************************)
CONSTANTS
  Jobs,      \* the payments of all request events
  Timeouts   \* may the wallet answer while the payment is still in flight?

VARIABLES
  job,       \* what the Lightning node knows of each job
  told       \* the verdict the app was given

jobVars == <<job, told>>

JobState == {"none", "inflight", "settled", "failed"}

PayOnceTypeOK ==
  /\ job \in [Jobs -> JobState]
  /\ told \in [Jobs -> {"nothing", "success", "error"}]

PayOnceInit ==
  /\ job = [j \in Jobs |-> "none"]
  /\ told = [j \in Jobs |-> "nothing"]

Pay(j) ==
  /\ job[j] = "none"
  /\ told[j] = "nothing"
  /\ job' = [job EXCEPT ![j] = "inflight"]
  /\ UNCHANGED told

Resolve(j) ==
  /\ job[j] = "inflight"
  /\ \E v \in {"settled", "failed"} : job' = [job EXCEPT ![j] = v]
  /\ UNCHANGED told

\* The verdict "error" is reliable only when the wallet waits for the node.
Tell(j) ==
  /\ told[j] = "nothing"
  /\ \/ job[j] = "settled" /\ told' = [told EXCEPT ![j] = "success"]
     \/ /\ job[j] \in {"none", "failed"} \/ Timeouts
        /\ told' = [told EXCEPT ![j] = "error"]
  /\ UNCHANGED job

PayOnceNext == \E j \in Jobs : Pay(j) \/ Resolve(j) \/ Tell(j)

PayOnceSpec == PayOnceInit /\ [][PayOnceNext]_jobVars
=============================================================================
