-------------------------- MODULE ServiceLifecycle --------------------------
(***************************************************************************)
(* Starting, stopping, backing up and exiting the hub: the goroutines that *)
(* share the fields lnClient, appCancelFn and wg of the service.  A start   *)
(* launches a node and forks a relay goroutine with a context of its own;   *)
(* stops, backups and the relay goroutine itself shut the node down.  The   *)
(* n-th start makes the n-th node, context and relay goroutine.             *)
(***************************************************************************)
EXTENDS Integers, FiniteSets

CONSTANTS
  Starters,    \* goroutines that call api.Start
  Operators,   \* goroutines that call api.Stop or api.CreateBackup
  MaxStarts,   \* bounds the starts that pass their checks
  Backends,    \* the backends to set up: LDK, or one whose Shutdown may return an error
  MaySignal    \* may the process be asked to exit?

Starts == 1..MaxStarts
Callers == Starters \cup Operators
Goroutines == Callers \cup Starts
NoClient == 0
Idle == -1

ASSUME ConstantsAssumption ==
  /\ MaxStarts \in Nat
  /\ Callers \cap Int = {}
  /\ Backends \subseteq {"LDK", "other"} /\ MaySignal \in BOOLEAN

VARIABLES
  (* fields of the service *)
  lnClient,     \* svc.lnClient: the start that made it, or NoClient
  appCancelFn,  \* the start whose context svc.appCancelFn cancels, or NoClient
  wg,           \* the counter of svc.wg
  (* the contexts, the start mutex, the database, the configuration, the process *)
  started,      \* starts that passed their checks
  cancelled,    \* starts whose own context is cancelled
  rootDone,     \* the context of NewService is cancelled
  startMutex,   \* held by an api.Start
  dbOpen,       \* db.Stop has not been called
  backend,      \* LNBackendType, set once
  process,      \* "up", "waiting" in WaitShutdown, "exited", "panicked"
  (* the nodes and the goroutines *)
  node,         \* the node of each start
  pc,           \* where each goroutine is
  target,       \* the start a caller makes, the client a stop shuts down
  handler,      \* the client a HandleEvent of each relay goroutine holds
  notifier,     \* the client the notifier of each relay goroutine holds
  queued        \* is a payment event waiting in the notification queue?

service == <<lnClient, appCancelFn, wg>>
contexts == <<started, cancelled, rootDone, startMutex>>
clients == <<handler, notifier, queued>>
setup == <<dbOpen, backend>>
vars == <<service, contexts, clients, setup, process, node, pc, target>>

StopSteps == {"stopCheck", "stopCall", "stopWait", "stopClear"}
CallSteps == StopSteps \cup {"idle", "launch", "nostr", "register", "waitApp", "archive"}
LoopSteps == StopSteps \cup {"none", "connect", "info", "subscribe", "serve", "retry", "done"}

TypeOK ==
  /\ lnClient \in Starts \cup {NoClient}
  /\ appCancelFn \in Starts \cup {NoClient}
  /\ wg \in 0..MaxStarts
  /\ started \in 0..MaxStarts /\ cancelled \subseteq Starts
  /\ {rootDone, startMutex, dbOpen, queued} \subseteq BOOLEAN
  /\ backend \in Backends /\ process \in {"up", "waiting", "exited", "panicked"}
  /\ node \in [Starts -> {"none", "running", "stopping", "gone"}]
  /\ pc \in [Goroutines -> CallSteps \cup LoopSteps]
  /\ \A c \in Callers : pc[c] \in CallSteps
  /\ \A g \in Starts : pc[g] \in LoopSteps
  /\ target \in [Goroutines -> Starts \cup {NoClient}]
  /\ handler \in [Starts -> Starts \cup {NoClient, Idle}]
  /\ notifier \in [Starts -> Starts \cup {NoClient, Idle}]

Init ==
  /\ lnClient = NoClient /\ appCancelFn = NoClient /\ wg = 0
  /\ started = 0 /\ cancelled = {} /\ rootDone = FALSE /\ startMutex = FALSE
  /\ dbOpen = TRUE /\ backend \in Backends /\ process = "up"
  /\ node = [g \in Starts |-> "none"]
  /\ pc = [s \in Goroutines |-> IF s \in Callers THEN "idle" ELSE "none"]
  /\ target = [s \in Goroutines |-> NoClient]
  /\ handler = [g \in Starts |-> Idle]
  /\ notifier = [g \in Starts |-> Idle]
  /\ queued = FALSE

-----------------------------------------------------------------------------
Alive == process \in {"up", "waiting"}

\* Mutant: the context of a start is not derived from the context of the service.
CancelledDetached(g) == g \in cancelled

\* The context of a start is a child of the context of the service.
Cancelled(g) == rootDone \/ g \in cancelled

Goto(s, step) == pc' = [pc EXCEPT ![s] = step]

\* Not a nil interface, nor an LDK client whose node pointer Shutdown has taken.
Usable(n) == n \in {m \in Starts : backend = "LDK" => node[m] = "running"}

Panic == process' = "panicked" /\ UNCHANGED <<service, contexts, clients, setup, node, pc, target>>

-----------------------------------------------------------------------------
(* Starting: api.Start, StartApp, launchLNBackend, StartNostr *)

\* Mutants: api.Start without its mutex, StartApp without its check of lnClient.
StartAllowedUnlocked == lnClient = NoClient /\ dbOpen
StartAllowedTwice == ~startMutex /\ dbOpen

\* A start gives up, and changes nothing, when it does not get the mutex, when a
\* client is set or when the password does not check out (with the database closed
\* it never does).
StartAllowed == ~startMutex /\ lnClient = NoClient /\ dbOpen

\* The HTTP server accepts calls until the process waits to exit.  StopLNClient,
\* which launchLNBackend calls first, finds no client, since only the holder of the
\* mutex sets it.
BeginStart(c) ==
  /\ process = "up" /\ pc[c] = "idle"
  /\ StartAllowed
  /\ started < MaxStarts
  /\ startMutex' = TRUE
  /\ started' = started + 1
  /\ target' = [target EXCEPT ![c] = started + 1]
  /\ node' = [node EXCEPT ![started + 1] = "running"]
  /\ Goto(c, "launch")
  /\ UNCHANGED <<service, clients, cancelled, rootDone, setup, process>>

LaunchFails(c) ==
  /\ Alive /\ pc[c] = "launch"
  /\ node' = [node EXCEPT ![target[c]] = "gone"]
  /\ cancelled' = cancelled \cup {target[c]}
  /\ startMutex' = FALSE
  /\ Goto(c, "idle")
  /\ UNCHANGED <<service, clients, started, rootDone, setup, process, target>>

LaunchSucceeds(c) ==
  /\ Alive /\ pc[c] = "launch"
  /\ lnClient' = target[c]
  /\ Goto(c, "nostr")
  /\ UNCHANGED <<appCancelFn, wg, contexts, clients, setup, process, node, target>>

StartNostr(c) ==
  /\ Alive /\ pc[c] = "nostr"
  /\ wg' = wg + 1
  /\ pc' = [pc EXCEPT ![c] = "register", ![target[c]] = "connect"]
  /\ UNCHANGED <<lnClient, appCancelFn, contexts, clients, setup, process, node, target>>

RegisterCancel(c) ==
  /\ Alive /\ pc[c] = "register"
  /\ appCancelFn' = target[c]
  /\ startMutex' = FALSE
  /\ Goto(c, "idle")
  /\ UNCHANGED <<lnClient, wg, clients, started, cancelled, rootDone, setup, process, node, target>>

-----------------------------------------------------------------------------
(* StopLNClient, called by api.Stop and by the relay goroutine's Shutdown *)

AfterStop(s) == IF s \in Callers THEN "idle" ELSE "done"

\* Mutant: the wait group is never left.
LeaveNotDone(s) == Goto(s, AfterStop(s)) /\ wg' = wg

\* Shutdown of the service ends with wg.Done.
Leave(s) ==
  /\ Goto(s, AfterStop(s))
  /\ wg' = IF s \in Callers THEN wg ELSE wg - 1

FindClient(s) ==
  /\ Alive /\ pc[s] = "stopCheck"
  /\ \/ lnClient # NoClient /\ Goto(s, "stopCall") /\ UNCHANGED wg
     \/ lnClient = NoClient /\ Leave(s)
  /\ UNCHANGED <<lnClient, appCancelFn, contexts, clients, setup, process, node, target>>

\* The field is read again for the call.  LDK: the first Shutdown takes the node
\* and stops it, one that comes later finds no node and returns at once.
ShutdownLdk(s) ==
  /\ backend = "LDK"
  /\ target' = [target EXCEPT ![s] = lnClient]
  /\ \/ /\ node[lnClient] = "running"
        /\ node' = [node EXCEPT ![lnClient] = "stopping"]
        /\ Goto(s, "stopWait")
     \/ /\ node[lnClient] # "running"
        /\ Goto(s, "stopClear")
        /\ UNCHANGED node
  /\ UNCHANGED wg

\* Mutant: the error of Shutdown is only logged.
ShutdownOtherIgnored(s) ==
  /\ backend # "LDK"
  /\ \/ node' = [node EXCEPT ![lnClient] = "gone"]
     \/ UNCHANGED node
  /\ Goto(s, "stopClear")
  /\ UNCHANGED <<wg, target>>

\* Other backends stop in the call, or report an error and the client stays.
ShutdownOther(s) ==
  /\ backend # "LDK"
  /\ \/ node' = [node EXCEPT ![lnClient] = "gone"] /\ Goto(s, "stopClear") /\ UNCHANGED wg
     \/ Leave(s) /\ UNCHANGED node
  /\ UNCHANGED target

CallShutdown(s) ==
  /\ Alive /\ pc[s] = "stopCall"
  /\ lnClient # NoClient
  /\ ShutdownLdk(s) \/ ShutdownOther(s)
  /\ UNCHANGED <<lnClient, appCancelFn, contexts, clients, setup, process>>

NodeStopped(s) ==
  /\ Alive /\ pc[s] = "stopWait"
  /\ node' = [node EXCEPT ![target[s]] = "gone"]
  /\ Goto(s, "stopClear")
  /\ UNCHANGED <<service, contexts, clients, setup, process, target>>

ClearClient(s) ==
  /\ Alive /\ pc[s] = "stopClear"
  /\ lnClient' = NoClient
  /\ Leave(s)
  /\ UNCHANGED <<appCancelFn, contexts, clients, setup, process, node, target>>

ShutdownPanics(s) ==
  /\ Alive /\ pc[s] = "stopCall" /\ lnClient = NoClient
  /\ Panic

-----------------------------------------------------------------------------
(* The other calls of the API *)

\* api.Stop, after ResetRouter or ChangeUnlockPassword too: it refuses when there
\* is no client.
BeginStop(c) ==
  /\ process = "up" /\ pc[c] = "idle"
  /\ lnClient # NoClient
  /\ Goto(c, "stopCheck")
  /\ UNCHANGED <<service, contexts, clients, setup, process, node, target>>

\* CreateBackup up to StopApp, which returns at once when nothing was registered.
\* The password check reads the database.
BeginBackup(c) ==
  /\ process = "up" /\ pc[c] = "idle"
  /\ dbOpen /\ lnClient # NoClient
  /\ \/ appCancelFn = NoClient /\ Goto(c, "archive") /\ UNCHANGED cancelled
     \/ /\ appCancelFn # NoClient
        /\ cancelled' = cancelled \cup {appCancelFn}
        /\ Goto(c, "waitApp")
  /\ UNCHANGED <<service, started, rootDone, startMutex, clients, setup, process, node, target>>

\* Mutant: StopApp cancels and does not wait.
AppStoppedAtOnce(c) ==
  /\ Alive /\ pc[c] = "waitApp"
  /\ Goto(c, "archive")
  /\ UNCHANGED <<service, contexts, clients, setup, process, node, target>>

AppStopped(c) ==
  /\ Alive /\ pc[c] = "waitApp"
  /\ wg = 0
  /\ Goto(c, "archive")
  /\ UNCHANGED <<service, contexts, clients, setup, process, node, target>>

\* db.Stop and the archive of the files.
Archive(c) ==
  /\ Alive /\ pc[c] = "archive"
  /\ dbOpen' = FALSE
  /\ Goto(c, "idle")
  /\ UNCHANGED <<service, contexts, clients, backend, process, node, target>>

-----------------------------------------------------------------------------
(* The relay goroutine of StartNostr *)

LoopStep(g, from) == Alive /\ pc[g] = from

Connect(g) ==
  /\ LoopStep(g, "connect")
  /\ \/ ~Cancelled(g) /\ Goto(g, "info")
     \/ Goto(g, "retry")
  /\ UNCHANGED <<service, contexts, clients, setup, process, node, target>>

\* PublishNip47Info asks the client for its methods; a failure is only logged.
PublishInfo(g) ==
  /\ LoopStep(g, "info")
  /\ \/ lnClient = NoClient /\ Panic
     \/ /\ lnClient # NoClient
        /\ Goto(g, "subscribe")
        /\ UNCHANGED <<service, contexts, clients, setup, process, node, target>>

\* StartSubscription gives the notifier the client of this moment.
Subscribe(g) ==
  /\ LoopStep(g, "subscribe")
  /\ \/ /\ ~Cancelled(g)
        /\ Goto(g, "serve")
        /\ notifier' = [notifier EXCEPT ![g] = lnClient]
     \/ Goto(g, "retry") /\ UNCHANGED notifier
  /\ UNCHANGED <<service, contexts, handler, queued, setup, process, node, target>>

\* The context of the subscription ends with the connection, which then holds an
\* error, or with the context of the start, with or without one.
EndSubscription(g, step) ==
  /\ LoopStep(g, "serve")
  /\ Goto(g, step)
  /\ notifier' = [notifier EXCEPT ![g] = Idle]
  /\ UNCHANGED <<service, contexts, handler, queued, setup, process, node, target>>

\* Mutant: a lost connection ends the goroutine.
DroppedStops(g) == EndSubscription(g, "stopCheck")

Dropped(g) == EndSubscription(g, "retry")
Ended(g) == Cancelled(g) /\ EndSubscription(g, "stopCheck")

\* select: the context is done, or ten seconds have passed.
Retry(g) ==
  /\ LoopStep(g, "retry")
  /\ IF Cancelled(g) THEN Goto(g, "stopCheck") ELSE Goto(g, "connect")
  /\ UNCHANGED <<service, contexts, clients, setup, process, node, target>>

-----------------------------------------------------------------------------
(* What uses the client: HandleEvent and the notifier *)

\* One request at a time for each relay goroutine; it outlives the subscription.
\* A request that is refused does not touch the client.
DeliverRequest(g) ==
  /\ LoopStep(g, "serve") /\ handler[g] = Idle
  /\ handler' = [handler EXCEPT ![g] = lnClient]
  /\ UNCHANGED <<service, contexts, notifier, queued, setup, process, node, pc, target>>

HandleRequest(g) ==
  /\ Alive /\ handler[g] # Idle
  /\ \/ ~Usable(handler[g]) /\ Panic
     \/ /\ handler' = [handler EXCEPT ![g] = Idle]
        /\ UNCHANGED <<service, contexts, notifier, queued, setup, process, node, pc, target>>

\* A running node reports payments to the queue, which all notifiers share.
ReportPayment ==
  /\ Alive /\ ~queued
  /\ \E g \in Starts : node[g] = "running"
  /\ queued' = TRUE
  /\ UNCHANGED <<service, contexts, handler, notifier, setup, process, node, pc, target>>

Notify(g) ==
  /\ Alive /\ notifier[g] # Idle /\ queued
  /\ \/ ~Usable(notifier[g]) /\ Panic
     \/ /\ Usable(notifier[g])
        /\ queued' = FALSE
        /\ UNCHANGED <<service, contexts, handler, notifier, setup, process, node, pc, target>>

-----------------------------------------------------------------------------
(* The process: main of cmd/http and main_wails *)

Signal ==
  /\ MaySignal /\ process = "up" /\ ~rootDone
  /\ rootDone' = TRUE
  /\ UNCHANGED <<service, started, cancelled, startMutex, clients, setup, process, node, pc, target>>

\* The server is shut down, for ten seconds at most; the goroutine that runs
\* api.Start is not one it waits for.
CloseServer ==
  /\ process = "up" /\ rootDone
  /\ process' = "waiting"
  /\ UNCHANGED <<service, contexts, clients, setup, node, pc, target>>

\* Mutant: main does not wait for the service.
ExitUnwaited ==
  /\ process = "waiting"
  /\ process' = "exited"
  /\ UNCHANGED <<service, contexts, clients, setup, node, pc, target>>

Exit ==
  /\ process = "waiting" /\ wg = 0
  /\ process' = "exited"
  /\ UNCHANGED <<service, contexts, clients, setup, node, pc, target>>

-----------------------------------------------------------------------------
StopNext(s) ==
  FindClient(s) \/ CallShutdown(s) \/ ShutdownPanics(s) \/ NodeStopped(s) \/ ClearClient(s)

LoopNext(g) == Connect(g) \/ PublishInfo(g) \/ Subscribe(g) \/ Ended(g) \/ Retry(g) \/ StopNext(g)

StartNext(c) == LaunchSucceeds(c) \/ LaunchFails(c) \/ StartNostr(c) \/ RegisterCancel(c)

OperatorNext(c) == StopNext(c) \/ AppStopped(c) \/ Archive(c)

Next ==
  \/ \E c \in Starters : BeginStart(c) \/ StartNext(c)
  \/ \E c \in Operators : BeginStop(c) \/ BeginBackup(c) \/ OperatorNext(c)
  \/ \E g \in Starts : LoopNext(g) \/ Dropped(g) \/ DeliverRequest(g)
                       \/ HandleRequest(g) \/ Notify(g)
  \/ ReportPayment \/ Signal \/ CloseServer \/ Exit

\* Goroutines that can run do, sockets and Shutdown have time limits.  Nothing
\* makes calls, requests, payments, signals or lost connections happen, nor the
\* launch of a node end.
Fairness ==
  /\ \A c \in Starters : WF_vars(StartNostr(c)) /\ WF_vars(RegisterCancel(c))
  /\ \A c \in Operators : WF_vars(OperatorNext(c))
  /\ \A g \in Starts : WF_vars(LoopNext(g))
  /\ WF_vars(CloseServer) /\ WF_vars(Exit)

Spec == Init /\ [][Next]_vars
FairSpec == Spec /\ Fairness
-----------------------------------------------------------------------------
(* Properties *)

LiveNodes == {n \in Starts : node[n] \in {"running", "stopping"}}

\* There is never more than one node on the storage directory, however starts
\* race with each other and with one stop or backup at a time (the mutex of
\* api.Start and the check of lnClient in StartApp, against StopLNClient).
OneNode == Cardinality(LiveNodes) <= 1

\* A node that is not yet stopped is the one svc.lnClient holds, so that a later
\* stop reaches it, or it is still being launched.
HeldNode ==
  \A n \in LiveNodes :
    lnClient = n \/ \E c \in Starters : pc[c] = "launch" /\ target[c] = n

\* When CreateBackup closes the database and reads the files of the node, the node
\* has stopped and no relay goroutine is left to take requests.
BackupAtRest ==
  \A c \in Operators :
    pc[c] = "archive" => LiveNodes = {} /\ \A g \in Starts : pc[g] \in {"none", "done"}

\* A relay goroutine shuts the node down only because someone cancelled its
\* context, never because the relay went away.
StopsOnlyWhenCancelled == \A g \in Starts : pc[g] \in StopSteps \cup {"done"} => Cancelled(g)

\* The process leaves no node behind when it exits, unless a call of the API was
\* still starting or stopping one.
ExitAtRest ==
  process = "exited" /\ (\A c \in Callers : pc[c] = "idle") => LiveNodes = {}

\* StopApp returns: the relay goroutines of the app end when it is stopped.
StopAppReturns ==
  \A c \in Operators : pc[c] = "waitApp" ~> pc[c] # "waitApp" \/ ~Alive

\* A process that is asked to exit does, whatever its goroutines are doing.
SignalExits == rootDone ~> ~Alive

-----------------------------------------------------------------------------
(* The invariant behind OneNode and HeldNode, with one operator and no signal *)

OneOperator == (\A o, q \in Operators : o = q) /\ ~MaySignal

StartSteps == {"launch", "nostr", "register"}
Running(g) == pc[g] \notin {"none", "done"}

\* A start in progress holds the mutex; only operators stop and back up.
CallersInv ==
  /\ \A c \in Callers : pc[c] \in StartSteps => c \in Starters /\ startMutex
  /\ \A c, d \in Callers : pc[c] \in StartSteps /\ pc[d] \in StartSteps => c = d
  /\ \A c \in Callers : pc[c] \in StopSteps \cup {"waitApp", "archive"} => c \in Operators

\* The relay goroutine of a start in progress is not forked before its time, and
\* nobody can cancel it; later starts have not begun.
StartsInv ==
  /\ \A c \in Callers : pc[c] \in StartSteps => target[c] \in 1..started
  /\ \A c \in Callers : pc[c] \in {"launch", "nostr"} =>
       /\ pc[target[c]] = "none"
       /\ target[c] \notin cancelled /\ appCancelFn # target[c]
  /\ \A n \in Starts : n > started => pc[n] = "none" /\ n \notin cancelled /\ appCancelFn # n

\* At most one relay goroutine is being stopped, and an operator waits for it.
LoopsInv ==
  /\ StopsOnlyWhenCancelled /\ ~rootDone
  /\ \A g \in cancelled : Running(g) => \E o \in Operators : pc[o] = "waitApp"
  /\ \A g, k \in cancelled : Running(g) /\ Running(k) => g = k
  /\ wg = Cardinality({g \in Starts : Running(g)})

\* The client of the service is a node that runs, unless a stop has reached it.
NodesInv ==
  /\ HeldNode
  /\ \A c \in Callers : pc[c] = "launch" => lnClient = NoClient /\ node[target[c]] = "running"
  /\ lnClient # NoClient => \/ node[lnClient] = "running"
                            \/ \E s \in Goroutines : pc[s] \in {"stopWait", "stopClear"}
  /\ \A s \in Goroutines :
       /\ pc[s] = "stopCall" => lnClient # NoClient
       /\ pc[s] = "stopWait" => /\ lnClient = target[s] /\ lnClient # NoClient
                                /\ node[lnClient] = "stopping"
       /\ pc[s] = "stopClear" => lnClient # NoClient /\ node[lnClient] = "gone"

\* Starts are serialised by the mutex and the client that is set, stops by the one
\* operator, who either stops the node or waits for the relay goroutine to do it.
StopInv == TypeOK /\ CallersInv /\ StartsInv /\ LoopsInv /\ NodesInv

=============================================================================
