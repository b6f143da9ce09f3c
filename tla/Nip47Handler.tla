---------------------------- MODULE Nip47Handler ----------------------------
(***************************************************************************)
(* The NIP-47 request handler: one goroutine of HandleEvent per event the  *)
(* relay delivers, the goroutines the multi_pay controllers fork, the rows *)
(* they share in the database, the Lightning node they pay through and the *)
(* replies they publish.  The relay keeps the request events and delivers  *)
(* them again on every subscription, so one event may meet several         *)
(* handlers, at the same time or after a crash of the process.             *)
(*                                                                         *)
(* A request carries work at one or more slots.  pay_invoice, pay_keysend  *)
(* and the methods that only read have one slot, the multi_pay methods one *)
(* per element of their list, served by a goroutine of its own.            *)
(***************************************************************************)
EXTENDS Integers, FiniteSetsExt

CONSTANTS
  Apps,       \* the rows of apps, each with its nostr public key
  Requests,   \* the request events the relay stores
  Slots,      \* positions of the list a request carries
  Payments,   \* the payments requests ask for (an invoice or a keysend)
  Handlers,   \* the goroutines of HandleEvent: bounds the deliveries
  Main,       \* the thread of a handler that runs HandleEvent itself
  Query,      \* work that asks the node something and pays nothing
  Malformed,  \* parameters or an invoice that do not decode, an unknown method
  NoRequest,  \* a handler that has not started
  Sender,     \* the public key of each request: an app or a stranger
  Body,       \* the work each request carries, by slot
  Sealed,     \* the requests whose content does not decrypt or unmarshal
  Keysends,   \* the payments the node does not recognise as repeated
  Msat,       \* what each payment moves, in msat
  Grants,     \* the permissions a user gives: scopes, maxAmount, expired
  FirstGrant, \* the permissions each app starts with
  DbFaults,   \* may a statement of the database fail (SQLITE_BUSY, disk)?
  Timeouts,   \* may the node give up waiting for a payment in flight?
  MayCrash,   \* may the process stop between two steps?
  MayExpire,  \* may permissions expire?
  MayRenew    \* may budget periods end?

Threads == Slots \cup {Main}
Work == Payments \cup {Query, Malformed}
Scopes == {"pay_invoice", "read"}
Grant == [scopes : SUBSET Scopes, maxAmount : Nat, expired : BOOLEAN]

ASSUME ConstantsAssumption ==
  /\ Main \notin Slots
  /\ NoRequest \notin Requests
  /\ Query \notin Payments /\ Malformed \notin Payments /\ Query # Malformed
  /\ \A r \in Requests : /\ DOMAIN Body[r] \subseteq Slots
                         /\ \A k \in DOMAIN Body[r] : Body[r][k] \in Work
  /\ Sealed \subseteq Requests
  /\ Keysends \subseteq Payments
  /\ Msat \in [Payments -> Nat]
  /\ Grants \subseteq Grant
  /\ FirstGrant \in [Apps -> Grant]
  /\ {DbFaults, Timeouts, MayCrash, MayExpire, MayRenew} \subseteq BOOLEAN
  /\ IsFiniteSet(Requests) /\ IsFiniteSet(Slots)

VARIABLES
  (* the database *)
  request,   \* the state of the request_events row of each event
  payment,   \* the payments row of each slot: without a preimage, or with one
  stale,     \* the payments rows created before the current budget period
  response,  \* the response_events row each thread of a handler wrote
  access,    \* the app_permissions rows of each app
  (* the handlers *)
  serves,    \* the request each handler was given
  at,        \* the next step of each thread
  verdict,   \* the reply each thread is about to give
  state,     \* requestEvent.State of each handler, shared by its threads
  (* the outside *)
  replies,   \* the replies the relay holds
  attempt,   \* what the Lightning node knows of each slot's payment
  (* history *)
  owner,     \* the handler whose insert of a request event succeeded
  sends,     \* how often each slot's payment was handed to the node
  blind      \* apps given a payment by a check that missed another of theirs, or a
             \* budget below what they were allowed before

dbVars == <<request, payment, stale, response, access>>
handlerVars == <<serves, at, verdict, state>>
outsideVars == <<replies, attempt>>
history == <<owner, sends, blind>>
vars == <<dbVars, handlerVars, outsideVars, history>>

Jobs == {j \in Requests \X Slots : /\ j[2] \in DOMAIN Body[j[1]]
                                   /\ Body[j[1]][j[2]] \in Payments}

WorkOf(h, k) == Body[serves[h]][k]

Active(h, t) == at[h][t] \notin {"idle", "done", "crashed"}

(***************************************************************************)
(* Permissions and budgets                                                 *)
(***************************************************************************)

\* Payments rows store whole satoshis.
Sats(p) == Msat[p] \div 1000

JobsOf(a) == {j \in Jobs : Sender[j[1]] = a}

Amount(j) == Sats(Body[j[1]][j[2]])
Total(S) == MapThenSumSet(Amount, S)

\* GetBudgetUsage adds up the rows that have a preimage and were created
\* since getStartOfBudget.  The error of its query is ignored: when the read
\* fails it returns nothing spent.
GetBudgetUsage(a, read) ==
  IF read THEN Total({j \in JobsOf(a) : payment[j[1]][j[2]] = "paid" /\ j \notin stale})
          ELSE 0

ScopeOf(w) == IF w \in Payments THEN "pay_invoice" ELSE "read"

\* Mutant: the amount of the payment itself is left out of the comparison.
HasPermissionUsageOnly(a, w, read) ==
  /\ ScopeOf(w) \in access[a].scopes
  /\ ~access[a].expired
  /\ w \in Payments /\ access[a].maxAmount # 0
       => GetBudgetUsage(a, read) < access[a].maxAmount

HasPermission(a, w, read) ==
  /\ ScopeOf(w) \in access[a].scopes
  /\ ~access[a].expired
  /\ w \in Payments /\ access[a].maxAmount # 0
       => GetBudgetUsage(a, read) + Sats(w) <= access[a].maxAmount

\* Payments of the app that passed the check and have not failed.
Committed(a) ==
  {j \in JobsOf(a) :
     \/ attempt[j[1]][j[2]] \in {"inflight", "settled"}
     \/ \E h \in Handlers : serves[h] = j[1] /\ at[h][j[2]] \in {"create", "send"}}

\* Those that are not part of the usage because their row has no preimage.
Unaccounted(a) == {j \in Committed(a) \ stale : payment[j[1]][j[2]] # "paid"}

\* What a check of the budget does not see: these, or all when its read failed.
Missed(a, read) == IF read THEN Unaccounted(a) ELSE Committed(a) \ stale

-----------------------------------------------------------------------------
Init ==
  /\ request = [r \in Requests |-> "absent"]
  /\ payment = [r \in Requests |-> [k \in Slots |-> "absent"]]
  /\ stale = {}
  /\ response = [h \in Handlers |-> [t \in Threads |-> "absent"]]
  /\ access = FirstGrant
  /\ serves = [h \in Handlers |-> NoRequest]
  /\ at = [h \in Handlers |-> [t \in Threads |-> "idle"]]
  /\ verdict = [h \in Handlers |-> [t \in Threads |-> "none"]]
  /\ state = [h \in Handlers |-> "executing"]
  /\ replies = {}
  /\ attempt = [r \in Requests |-> [k \in Slots |-> "none"]]
  /\ owner = [r \in Requests |-> {}]
  /\ sends = [r \in Requests |-> [k \in Slots |-> 0]]
  /\ blind = {}

Goto(h, t, step) == at' = [at EXCEPT ![h][t] = step]

\* The thread has its answer and goes on to publishResponse.
Answer(h, t, outcome) ==
  /\ verdict' = [verdict EXCEPT ![h][t] = outcome]
  /\ Goto(h, t, "respond")

(***************************************************************************)
(* HandleEvent, up to the switch over the methods                          *)
(***************************************************************************)

\* The subscription hands an event to a goroutine; the relay may deliver the
\* same event any number of times.
Deliver(h, r) ==
  /\ at[h][Main] = "idle"
  /\ serves' = [serves EXCEPT ![h] = r]
  /\ Goto(h, Main, "store")
  /\ UNCHANGED <<dbVars, outsideVars, history, verdict, state>>

\* Mutant: a repeated event replaces the row and is processed again.
StoreRequestUpsert(h) ==
  LET r == serves[h] IN
  /\ at[h][Main] = "store"
  /\ request' = [request EXCEPT ![r] = "executing"]
  /\ owner' = [owner EXCEPT ![r] = @ \cup {h}]
  /\ Goto(h, Main, "find")
  /\ UNCHANGED <<payment, stale, response, access, serves, verdict, state,
                 outsideVars, sends, blind>>

\* The unique index on nostr_id lets one handler insert the event.  A failed
\* insert, a repeated event included, is answered with an internal error.
StoreRequest(h) ==
  LET r == serves[h] IN
  /\ at[h][Main] = "store"
  /\ \/ /\ request[r] = "absent"
        /\ request' = [request EXCEPT ![r] = "executing"]
        /\ owner' = [owner EXCEPT ![r] = @ \cup {h}]
        /\ Goto(h, Main, "find")
        /\ UNCHANGED verdict
     \/ /\ request[r] # "absent" \/ DbFaults
        /\ Answer(h, Main, "save_failed")
        /\ UNCHANGED <<request, owner>>
  /\ UNCHANGED <<payment, stale, response, access, serves, state,
                 outsideVars, sends, blind>>

\* Looks the app up by the event's public key and stores its id.
FindApp(h) ==
  /\ at[h][Main] = "find"
  /\ \/ /\ Sender[serves[h]] \in Apps
        /\ Goto(h, Main, "open")
        /\ UNCHANGED verdict
     \/ /\ Sender[serves[h]] \notin Apps \/ DbFaults
        /\ Answer(h, Main, "unauthorized")
  /\ UNCHANGED <<dbVars, serves, state, outsideVars, history>>

\* Mutant: a request that cannot be read is served all the same.
OpenRequestUnread(h) ==
  /\ at[h][Main] = "open"
  /\ at' = [at EXCEPT ![h] =
              [t \in Threads |-> IF t = Main THEN "serve"
                                 ELSE IF t \in DOMAIN Body[serves[h]] THEN "check"
                                 ELSE @[t]]]
  /\ UNCHANGED <<dbVars, serves, verdict, state, outsideVars, history>>

\* Decrypts and unmarshals the content.  A request that cannot be read is
\* marked and gets no reply; otherwise the controller takes over, with one
\* thread per slot.
OpenRequest(h) ==
  LET r == serves[h] IN
  /\ at[h][Main] = "open"
  /\ IF r \in Sealed
       THEN /\ state' = [state EXCEPT ![h] = "error"]
            /\ \/ request' = [request EXCEPT ![r] = "error"]
               \/ DbFaults /\ UNCHANGED request
            /\ Goto(h, Main, "done")
       ELSE /\ at' = [at EXCEPT ![h] =
                        [t \in Threads |-> IF t = Main THEN "serve"
                                           ELSE IF t \in DOMAIN Body[r] THEN "check"
                                           ELSE @[t]]]
            /\ UNCHANGED <<request, state>>
  /\ UNCHANGED <<payment, stale, response, access, serves, verdict,
                 outsideVars, history>>

\* Mutant: the controller does not wait for its goroutines.
FinishEventEarly(h) ==
  /\ at[h][Main] = "serve"
  /\ Goto(h, Main, "done")
  /\ UNCHANGED <<dbVars, serves, verdict, state, outsideVars, history>>

\* The controller returns once every slot was served (wg.Wait).
FinishEvent(h) ==
  /\ at[h][Main] = "serve"
  /\ \A k \in DOMAIN Body[serves[h]] : at[h][k] = "done"
  /\ Goto(h, Main, "done")
  /\ UNCHANGED <<dbVars, serves, verdict, state, outsideVars, history>>

(***************************************************************************)
(* The controllers                                                         *)
(***************************************************************************)

\* Decodes the work of the slot and checks the permission of its method.  A
\* permission that cannot be read is missing; a usage that cannot be read is 0.
CheckPermission(h, k) ==
  LET r == serves[h]
      a == Sender[r]
      w == WorkOf(h, k)
      Allowed(read) == w # Malformed /\ HasPermission(a, w, read)
  IN
  /\ at[h][k] = "check"
  /\ \/ /\ Goto(h, k, IF w = Query THEN "query" ELSE "create")
        /\ \E read \in {TRUE, ~DbFaults} :
             /\ Allowed(read)
             /\ blind' = IF /\ w \in Payments /\ access[a].maxAmount # 0
                            /\ Missed(a, read) # {}
                           THEN blind \cup {a} ELSE blind
        /\ UNCHANGED verdict
     \/ /\ ~Allowed(TRUE) \/ DbFaults
        /\ Answer(h, k, "error")
        /\ UNCHANGED blind
  /\ UNCHANGED <<dbVars, serves, state, outsideVars, owner, sends>>

\* The methods that pay nothing ask the node and answer.
AskNode(h, k) ==
  /\ at[h][k] = "query"
  /\ \E outcome \in {"success", "error"} : Answer(h, k, outcome)
  /\ UNCHANGED <<dbVars, serves, state, outsideVars, history>>

\* Mutant: the payment is sent although its row could not be written.
CreatePaymentIgnored(h, k) ==
  /\ at[h][k] = "create"
  /\ \/ payment' = [payment EXCEPT ![serves[h]][k] = "pending"]
     \/ DbFaults /\ UNCHANGED payment
  /\ Goto(h, k, "send")
  /\ UNCHANGED <<request, stale, response, access, serves, verdict, state,
                 outsideVars, history>>

\* pay: the payments row is written before the payment is sent.
CreatePayment(h, k) ==
  LET r == serves[h] IN
  /\ at[h][k] = "create"
  /\ \/ /\ payment' = [payment EXCEPT ![r][k] = "pending"]
        /\ Goto(h, k, "send")
        /\ UNCHANGED verdict
     \/ /\ DbFaults
        /\ Answer(h, k, "error")
        /\ UNCHANGED payment
  /\ UNCHANGED <<request, stale, response, access, serves, state,
                 outsideVars, history>>

\* The node refuses an invoice that it is paying or has paid.
KnownToNode(p) ==
  /\ p \notin Keysends
  /\ \E j \in Jobs : /\ Body[j[1]][j[2]] = p
                     /\ attempt[j[1]][j[2]] \in {"inflight", "settled"}

\* SendPaymentSync and SendKeysend hand the payment to the node.
SendPayment(h, k) ==
  LET r == serves[h] IN
  /\ at[h][k] = "send"
  /\ sends' = [sends EXCEPT ![r][k] = @ + 1]
  /\ IF KnownToNode(WorkOf(h, k))
       THEN Answer(h, k, "error") /\ UNCHANGED attempt
       ELSE /\ attempt' = [attempt EXCEPT ![r][k] = "inflight"]
            /\ Goto(h, k, "await")
            /\ UNCHANGED verdict
  /\ UNCHANGED <<dbVars, serves, state, replies, owner, blind>>

\* Mutant: the call gives up on a payment in flight whatever the node does.
AwaitPaymentImpatient(h, k) ==
  LET result == attempt[serves[h]][k] IN
  /\ at[h][k] = "await"
  /\ \/ result = "settled" /\ Goto(h, k, "save") /\ UNCHANGED verdict
     \/ result \in {"failed", "inflight"} /\ Answer(h, k, "error")
  /\ UNCHANGED <<dbVars, serves, state, outsideVars, history>>

\* The call returns with the node's result, or gives up with the payment in
\* flight.
AwaitPayment(h, k) ==
  LET result == attempt[serves[h]][k] IN
  /\ at[h][k] = "await"
  /\ \/ result = "settled" /\ Goto(h, k, "save") /\ UNCHANGED verdict
     \/ /\ result = "failed" \/ (result = "inflight" /\ Timeouts)
        /\ Answer(h, k, "error")
  /\ UNCHANGED <<dbVars, serves, state, outsideVars, history>>

\* The preimage is saved; an error of the statement is ignored.
SavePreimage(h, k) ==
  /\ at[h][k] = "save"
  /\ \/ payment' = [payment EXCEPT ![serves[h]][k] = "paid"]
     \/ DbFaults /\ UNCHANGED payment
  /\ Answer(h, k, "success")
  /\ UNCHANGED <<request, stale, response, access, serves, state,
                 outsideVars, history>>

(***************************************************************************)
(* publishResponse and publishResponseEvent                                *)
(***************************************************************************)

\* Creates the response_events row.  A handler whose insert of the request
\* failed has no row id (0): its insert fails on the connections that enforce
\* foreign keys, and succeeds on the others.
CreateResponseRow(h, t) ==
  /\ at[h][t] = "respond"
  /\ \/ /\ response' = [response EXCEPT ![h][t] = "received"]
        /\ Goto(h, t, "publish")
        /\ UNCHANGED state
     \/ /\ verdict[h][t] = "save_failed"
        /\ Goto(h, t, "done")
        /\ UNCHANGED <<response, state>>
     \/ /\ verdict[h][t] # "save_failed"
        /\ DbFaults
        /\ state' = [state EXCEPT ![h] = "error"]
        /\ Goto(h, t, "record")
        /\ UNCHANGED response
  /\ UNCHANGED <<request, payment, stale, access, serves, verdict,
                 outsideVars, history>>

\* The relay takes the reply, or the publication fails.
PublishReply(h, t) ==
  /\ at[h][t] = "publish"
  /\ \/ /\ replies' = replies \cup {<<serves[h], t, verdict[h][t]>>}
        /\ Goto(h, t, "confirmed")
     \/ Goto(h, t, "failed") /\ UNCHANGED replies
  /\ UNCHANGED <<dbVars, serves, verdict, state, attempt, history>>

\* Mutant: the error of publishResponseEvent is ignored.
StateAfterIgnored(h, t, saved) == "executed"

\* Mutant: only a reply that reached the relay settles the request.
StateAfterConfirmed(h, t, saved) ==
  IF at[h][t] = "confirmed" THEN "executed" ELSE state[h]

\* What the handler makes of the request once publishResponseEvent returned:
\* an app that was not found is an error, whatever became of the reply.
StateAfter(h, t, saved) ==
  IF saved /\ verdict[h][t] # "unauthorized" THEN "executed" ELSE "error"

\* The outcome of the publication is saved in the response_events row.
SaveResponseRow(h, t) ==
  /\ at[h][t] \in {"confirmed", "failed"}
  /\ \E saved \in {TRUE} \cup {~DbFaults} :
       /\ response' = IF saved THEN [response EXCEPT ![h][t] = at[h][t]] ELSE response
       /\ IF verdict[h][t] = "save_failed"
            THEN Goto(h, t, "done") /\ UNCHANGED state
            ELSE /\ state' = [state EXCEPT ![h] = StateAfter(h, t, saved)]
                 /\ Goto(h, t, "record")
  /\ UNCHANGED <<request, payment, stale, access, serves, verdict,
                 outsideVars, history>>

\* requestEvent is saved with the state it has by now: another thread of the
\* same request may have set it since.
SaveRequestState(h, t) ==
  /\ at[h][t] = "record"
  /\ \/ request' = [request EXCEPT ![serves[h]] = state[h]]
     \/ DbFaults /\ UNCHANGED request
  /\ Goto(h, t, "done")
  /\ UNCHANGED <<payment, stale, response, access, serves, verdict, state,
                 outsideVars, history>>

(***************************************************************************)
(* The node, the user, time and crashes                                    *)
(***************************************************************************)

ResolvePayment(r, k) ==
  /\ attempt[r][k] = "inflight"
  /\ \E v \in {"settled", "failed"} : attempt' = [attempt EXCEPT ![r][k] = v]
  /\ UNCHANGED <<dbVars, handlerVars, replies, history>>

\* The rows the app has by now.
Written(a) == {j \in JobsOf(a) : payment[j[1]][j[2]] # "absent"}

\* UpdateApp replaces the permissions of an app in one transaction.  With another
\* renewal other rows are before the start of the budget.
UpdateApp(a, g) ==
  /\ access' = [access EXCEPT ![a] = g]
  /\ \/ UNCHANGED stale
     \/ MayRenew /\ \E old \in SUBSET Written(a) : stale' = (stale \ JobsOf(a)) \cup old
  /\ blind' = IF g.maxAmount # 0 /\ Total(Committed(a) \ stale') > g.maxAmount
                THEN blind \cup {a} ELSE blind
  /\ UNCHANGED <<request, payment, response, handlerVars, outsideVars, owner, sends>>

\* expires_at is now in the past.
ExpireApp(a) ==
  /\ MayExpire
  /\ access' = [access EXCEPT ![a].expired = TRUE]
  /\ UNCHANGED <<request, payment, stale, response, handlerVars, outsideVars, history>>

\* A new budget period of the app begins: its rows written so far are before its start.
RenewBudget(a) ==
  /\ MayRenew
  /\ stale' = stale \cup Written(a)
  /\ UNCHANGED <<request, payment, response, access, handlerVars, outsideVars, history>>

Crash ==
  /\ MayCrash
  /\ at' = [h \in Handlers |-> [t \in Threads |->
              IF Active(h, t) THEN "crashed" ELSE at[h][t]]]
  /\ UNCHANGED <<dbVars, serves, verdict, state, outsideVars, history>>

MainStep(h) ==
  StoreRequest(h) \/ FindApp(h) \/ OpenRequest(h) \/ FinishEvent(h)

SlotStep(h, k) ==
  \/ CheckPermission(h, k) \/ AskNode(h, k) \/ CreatePayment(h, k)
  \/ SendPayment(h, k) \/ AwaitPayment(h, k) \/ SavePreimage(h, k)

ReplyStep(h, t) ==
  \/ CreateResponseRow(h, t) \/ PublishReply(h, t)
  \/ SaveResponseRow(h, t) \/ SaveRequestState(h, t)

Next ==
  \/ \E h \in Handlers :
       \/ \E r \in Requests : Deliver(h, r)
       \/ MainStep(h)
       \/ \E k \in Slots : SlotStep(h, k)
       \/ \E t \in Threads : ReplyStep(h, t)
  \/ \E r \in Requests, k \in Slots : ResolvePayment(r, k)
  \/ \E a \in Apps : ExpireApp(a) \/ RenewBudget(a) \/ \E g \in Grants : UpdateApp(a, g)
  \/ Crash

Spec == Init /\ [][Next]_vars

\* The Go scheduler runs every goroutine that can run, and HTLC expiry makes
\* the node resolve every payment in flight.
Fairness ==
  /\ \A h \in Handlers :
       /\ WF_vars(MainStep(h))
       /\ \A k \in Slots : WF_vars(SlotStep(h, k))
       /\ \A t \in Threads : WF_vars(ReplyStep(h, t))
  /\ \A r \in Requests, k \in Slots : WF_vars(ResolvePayment(r, k))

FairSpec == Spec /\ Fairness

-----------------------------------------------------------------------------
(***************************************************************************)
(* Properties                                                              *)
(***************************************************************************)

MainSteps == {"idle", "store", "find", "open", "serve"}
SlotSteps == {"idle", "check", "query", "create", "send", "await", "save"}
ReplySteps == {"respond", "publish", "confirmed", "failed", "record", "done", "crashed"}
Outcomes == {"none", "success", "error", "unauthorized", "save_failed"}

\* Every variable holds a value of the kind the code stores in it.
TypeOK ==
  /\ request \in [Requests -> {"absent", "executing", "executed", "error"}]
  /\ payment \in [Requests -> [Slots -> {"absent", "pending", "paid"}]]
  /\ stale \subseteq Jobs
  /\ response \in [Handlers -> [Threads -> {"absent", "received", "confirmed", "failed"}]]
  /\ access \in [Apps -> Grant]
  /\ serves \in [Handlers -> Requests \cup {NoRequest}]
  /\ at \in [Handlers -> [Threads -> MainSteps \cup SlotSteps \cup ReplySteps]]
  /\ verdict \in [Handlers -> [Threads -> Outcomes]]
  /\ state \in [Handlers -> {"executing", "executed", "error"}]
  /\ replies \subseteq Requests \X Threads \X Outcomes
  /\ attempt \in [Requests -> [Slots -> {"none", "inflight", "settled", "failed"}]]
  /\ owner \in [Requests -> SUBSET Handlers]
  /\ sends \in [Requests -> [Slots -> Nat]]
  /\ blind \subseteq Apps

\* A request event is processed at most once however often the relay delivers
\* it, crashes and restarts included: no payment it asks for is handed to the
\* node twice (the insert at the start of HandleEvent).
ProcessedAtMostOnce == \A r \in Requests, k \in Slots : sends[r][k] <= 1

\* The payments table never claims more, and never less, than the node did: a
\* row with a preimage is a settled payment, and no payment reaches the node
\* before its row exists (the order of the steps of pay).
LedgerMatchesNode ==
  \A j \in Jobs :
    /\ payment[j[1]][j[2]] = "paid" => attempt[j[1]][j[2]] = "settled"
    /\ attempt[j[1]][j[2]] # "none" => payment[j[1]][j[2]] # "absent"

\* A request is marked executed only when one of its threads recorded a reply
\* and tried to publish it, and a confirmed reply is at the relay.
ExecutedMeansAnswered ==
  /\ \A r \in Requests : request[r] = "executed" =>
       \E h \in owner[r], t \in Threads : response[h][t] \in {"confirmed", "failed"}
  /\ \A h \in Handlers, t \in Threads : response[h][t] = "confirmed" =>
       <<serves[h], t, verdict[h][t]>> \in replies

\* Without database faults, a request whose handler ran to its end is not left
\* "executing", unless its list was empty.
NoSilentEnd ==
  \A r \in Requests : \A h \in owner[r] :
    at[h][Main] = "done" /\ request[r] = "executing" => DOMAIN Body[r] = {}

\* The state of a request is final: once it was executed or failed, no later
\* delivery and no slower thread makes it executing again.
StateIsFinal ==
  [][\A r \in Requests : request[r] \in {"executed", "error"}
                            => request'[r] \in {"executed", "error"}]_request

\* No payment is sent for a request that was refused as a whole: unreadable,
\* or not signed by the key of an app.
RefusedIsUnpaid ==
  \A r \in Requests, k \in Slots :
    sends[r][k] > 0 => Sender[r] \in Apps /\ r \notin Sealed

\* What an app spent in the current period, in satoshis.
Spent(a) ==
  Total({j \in JobsOf(a) : attempt[j[1]][j[2]] = "settled" /\ j \notin stale})

OverBudget(a) == access[a].maxAmount # 0 /\ Spent(a) > access[a].maxAmount

\* "maximum amount in sats that can be sent per renewal period" (README).
BudgetRespected == \A a \in Apps : ~OverBudget(a)

\* The ways past the budget: a payment was allowed while another one of the same
\* app had passed the check and was not yet in the usage, the query of the usage
\* failed while there was something to add up (its error is ignored), or the user
\* set a budget below what the app had been allowed by then.  As long as none of
\* these happened the budget of a period holds, across periods, new permissions,
\* other failures, crashes and late settlements.
OverBudgetOnlyWhenBlind == \A a \in Apps : OverBudget(a) => a \in blind

\* Every request that was stored is eventually executed or marked as failed.
Answered ==
  \A r \in Requests : request[r] = "executing" ~> request[r] \in {"executed", "error"}

(***************************************************************************)
(* The inductive invariant behind these properties                         *)
(***************************************************************************)
BeforeCreate == {"idle", "check", "query", "create"}
BeforeSend == BeforeCreate \cup {"send"}
BeforeReply == BeforeSend \cup {"await", "save", "respond", "publish"}

\* A thread that runs has a request to serve, and the thread of a slot one that
\* was read and whose sender is an app.
Assigned ==
  \A h \in Handlers :
    /\ at[h][Main] # "idle" => serves[h] \in Requests
    /\ at[h][Main] \in {"open", "serve"} => Sender[serves[h]] \in Apps
    /\ \A k \in Slots : at[h][k] # "idle" =>
         /\ at[h][Main] \notin {"idle", "store", "find", "open"}
         /\ serves[h] \in Requests \ Sealed
         /\ Sender[serves[h]] \in Apps
         /\ k \in DOMAIN Body[serves[h]]

\* An event has one owner, and only its owner goes past the insert.
OneOwner ==
  /\ \A r \in Requests : request[r] = "absent" => owner[r] = {}
  /\ \A r \in Requests : \A g, h \in owner[r] : g = h
  /\ \A r \in Requests : \A h \in owner[r] : serves[h] = r /\ at[h][Main] \notin {"idle", "store"}
  /\ \A h \in Handlers : at[h][Main] \in {"find", "open", "serve"} => h \in owner[serves[h]]
  /\ \A h \in Handlers, k \in Slots : at[h][k] # "idle" => h \in owner[serves[h]]

\* Until the owner's thread of a slot is past the step that does it, the slot's
\* row is not written, its payment not sent and its reply not published.
NotYet(r, k) ==
  /\ owner[r] = {} =>
       payment[r][k] = "absent" /\ sends[r][k] = 0 /\ attempt[r][k] = "none"
  /\ \A h \in owner[r] :
       /\ at[h][k] \in BeforeCreate => payment[r][k] = "absent"
       /\ at[h][k] \in BeforeSend => sends[r][k] = 0 /\ attempt[r][k] = "none"

RepliesNotYet ==
  \A r \in Requests, k \in Slots, v \in Outcomes : <<r, k, v>> \in replies =>
    owner[r] # {} /\ \A h \in owner[r] : at[h][k] \notin BeforeReply

\* What the row, the node and the count of payments say of a slot agrees.
Ledger(r, k) ==
  /\ sends[r][k] \in {0, 1}
  /\ attempt[r][k] # "none" => sends[r][k] = 1 /\ payment[r][k] # "absent"
  /\ payment[r][k] = "paid" => attempt[r][k] = "settled"

\* What a thread knows at its step.
Knows(h, k) ==
  LET r == serves[h] IN
  /\ at[h][k] = "query" => Body[r][k] = Query
  /\ at[h][k] \in {"create", "send", "await", "save"} => Body[r][k] \in Payments
  /\ at[h][k] = "send" => payment[r][k] = "pending"
  /\ at[h][k] \in {"await", "save"} => sends[r][k] = 1 /\ attempt[r][k] # "none"
  /\ at[h][k] = "save" => attempt[r][k] = "settled"
  /\ at[h][k] \in {"respond", "publish"} =>
       /\ verdict[h][k] \in {"success", "error"}
       /\ Body[r][k] \in Payments =>
            /\ verdict[h][k] = "success" => attempt[r][k] = "settled"
            /\ verdict[h][k] = "error" => Timeouts \/ attempt[r][k] \in {"none", "failed"}

Core ==
  /\ Assigned
  /\ OneOwner
  /\ \A r \in Requests, k \in Slots : NotYet(r, k) /\ Ledger(r, k)
  /\ \A h \in Handlers, k \in Slots : Knows(h, k)

IInv == TypeOK /\ Core /\ RepliesNotYet

(***************************************************************************)
(* The handler pays once, in the sense of PayOnce.                         *)
(***************************************************************************)
Told(j) ==
  IF <<j[1], j[2], "success">> \in replies THEN "success"
  ELSE IF <<j[1], j[2], "error">> \in replies THEN "error" ELSE "nothing"

Promise == INSTANCE PayOnce WITH
  job <- [j \in Jobs |-> attempt[j[1]][j[2]]],
  told <- [j \in Jobs |-> Told(j)]

PaysOnce == Promise!PayOnceSpec
=============================================================================
