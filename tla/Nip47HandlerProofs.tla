------------------------ MODULE Nip47HandlerProofs ------------------------
(***************************************************************************)
(* Proofs about Nip47Handler, for any apps, requests, slots and number of  *)
(* deliveries, with or without database faults, crashes and timeouts.      *)
(*                                                                         *)
(* A step of one thread changes the cells of that thread (its place, its   *)
(* verdict) and the cells of the slot it serves (the payments row, what    *)
(* the node knows, the count of payments sent).  "Moves" and "Cells" say   *)
(* so cell by cell; LocalCore and MainCore show once that everything the   *)
(* inductive invariant says of other threads and slots survives such a     *)
(* step, and each action is left with what it does at its own place.       *)
(***************************************************************************)
EXTENDS Nip47Handler, TLAPS

Steps == MainSteps \cup SlotSteps \cup ReplySteps

RequestType == [Requests -> {"absent", "executing", "executed", "error"}]
PaymentType == [Requests -> [Slots -> {"absent", "pending", "paid"}]]
ResponseType == [Handlers -> [Threads -> {"absent", "received", "confirmed", "failed"}]]
ServesType == [Handlers -> Requests \cup {NoRequest}]
AtType == [Handlers -> [Threads -> Steps]]
VerdictType == [Handlers -> [Threads -> Outcomes]]
StateType == [Handlers -> {"executing", "executed", "error"}]
AttemptType == [Requests -> [Slots -> {"none", "inflight", "settled", "failed"}]]
OwnerType == [Requests -> SUBSET Handlers]
SendsType == [Requests -> [Slots -> Nat]]

\* TypeOK with the types named, in a state and in the next one.
LEMMA Types ==
  TypeOK <=>
    /\ request \in RequestType /\ payment \in PaymentType /\ stale \subseteq Jobs
    /\ response \in ResponseType /\ access \in [Apps -> Grant] /\ serves \in ServesType
    /\ at \in AtType /\ verdict \in VerdictType /\ state \in StateType
    /\ replies \subseteq Requests \X Threads \X Outcomes /\ attempt \in AttemptType
    /\ owner \in OwnerType /\ sends \in SendsType /\ blind \subseteq Apps
  BY DEF TypeOK, RequestType, PaymentType, ResponseType, ServesType, AtType, Steps,
         VerdictType, StateType, AttemptType, OwnerType, SendsType

LEMMA TypesNext ==
  TypeOK' <=>
    /\ request' \in RequestType /\ payment' \in PaymentType /\ stale' \subseteq Jobs
    /\ response' \in ResponseType /\ access' \in [Apps -> Grant] /\ serves' \in ServesType
    /\ at' \in AtType /\ verdict' \in VerdictType /\ state' \in StateType
    /\ replies' \subseteq Requests \X Threads \X Outcomes /\ attempt' \in AttemptType
    /\ owner' \in OwnerType /\ sends' \in SendsType /\ blind' \subseteq Apps
  BY DEF TypeOK, RequestType, PaymentType, ResponseType, ServesType, AtType, Steps,
         VerdictType, StateType, AttemptType, OwnerType, SendsType

LEMMA ThreadFacts ==
  Main \in Threads /\ Slots \subseteq Threads /\ \A k \in Slots : k # Main
  BY ConstantsAssumption DEF Threads

(***************************************************************************)
(* Updates of one cell                                                     *)
(***************************************************************************)
Updated(g, f, X, Y, x, y, v) ==
  \A a \in X, b \in Y : g[a][b] = IF a = x /\ b = y THEN v ELSE f[a][b]

LEMMA UpdateCell ==
  ASSUME NEW X, NEW Y, NEW V, NEW f \in [X -> [Y -> V]],
         NEW x \in X, NEW y \in Y, NEW v \in V
  PROVE  /\ [f EXCEPT ![x][y] = v] \in [X -> [Y -> V]]
         /\ Updated([f EXCEPT ![x][y] = v], f, X, Y, x, y, v)
  BY DEF Updated

\* Thread t of handler h goes to step s with the verdict v.
Moves(h, t, s, v) ==
  /\ at' \in AtType /\ Updated(at', at, Handlers, Threads, h, t, s)
  /\ verdict' \in VerdictType /\ Updated(verdict', verdict, Handlers, Threads, h, t, v)

\* Slot k of request r has now the row p, the node's knowledge a and n payments.
Cells(r, k, p, a, n) ==
  /\ payment' \in PaymentType /\ Updated(payment', payment, Requests, Slots, r, k, p)
  /\ attempt' \in AttemptType /\ Updated(attempt', attempt, Requests, Slots, r, k, a)
  /\ sends' \in SendsType /\ Updated(sends', sends, Requests, Slots, r, k, n)

LEMMA GotoMoves ==
  ASSUME at \in AtType, verdict \in VerdictType, NEW h \in Handlers, NEW t \in Threads,
         NEW s \in Steps, Goto(h, t, s), verdict' = verdict
  PROVE  Moves(h, t, s, verdict[h][t])
<1>1. at' \in AtType /\ Updated(at', at, Handlers, Threads, h, t, s)
  BY UpdateCell DEF AtType, Goto
<1>2. Updated(verdict', verdict, Handlers, Threads, h, t, verdict[h][t])
  BY DEF Updated
<1>3. QED
  BY <1>1, <1>2 DEF Moves

LEMMA AnswerMoves ==
  ASSUME at \in AtType, verdict \in VerdictType, NEW h \in Handlers, NEW t \in Threads,
         NEW v \in Outcomes, Answer(h, t, v)
  PROVE  Moves(h, t, "respond", v)
<1>1. at' \in AtType /\ Updated(at', at, Handlers, Threads, h, t, "respond")
  <2>1. at' = [at EXCEPT ![h][t] = "respond"] /\ "respond" \in Steps
    BY DEF Answer, Goto, Steps, ReplySteps
  <2>2. QED
    BY <2>1, UpdateCell DEF AtType
<1>2. verdict' \in VerdictType /\ Updated(verdict', verdict, Handlers, Threads, h, t, v)
  BY UpdateCell DEF VerdictType, Answer
<1>3. QED
  BY <1>1, <1>2 DEF Moves

LEMMA SameCells ==
  ASSUME TypeOK, NEW r, NEW k, UNCHANGED <<payment, attempt, sends>>
  PROVE  Cells(r, k, payment[r][k], attempt[r][k], sends[r][k])
  BY Types DEF Cells, Updated

LEMMA PaymentCell ==
  ASSUME TypeOK, NEW r \in Requests, NEW k \in Slots, NEW p \in {"absent", "pending", "paid"},
         payment' = [payment EXCEPT ![r][k] = p], UNCHANGED <<attempt, sends>>
  PROVE  Cells(r, k, p, attempt[r][k], sends[r][k])
<1>1. payment' \in PaymentType /\ Updated(payment', payment, Requests, Slots, r, k, p)
  BY Types DEF PaymentType, Updated
<1>2. QED
  BY <1>1, Types DEF Cells, Updated

LEMMA AttemptCell ==
  ASSUME TypeOK, NEW r \in Requests, NEW k \in Slots,
         NEW a \in {"none", "inflight", "settled", "failed"},
         attempt' = [attempt EXCEPT ![r][k] = a]
  PROVE  attempt' \in AttemptType /\ Updated(attempt', attempt, Requests, Slots, r, k, a)
  BY Types DEF AttemptType, Updated

LEMMA SendsCell ==
  ASSUME TypeOK, NEW r \in Requests, NEW k \in Slots, NEW n \in Nat,
         sends' = [sends EXCEPT ![r][k] = n]
  PROVE  sends' \in SendsType /\ Updated(sends', sends, Requests, Slots, r, k, n)
  BY Types DEF SendsType, Updated

(***************************************************************************)
(* What a step of one thread leaves intact                                 *)
(***************************************************************************)
LEMMA LocalCore ==
  ASSUME TypeOK, Core, NEW h \in Handlers, NEW k \in Slots,
         NEW s, NEW v, NEW p, NEW a, NEW n,
         at[h][k] # "idle", s # "idle",
         Moves(h, k, s, v), Cells(serves[h], k, p, a, n), UNCHANGED <<serves, owner>>,
         \A q \in Requests : request'[q] = "absent" => request[q] = "absent",
         NotYet(serves[h], k)', Ledger(serves[h], k)', Knows(h, k)'
  PROVE  Core'
<1> USE ThreadFacts
<1> DEFINE r == serves[h]
<1>1. /\ r \in Requests /\ h \in owner[r]
      /\ \A q \in Requests : \A g \in owner[q] : g \in Handlers /\ serves[g] = q
      /\ \A g \in owner[r] : g = h
  BY Types DEF Core, Assigned, OneOwner, OwnerType
<1>2. Assigned' /\ OneOwner'
  BY <1>1 DEF Core, Assigned, OneOwner, Moves, Updated
<1>3. ASSUME NEW q \in Requests, NEW j \in Slots PROVE NotYet(q, j)' /\ Ledger(q, j)'
  <2>1. CASE ~(q = r /\ j = k)
    <3>1. /\ \A g \in owner[q] : at'[g][j] = at[g][j]
          /\ payment'[q][j] = payment[q][j] /\ attempt'[q][j] = attempt[q][j]
          /\ sends'[q][j] = sends[q][j]
      BY <1>1, <2>1 DEF Moves, Cells, Updated
    <3>2. NotYet(q, j) /\ Ledger(q, j)
      BY DEF Core
    <3>3. QED
      BY <3>1, <3>2 DEF NotYet, Ledger
  <2>2. QED
    BY <2>1
<1>4. ASSUME NEW g \in Handlers, NEW j \in Slots PROVE Knows(g, j)'
  <2>1. Knows(g, j)
    BY DEF Core
  <2>2. CASE ~(g = h /\ j = k) /\ at[g][j] # "idle"
    <3>1. serves[g] \in Requests /\ (serves[g] = r => j # k)
      BY <1>1, <2>2 DEF Core, Assigned, OneOwner
    <3>2. /\ at'[g][j] = at[g][j] /\ verdict'[g][j] = verdict[g][j]
          /\ payment'[serves[g]][j] = payment[serves[g]][j]
          /\ attempt'[serves[g]][j] = attempt[serves[g]][j]
          /\ sends'[serves[g]][j] = sends[serves[g]][j]
      BY <3>1, <2>2, <1>1 DEF Moves, Cells, Updated
    <3>3. QED
      BY <3>2, <2>1 DEF Knows
  <2>3. CASE ~(g = h /\ j = k) /\ at[g][j] = "idle"
    BY <2>3 DEF Knows, Moves, Updated
  <2>4. QED
    BY <2>2, <2>3
<1>5. QED
  BY <1>2, <1>3, <1>4 DEF Core

\* A step of the thread that runs HandleEvent touches no slot.
LEMMA MainCore ==
  ASSUME TypeOK, Core, NEW h \in Handlers, NEW s, NEW v,
         Moves(h, Main, s, v), UNCHANGED <<serves, owner, payment, attempt, sends>>,
         \A q \in Requests : request'[q] = "absent" => request[q] = "absent",
         at[h][Main] # "idle", s \notin {"idle", "store"},
         s \in {"find", "open", "serve"} => h \in owner[serves[h]],
         s \in {"open", "serve"} => Sender[serves[h]] \in Apps,
         s \in {"find", "open"} => at[h][Main] \in {"find", "open"}
  PROVE  Core'
<1> USE ThreadFacts
<1>1. \A g \in Handlers, j \in Slots : at'[g][j] = at[g][j] /\ verdict'[g][j] = verdict[g][j]
  BY DEF Moves, Updated
<1>2. Assigned' /\ OneOwner'
  <2>1. \A g \in Handlers : at'[g][Main] = IF g = h THEN s ELSE at[g][Main]
    BY DEF Moves, Updated
  <2>2. \A q \in Requests : \A g \in owner[q] : g \in Handlers
    BY Types DEF OwnerType
  <2>3. Assigned'
    BY <1>1, <2>1 DEF Core, Assigned
  <2>4. OneOwner'
    BY <1>1, <2>1, <2>2 DEF Core, OneOwner
  <2>5. QED
    BY <2>3, <2>4
<1>3. ASSUME NEW q \in Requests, NEW j \in Slots PROVE NotYet(q, j)' /\ Ledger(q, j)'
  <2>1. \A g \in owner[q] : g \in Handlers
    BY Types DEF OwnerType
  <2>2. QED
    BY <1>1, <2>1 DEF Core, NotYet, Ledger
<1>4. ASSUME NEW g \in Handlers, NEW j \in Slots PROVE Knows(g, j)'
  BY <1>1 DEF Core, Knows
<1>5. QED
  BY <1>2, <1>3, <1>4 DEF Core

\* Replies stay those of threads that are past publishing.
LEMMA LocalReplies ==
  ASSUME TypeOK, RepliesNotYet, NEW h \in Handlers, NEW t \in Threads, NEW s, NEW v,
         Moves(h, t, s, v), UNCHANGED owner,
         at[h][t] \in BeforeReply \/ s \notin BeforeReply \/ t = Main,
         \A q \in Requests, j \in Slots, w \in Outcomes : <<q, j, w>> \in replies' =>
            \/ <<q, j, w>> \in replies
            \/ j = t /\ h \in owner[q] /\ (\A g \in owner[q] : g = h) /\ s \notin BeforeReply
  PROVE  RepliesNotYet'
<1> USE ThreadFacts
<1>1. SUFFICES ASSUME NEW q \in Requests, NEW j \in Slots, NEW w \in Outcomes,
                      <<q, j, w>> \in replies'
               PROVE  owner[q] # {} /\ \A g \in owner[q] : at'[g][j] \notin BeforeReply
  BY DEF RepliesNotYet
<1>2. \A g \in owner[q] : g \in Handlers
  BY Types DEF OwnerType
<1>3. CASE <<q, j, w>> \in replies
  <2>1. owner[q] # {} /\ \A g \in owner[q] : at[g][j] \notin BeforeReply
    BY <1>3 DEF RepliesNotYet
  <2>2. QED
    BY <2>1, <1>2 DEF Moves, Updated
<1>4. CASE j = t /\ h \in owner[q] /\ (\A g \in owner[q] : g = h) /\ s \notin BeforeReply
  BY <1>4 DEF Moves, Updated
<1>5. QED
  BY <1>1, <1>3, <1>4

(***************************************************************************)
(* The steps of a slot                                                     *)
(***************************************************************************)
\* A step that moves a thread and touches no row: checking, asking, waiting.
LEMMA QuietSlot ==
  ASSUME IInv, NEW h \in Handlers, NEW k \in Slots, NEW s \in Steps, NEW v \in Outcomes,
         Moves(h, k, s, v), blind' \subseteq Apps,
         UNCHANGED <<dbVars, serves, state, outsideVars, owner, sends>>,
         at[h][k] \in {"check", "query", "create", "await"}, Knows(h, k)',
         s \in BeforeSend => at[h][k] \in BeforeCreate /\ s \in BeforeCreate, s # "idle"
  PROVE  IInv'
<1> USE ThreadFacts
<1> DEFINE r == serves[h]
<1>1. TypeOK /\ Core /\ RepliesNotYet
  BY DEF IInv
<1>2. /\ r \in Requests /\ h \in owner[r] /\ (\A g \in owner[r] : g = h)
      /\ NotYet(r, k) /\ Ledger(r, k)
  BY <1>1 DEF Core, Assigned, OneOwner
<1>3. /\ at'[h][k] = s
      /\ UNCHANGED <<request, payment, attempt, sends, owner, serves, replies>>
  BY DEF Moves, Updated, dbVars, outsideVars
<1>4. Cells(r, k, payment[r][k], attempt[r][k], sends[r][k])
  BY <1>1, <1>3, SameCells
<1>5. NotYet(r, k)' /\ Ledger(r, k)'
  BY <1>2, <1>3 DEF NotYet, Ledger, BeforeSend, BeforeCreate
<1>6. Core'
  BY <1>1, <1>3, <1>4, <1>5, LocalCore
<1>7. RepliesNotYet'
  BY <1>1, <1>3, LocalReplies DEF BeforeReply, BeforeSend, BeforeCreate
<1>8. TypeOK'
  BY <1>1, Types, TypesNext DEF Moves, dbVars, outsideVars
<1>9. QED
  BY <1>6, <1>7, <1>8 DEF IInv

LEMMA CheckPermissionStep ==
  ASSUME IInv, NEW h \in Handlers, NEW k \in Slots, CheckPermission(h, k)
  PROVE  IInv'
<1> USE ThreadFacts
<1> DEFINE r == serves[h]
<1>1. /\ TypeOK /\ at[h][k] = "check"
      /\ r \in Requests /\ Sender[r] \in Apps /\ k \in DOMAIN Body[r] /\ Body[r][k] \in Work
      /\ NotYet(r, k) /\ h \in owner[r]
  BY ConstantsAssumption DEF IInv, Core, Assigned, OneOwner, CheckPermission
<1>2. /\ blind' \subseteq Apps
      /\ UNCHANGED <<dbVars, serves, state, outsideVars, owner, sends>>
  BY <1>1, Types DEF CheckPermission
<1>3. CASE /\ Goto(h, k, IF Body[r][k] = Query THEN "query" ELSE "create")
           /\ Body[r][k] # Malformed /\ verdict' = verdict
  <2> DEFINE s == IF Body[r][k] = Query THEN "query" ELSE "create"
  <2>1. s \in Steps /\ s \in BeforeCreate /\ s # "idle"
    BY DEF Steps, SlotSteps, BeforeCreate
  <2>2. Moves(h, k, s, verdict[h][k]) /\ verdict[h][k] \in Outcomes
    BY <1>1, <1>3, <2>1, GotoMoves, Types DEF VerdictType
  <2>3. Knows(h, k)'
    BY <1>1, <1>2, <1>3, <2>2 DEF Knows, Moves, Updated, Work
  <2>4. QED
    BY <1>1, <1>2, <2>1, <2>2, <2>3, QuietSlot DEF BeforeCreate
<1>4. CASE Answer(h, k, "error")
  <2>1. Moves(h, k, "respond", "error")
    BY <1>1, <1>4, AnswerMoves, Types DEF Outcomes
  <2>2. Knows(h, k)'
    BY <1>1, <1>2, <2>1 DEF Knows, Moves, Updated, NotYet, BeforeSend, BeforeCreate, outsideVars
  <2>3. QED
    BY <1>1, <1>2, <2>1, <2>2, QuietSlot DEF BeforeSend, BeforeCreate, Steps, ReplySteps, Outcomes
<1>5. QED
  BY <1>3, <1>4 DEF CheckPermission, WorkOf

LEMMA AskNodeStep ==
  ASSUME IInv, NEW h \in Handlers, NEW k \in Slots, AskNode(h, k)
  PROVE  IInv'
<1> USE ThreadFacts
<1>1. /\ TypeOK /\ at[h][k] = "query" /\ Body[serves[h]][k] \notin Payments
      /\ UNCHANGED <<dbVars, serves, state, outsideVars, owner, sends>> /\ blind' = blind
  BY ConstantsAssumption DEF IInv, Core, Knows, AskNode, history
<1>2. PICK v \in {"success", "error"} : Answer(h, k, v)
  BY DEF AskNode
<1>3. Moves(h, k, "respond", v) /\ v \in Outcomes
  BY <1>1, <1>2, AnswerMoves, Types DEF Outcomes
<1>4. Knows(h, k)'
  BY <1>1, <1>3 DEF Knows, Moves, Updated
<1>5. blind' \subseteq Apps
  BY <1>1, Types
<1>6. QED
  BY <1>1, <1>3, <1>4, <1>5, QuietSlot DEF BeforeSend, BeforeCreate, Steps, ReplySteps

LEMMA AwaitPaymentStep ==
  ASSUME IInv, NEW h \in Handlers, NEW k \in Slots, AwaitPayment(h, k)
  PROVE  IInv'
<1> USE ThreadFacts
<1> DEFINE r == serves[h]
<1>1. /\ TypeOK /\ at[h][k] = "await" /\ Knows(h, k)
      /\ UNCHANGED <<dbVars, serves, state, outsideVars, owner, sends>> /\ blind' = blind
  BY DEF IInv, Core, AwaitPayment, history
<1>2. blind' \subseteq Apps
  BY <1>1, Types
<1>3. CASE attempt[r][k] = "settled" /\ Goto(h, k, "save") /\ verdict' = verdict
  <2>1. Moves(h, k, "save", verdict[h][k]) /\ verdict[h][k] \in Outcomes
    BY <1>1, <1>3, GotoMoves, Types DEF VerdictType, Steps, SlotSteps
  <2>2. Knows(h, k)'
    BY <1>1, <1>3, <2>1 DEF Knows, Moves, Updated, dbVars, outsideVars
  <2>3. QED
    BY <1>1, <1>2, <2>1, <2>2, QuietSlot DEF BeforeSend, BeforeCreate, Steps, SlotSteps
<1>4. CASE /\ attempt[r][k] = "failed" \/ (attempt[r][k] = "inflight" /\ Timeouts)
           /\ Answer(h, k, "error")
  <2>1. Moves(h, k, "respond", "error")
    BY <1>1, <1>4, AnswerMoves, Types DEF Outcomes
  <2>2. Knows(h, k)'
    BY <1>1, <1>4, <2>1 DEF Knows, Moves, Updated, outsideVars
  <2>3. QED
    BY <1>1, <1>2, <2>1, <2>2, QuietSlot DEF BeforeSend, BeforeCreate, Steps, ReplySteps, Outcomes
<1>5. QED
  BY <1>3, <1>4 DEF AwaitPayment

LEMMA CreatePaymentStep ==
  ASSUME IInv, NEW h \in Handlers, NEW k \in Slots, CreatePayment(h, k)
  PROVE  IInv'
<1> USE ThreadFacts
<1> DEFINE r == serves[h]
<1>1. /\ TypeOK /\ Core /\ RepliesNotYet /\ at[h][k] = "create" /\ Knows(h, k)
      /\ NotYet(r, k) /\ Ledger(r, k)
      /\ r \in Requests /\ h \in owner[r] /\ (\A g \in owner[r] : g = h)
      /\ UNCHANGED <<request, stale, response, access, serves, state, replies, attempt,
                     owner, sends, blind>>
  BY DEF IInv, Core, Assigned, OneOwner, CreatePayment, history, outsideVars
<1>2. attempt[r][k] = "none" /\ sends[r][k] = 0
  BY <1>1 DEF NotYet, BeforeSend, BeforeCreate
<1>3. CASE payment' = [payment EXCEPT ![r][k] = "pending"] /\ Goto(h, k, "send") /\ verdict' = verdict
  <2>1. Moves(h, k, "send", verdict[h][k])
    BY <1>1, <1>3, GotoMoves, Types DEF Steps, SlotSteps
  <2>2. Cells(r, k, "pending", attempt[r][k], sends[r][k])
    BY <1>1, <1>3, PaymentCell
  <2>3. at'[h][k] = "send" /\ payment'[r][k] = "pending"
    BY <1>1, <2>1, <2>2 DEF Moves, Cells, Updated
  <2>4. NotYet(r, k)' /\ Ledger(r, k)' /\ Knows(h, k)'
    BY <1>1, <1>2, <2>3 DEF NotYet, Ledger, Knows, BeforeCreate
  <2>5. Core'
    BY <1>1, <2>1, <2>2, <2>4, LocalCore
  <2>6. RepliesNotYet'
    BY <1>1, <2>1, LocalReplies DEF BeforeReply, BeforeSend, BeforeCreate
  <2>7. TypeOK'
    BY <1>1, <2>1, <2>2, Types, TypesNext DEF Moves, Cells
  <2>8. QED
    BY <2>5, <2>6, <2>7 DEF IInv
<1>4. CASE Answer(h, k, "error") /\ payment' = payment
  <2>1. Moves(h, k, "respond", "error")
    BY <1>1, <1>4, AnswerMoves, Types DEF Outcomes
  <2>2. Knows(h, k)'
    BY <1>1, <1>2, <1>4, <2>1 DEF Knows, Moves, Updated
  <2>3. UNCHANGED <<dbVars, outsideVars>> /\ blind' \subseteq Apps
    BY <1>1, <1>4, Types DEF dbVars, outsideVars
  <2>4. QED
    BY <1>1, <2>1, <2>2, <2>3, QuietSlot DEF BeforeSend, BeforeCreate, Steps, ReplySteps, Outcomes
<1>5. QED
  BY <1>3, <1>4 DEF CreatePayment

LEMMA SendPaymentStep ==
  ASSUME IInv, NEW h \in Handlers, NEW k \in Slots, SendPayment(h, k)
  PROVE  IInv'
<1> USE ThreadFacts
<1> DEFINE r == serves[h]
<1>1. /\ TypeOK /\ Core /\ RepliesNotYet /\ at[h][k] = "send" /\ Knows(h, k)
      /\ NotYet(r, k) /\ Ledger(r, k)
      /\ r \in Requests /\ h \in owner[r] /\ (\A g \in owner[r] : g = h)
      /\ UNCHANGED <<request, payment, stale, response, access, serves, state, replies,
                     owner, blind>>
  BY DEF IInv, Core, Assigned, OneOwner, SendPayment, dbVars
<1>2. payment[r][k] = "pending" /\ attempt[r][k] = "none" /\ sends[r][k] = 0
  BY <1>1 DEF NotYet, BeforeSend, Knows
<1>3. sends' \in SendsType /\ Updated(sends', sends, Requests, Slots, r, k, 1)
  <2>1. sends' = [sends EXCEPT ![r][k] = sends[r][k] + 1]
    BY <1>1, Types DEF SendPayment, SendsType
  <2>2. sends' = [sends EXCEPT ![r][k] = 1]
    BY <1>2, <2>1
  <2>3. QED
    BY <1>1, <2>2, SendsCell
<1>4. /\ payment' \in PaymentType
      /\ Updated(payment', payment, Requests, Slots, r, k, payment[r][k])
  BY <1>1, Types DEF Updated
<1>5. CASE Answer(h, k, "error") /\ attempt' = attempt
  <2>1. Moves(h, k, "respond", "error")
    BY <1>1, <1>5, AnswerMoves, Types DEF Outcomes
  <2>2. Cells(r, k, payment[r][k], attempt[r][k], 1)
    BY <1>1, <1>3, <1>4, <1>5, Types DEF Cells, Updated
  <2>3. at'[h][k] = "respond" /\ verdict'[h][k] = "error" /\ sends'[r][k] = 1
    BY <1>1, <2>1, <2>2 DEF Moves, Cells, Updated
  <2>4. NotYet(r, k)' /\ Ledger(r, k)' /\ Knows(h, k)'
    BY <1>1, <1>2, <1>5, <2>3 DEF NotYet, Ledger, Knows, BeforeCreate, BeforeSend
  <2>5. Core'
    BY <1>1, <2>1, <2>2, <2>4, LocalCore
  <2>6. RepliesNotYet'
    BY <1>1, <2>1, LocalReplies DEF BeforeReply, BeforeSend
  <2>7. TypeOK'
    BY <1>1, <2>1, <2>2, Types, TypesNext DEF Moves, Cells
  <2>8. QED
    BY <2>5, <2>6, <2>7 DEF IInv
<1>6. CASE /\ attempt' = [attempt EXCEPT ![r][k] = "inflight"]
           /\ Goto(h, k, "await") /\ verdict' = verdict
  <2>1. Moves(h, k, "await", verdict[h][k])
    BY <1>1, <1>6, GotoMoves, Types DEF Steps, SlotSteps
  <2>2. Cells(r, k, payment[r][k], "inflight", 1)
    BY <1>1, <1>3, <1>4, <1>6, AttemptCell DEF Cells
  <2>3. at'[h][k] = "await" /\ attempt'[r][k] = "inflight" /\ sends'[r][k] = 1
    BY <1>1, <2>1, <2>2 DEF Moves, Cells, Updated
  <2>4. NotYet(r, k)' /\ Ledger(r, k)' /\ Knows(h, k)'
    BY <1>1, <1>2, <2>3 DEF NotYet, Ledger, Knows, BeforeCreate, BeforeSend
  <2>5. Core'
    BY <1>1, <2>1, <2>2, <2>4, LocalCore
  <2>6. RepliesNotYet'
    BY <1>1, <2>1, LocalReplies DEF BeforeReply, BeforeSend
  <2>7. TypeOK'
    BY <1>1, <2>1, <2>2, Types, TypesNext DEF Moves, Cells
  <2>8. QED
    BY <2>5, <2>6, <2>7 DEF IInv
<1>7. QED
  BY <1>5, <1>6 DEF SendPayment

LEMMA SavePreimageStep ==
  ASSUME IInv, NEW h \in Handlers, NEW k \in Slots, SavePreimage(h, k)
  PROVE  IInv'
<1> USE ThreadFacts
<1> DEFINE r == serves[h]
<1>1. /\ TypeOK /\ Core /\ RepliesNotYet /\ at[h][k] = "save" /\ Knows(h, k)
      /\ NotYet(r, k) /\ Ledger(r, k)
      /\ r \in Requests /\ h \in owner[r] /\ (\A g \in owner[r] : g = h)
      /\ UNCHANGED <<request, stale, response, access, serves, state, replies, attempt,
                     owner, sends, blind>>
      /\ Answer(h, k, "success")
  BY DEF IInv, Core, Assigned, OneOwner, SavePreimage, history, outsideVars
<1>2. PICK p \in {payment[r][k], "paid"} : Cells(r, k, p, attempt[r][k], sends[r][k])
  <2>1. CASE payment' = [payment EXCEPT ![r][k] = "paid"]
    BY <1>1, <2>1, PaymentCell
  <2>2. CASE payment' = payment
    BY <1>1, <2>2, SameCells
  <2>3. QED
    BY <2>1, <2>2 DEF SavePreimage
<1>3. Moves(h, k, "respond", "success")
  BY <1>1, AnswerMoves, Types DEF Outcomes
<1>4. at'[h][k] = "respond" /\ verdict'[h][k] = "success" /\ payment'[r][k] = p
  BY <1>1, <1>2, <1>3 DEF Moves, Cells, Updated
<1>5. NotYet(r, k)' /\ Ledger(r, k)' /\ Knows(h, k)'
  BY <1>1, <1>4 DEF NotYet, Ledger, Knows, BeforeCreate, BeforeSend
<1>6. Core'
  BY <1>1, <1>2, <1>3, <1>5, LocalCore
<1>7. RepliesNotYet'
  BY <1>1, <1>3, LocalReplies DEF BeforeReply
<1>8. TypeOK'
  BY <1>1, <1>2, <1>3, Types, TypesNext DEF Moves, Cells
<1>9. QED
  BY <1>6, <1>7, <1>8 DEF IInv

(***************************************************************************)
(* The steps of publishResponse                                            *)
(***************************************************************************)
LEMMA QuietReply ==
  ASSUME IInv, NEW h \in Handlers, NEW t \in Threads, NEW s \in Steps,
         at[h][t] \in {"respond", "publish", "confirmed", "failed", "record"},
         s \in {"publish", "confirmed", "failed", "record", "done"},
         s = "publish" => at[h][t] = "respond",
         Moves(h, t, s, verdict[h][t]),
         UNCHANGED <<payment, stale, access, serves, attempt, owner, sends, blind>>,
         request' \in RequestType, response' \in ResponseType, state' \in StateType,
         \A q \in Requests : request'[q] = "absent" => request[q] = "absent",
         replies' = replies \/
           (replies' = replies \cup {<<serves[h], t, verdict[h][t]>>} /\ s # "publish")
  PROVE  IInv'
<1> USE ThreadFacts
<1> DEFINE r == serves[h]
<1>1. TypeOK /\ Core /\ RepliesNotYet
  BY DEF IInv
<1>2. t = Main \/ t \in Slots
  BY DEF Threads
<1>3. /\ r \in Requests
      /\ t \in Slots => h \in owner[r] /\ \A g \in owner[r] : g = h
  BY <1>1, <1>2 DEF Core, Assigned, OneOwner
<1>4. TypeOK'
  <2>1. verdict[h][t] \in Outcomes
    BY <1>1, Types DEF VerdictType
  <2>2. replies' \subseteq Requests \X Threads \X Outcomes
    BY <1>1, <1>3, <2>1, Types
  <2>3. QED
    BY <1>1, <2>2, Types, TypesNext DEF Moves
<1>5. RepliesNotYet'
  <2>1. ASSUME NEW q \in Requests, NEW j \in Slots, NEW w \in Outcomes, <<q, j, w>> \in replies'
        PROVE  \/ <<q, j, w>> \in replies
               \/ j = t /\ h \in owner[q] /\ (\A g \in owner[q] : g = h) /\ s \notin BeforeReply
    BY <1>3, <2>1 DEF BeforeReply, BeforeSend, BeforeCreate
  <2>2. at[h][t] \in BeforeReply \/ s \notin BeforeReply
    BY DEF BeforeReply, BeforeSend, BeforeCreate
  <2>3. QED
    BY <1>1, <2>1, <2>2, LocalReplies
<1>6. CASE t \in Slots
  <2>1. Cells(r, t, payment[r][t], attempt[r][t], sends[r][t])
    BY <1>1, SameCells
  <2>2. at'[h][t] = s /\ verdict'[h][t] = verdict[h][t]
    BY DEF Moves, Updated
  <2>3. NotYet(r, t) /\ Ledger(r, t) /\ Knows(h, t)
    BY <1>1, <1>3, <1>6 DEF Core
  <2>4. NotYet(r, t)' /\ Ledger(r, t)' /\ Knows(h, t)'
    BY <1>3, <1>6, <2>2, <2>3 DEF NotYet, Ledger, Knows, BeforeSend, BeforeCreate
  <2>5. Core'
    BY <1>1, <1>6, <2>1, <2>4, LocalCore
  <2>6. QED
    BY <1>4, <1>5, <2>5 DEF IInv
<1>7. CASE t = Main
  <2>1. Core'
    BY <1>1, <1>7, MainCore
  <2>2. QED
    BY <1>4, <1>5, <2>1 DEF IInv
<1>8. QED
  BY <1>2, <1>6, <1>7

LEMMA CreateResponseRowStep ==
  ASSUME IInv, NEW h \in Handlers, NEW t \in Threads, CreateResponseRow(h, t)
  PROVE  IInv'
<1>1. /\ TypeOK /\ at[h][t] = "respond" /\ verdict' = verdict
      /\ UNCHANGED <<request, payment, stale, access, serves, replies, attempt, owner, sends, blind>>
      /\ request' \in RequestType
      /\ \A q \in Requests : request'[q] = "absent" => request[q] = "absent"
  BY Types DEF IInv, CreateResponseRow, history, outsideVars
<1>2. response' \in ResponseType /\ state' \in StateType
  BY <1>1, Types DEF CreateResponseRow, ResponseType, StateType
<1>3. PICK s \in {"publish", "done", "record"} : Goto(h, t, s)
  BY DEF CreateResponseRow
<1>4. s \in Steps
  BY DEF Steps, ReplySteps
<1>5. Moves(h, t, s, verdict[h][t])
  BY <1>1, <1>3, <1>4, GotoMoves, Types
<1>6. QED
  BY <1>1, <1>2, <1>4, <1>5, QuietReply

LEMMA PublishReplyStep ==
  ASSUME IInv, NEW h \in Handlers, NEW t \in Threads, PublishReply(h, t)
  PROVE  IInv'
<1>1. /\ TypeOK /\ at[h][t] = "publish" /\ verdict' = verdict
      /\ UNCHANGED <<payment, stale, access, serves, attempt, owner, sends, blind>>
      /\ request' \in RequestType /\ response' \in ResponseType /\ state' \in StateType
      /\ \A q \in Requests : request'[q] = "absent" => request[q] = "absent"
  BY Types DEF IInv, PublishReply, history, dbVars
<1>2. PICK s \in {"confirmed", "failed"} : Goto(h, t, s)
  BY DEF PublishReply
<1>3. s \in Steps
  BY DEF Steps, ReplySteps
<1>4. Moves(h, t, s, verdict[h][t])
  BY <1>1, <1>2, <1>3, GotoMoves, Types
<1>5. replies' = replies \/ replies' = replies \cup {<<serves[h], t, verdict[h][t]>>}
  BY DEF PublishReply
<1>6. QED
  BY <1>1, <1>3, <1>4, <1>5, QuietReply

LEMMA SaveResponseRowStep ==
  ASSUME IInv, NEW h \in Handlers, NEW t \in Threads, SaveResponseRow(h, t)
  PROVE  IInv'
<1>1. /\ TypeOK /\ at[h][t] \in {"confirmed", "failed"} /\ verdict' = verdict
      /\ UNCHANGED <<request, payment, stale, access, serves, replies, attempt, owner, sends, blind>>
      /\ request' \in RequestType
      /\ \A q \in Requests : request'[q] = "absent" => request[q] = "absent"
  BY Types DEF IInv, SaveResponseRow, history, outsideVars
<1>2. response' = [response EXCEPT ![h][t] = at[h][t]] \/ response' = response
  BY DEF SaveResponseRow
<1>3. response' \in ResponseType
  BY <1>1, <1>2, Types DEF ResponseType
<1>4. state' \in StateType
  BY <1>1, Types DEF SaveResponseRow, StateAfter, StateType
<1>5. PICK s \in {"done", "record"} : Goto(h, t, s)
  BY DEF SaveResponseRow
<1>6. s \in Steps
  BY DEF Steps, ReplySteps
<1>7. Moves(h, t, s, verdict[h][t])
  BY <1>1, <1>5, <1>6, GotoMoves, Types
<1>8. QED
  BY <1>1, <1>3, <1>4, <1>6, <1>7, QuietReply

LEMMA SaveRequestStateStep ==
  ASSUME IInv, NEW h \in Handlers, NEW t \in Threads, SaveRequestState(h, t)
  PROVE  IInv'
<1>1. /\ TypeOK /\ at[h][t] = "record" /\ verdict' = verdict /\ Goto(h, t, "done")
      /\ UNCHANGED <<payment, stale, access, serves, replies, attempt, owner, sends, blind>>
      /\ response' \in ResponseType /\ state' \in StateType
  BY Types DEF IInv, SaveRequestState, history, outsideVars
<1>2. serves[h] \in Requests /\ state[h] \in {"executing", "executed", "error"}
  BY <1>1, Types, ThreadFacts DEF IInv, Core, Assigned, Threads, StateType
<1>3. /\ request' \in RequestType
      /\ \A q \in Requests : request'[q] = "absent" => request[q] = "absent"
  BY <1>1, <1>2, Types DEF SaveRequestState, RequestType
<1>4. Moves(h, t, "done", verdict[h][t]) /\ "done" \in Steps
  BY <1>1, GotoMoves, Types DEF Steps, ReplySteps
<1>5. QED
  BY <1>1, <1>3, <1>4, QuietReply

(***************************************************************************)
(* The steps of the thread that runs HandleEvent                           *)
(***************************************************************************)
LEMMA DeliverStep ==
  ASSUME IInv, NEW h \in Handlers, NEW r \in Requests, Deliver(h, r)
  PROVE  IInv'
<1> USE ThreadFacts
<1>1. /\ TypeOK /\ Core /\ RepliesNotYet /\ at[h][Main] = "idle" /\ Goto(h, Main, "store")
      /\ serves' = [serves EXCEPT ![h] = r]
      /\ UNCHANGED <<request, payment, stale, response, access, verdict, state, replies,
                     attempt, owner, sends, blind>>
  BY DEF IInv, Deliver, dbVars, outsideVars, history
<1>2. Moves(h, Main, "store", verdict[h][Main])
  BY <1>1, GotoMoves, Types DEF Steps, MainSteps
<1>3. /\ \A g \in Handlers : serves'[g] = IF g = h THEN r ELSE serves[g]
      /\ \A g \in Handlers : at'[g][Main] = IF g = h THEN "store" ELSE at[g][Main]
      /\ \A g \in Handlers, j \in Slots : at'[g][j] = at[g][j]
      /\ \A j \in Slots : at[h][j] = "idle"
      /\ \A q \in Requests : h \notin owner[q]
      /\ \A q \in Requests : \A g \in owner[q] : g \in Handlers
      /\ serves' \in ServesType
  BY <1>1, <1>2, Types DEF Moves, Updated, ServesType, OwnerType, Core, Assigned, OneOwner
<1>4. Assigned'
  BY <1>1, <1>3 DEF Core, Assigned
<1>5. OneOwner'
  BY <1>1, <1>3 DEF Core, OneOwner
<1>6. ASSUME NEW q \in Requests, NEW j \in Slots PROVE NotYet(q, j)' /\ Ledger(q, j)'
  BY <1>1, <1>3 DEF Core, NotYet, Ledger
<1>7. ASSUME NEW g \in Handlers, NEW j \in Slots PROVE Knows(g, j)'
  BY <1>1, <1>3 DEF Core, Knows
<1>8. RepliesNotYet'
  BY <1>1, <1>3 DEF RepliesNotYet
<1>9. TypeOK'
  BY <1>1, <1>2, <1>3, Types, TypesNext DEF Moves
<1>10. QED
  BY <1>4, <1>5, <1>6, <1>7, <1>8, <1>9 DEF IInv, Core

LEMMA StoreRequestStep ==
  ASSUME IInv, NEW h \in Handlers, StoreRequest(h)
  PROVE  IInv'
<1> USE ThreadFacts
<1> DEFINE r == serves[h]
<1>1. /\ TypeOK /\ Core /\ RepliesNotYet /\ at[h][Main] = "store" /\ r \in Requests
      /\ UNCHANGED <<payment, stale, response, access, serves, state, replies,
                     attempt, sends, blind>>
  BY DEF IInv, Core, Assigned, StoreRequest, outsideVars
<1>2. CASE /\ request[r] = "absent" /\ request' = [request EXCEPT ![r] = "executing"]
           /\ owner' = [owner EXCEPT ![r] = @ \cup {h}]
           /\ Goto(h, Main, "find") /\ verdict' = verdict
  <2>1. Moves(h, Main, "find", verdict[h][Main])
    BY <1>1, <1>2, GotoMoves, Types DEF Steps, MainSteps
  <2>2. /\ \A g \in Handlers : at'[g][Main] = IF g = h THEN "find" ELSE at[g][Main]
        /\ \A g \in Handlers, j \in Slots : at'[g][j] = at[g][j]
        /\ \A j \in Slots : at[h][j] = "idle"
    BY <1>1, <2>1 DEF Moves, Updated, Core, Assigned
  <2>3. owner[r] = {} /\ \A q \in Requests : owner'[q] = IF q = r THEN {h} ELSE owner[q]
    <3>1. owner[r] = {}
      BY <1>1, <1>2 DEF Core, OneOwner
    <3>2. owner \in OwnerType
      BY <1>1, Types
    <3>3. \A q \in Requests : owner'[q] = IF q = r THEN owner[q] \cup {h} ELSE owner[q]
      BY <1>1, <1>2, <3>2 DEF OwnerType
    <3>4. QED
      BY <3>1, <3>3
  <2>4. \A q \in Requests : request'[q] = IF q = r THEN "executing" ELSE request[q]
    BY <1>1, <1>2, Types DEF RequestType
  <2>5. \A q \in Requests : \A g \in owner[q] : g \in Handlers
    BY <1>1, Types DEF OwnerType
  <2>6. Assigned'
    BY <1>1, <2>2 DEF Core, Assigned
  <2>7. OneOwner'
    BY <1>1, <2>2, <2>3, <2>4, <2>5 DEF Core, Assigned, OneOwner
  <2>8. ASSUME NEW q \in Requests, NEW j \in Slots PROVE NotYet(q, j)' /\ Ledger(q, j)'
    <3>1. NotYet(q, j) /\ Ledger(q, j)
      BY <1>1 DEF Core
    <3>2. QED
      BY <1>1, <2>2, <2>3, <2>5, <3>1 DEF NotYet, Ledger
  <2>9. ASSUME NEW g \in Handlers, NEW j \in Slots PROVE Knows(g, j)'
    BY <1>1, <1>2, <2>2 DEF Core, Knows
  <2>10. RepliesNotYet'
    BY <1>1, <2>2, <2>3, <2>5 DEF RepliesNotYet
  <2>11. request' \in RequestType /\ owner' \in OwnerType
    BY <1>1, <1>2, Types DEF RequestType, OwnerType
  <2>12. TypeOK'
    BY <1>1, <2>1, <2>11, Types, TypesNext DEF Moves
  <2>13. QED
    BY <2>6, <2>7, <2>8, <2>9, <2>10, <2>12 DEF IInv, Core
<1>3. CASE Answer(h, Main, "save_failed") /\ UNCHANGED <<request, owner>>
  <2>1. Moves(h, Main, "respond", "save_failed")
    BY <1>1, <1>3, AnswerMoves, Types DEF Outcomes
  <2>2. Core'
    BY <1>1, <1>3, <2>1, MainCore
  <2>3. RepliesNotYet'
    BY <1>1, <1>3, <2>1, LocalReplies
  <2>4. TypeOK'
    BY <1>1, <1>3, <2>1, Types, TypesNext DEF Moves
  <2>5. QED
    BY <2>2, <2>3, <2>4 DEF IInv
<1>4. QED
  BY <1>2, <1>3 DEF StoreRequest

LEMMA FindAppStep ==
  ASSUME IInv, NEW h \in Handlers, FindApp(h)
  PROVE  IInv'
<1> USE ThreadFacts
<1>1. /\ TypeOK /\ Core /\ RepliesNotYet /\ at[h][Main] = "find"
      /\ UNCHANGED <<request, payment, stale, response, access, serves, state, replies,
                     attempt, owner, sends, blind>>
      /\ h \in owner[serves[h]]
  BY DEF IInv, Core, OneOwner, FindApp, dbVars, outsideVars, history
<1>2. CASE Sender[serves[h]] \in Apps /\ Goto(h, Main, "open") /\ verdict' = verdict
  <2>1. Moves(h, Main, "open", verdict[h][Main])
    BY <1>1, <1>2, GotoMoves, Types DEF Steps, MainSteps
  <2>2. Core'
    BY <1>1, <1>2, <2>1, MainCore
  <2>3. RepliesNotYet'
    BY <1>1, <2>1, LocalReplies
  <2>4. TypeOK'
    BY <1>1, <2>1, Types, TypesNext DEF Moves
  <2>5. QED
    BY <2>2, <2>3, <2>4 DEF IInv
<1>3. CASE Answer(h, Main, "unauthorized")
  <2>1. Moves(h, Main, "respond", "unauthorized")
    BY <1>1, <1>3, AnswerMoves, Types DEF Outcomes
  <2>2. Core'
    BY <1>1, <2>1, MainCore
  <2>3. RepliesNotYet'
    BY <1>1, <2>1, LocalReplies
  <2>4. TypeOK'
    BY <1>1, <2>1, Types, TypesNext DEF Moves
  <2>5. QED
    BY <2>2, <2>3, <2>4 DEF IInv
<1>4. QED
  BY <1>2, <1>3 DEF FindApp

LEMMA FinishEventStep ==
  ASSUME IInv, NEW h \in Handlers, FinishEvent(h)
  PROVE  IInv'
<1> USE ThreadFacts
<1>1. /\ TypeOK /\ Core /\ RepliesNotYet /\ at[h][Main] = "serve" /\ Goto(h, Main, "done")
      /\ UNCHANGED <<request, payment, stale, response, access, serves, state, verdict,
                     replies, attempt, owner, sends, blind>>
  BY DEF IInv, FinishEvent, dbVars, outsideVars, history
<1>2. Moves(h, Main, "done", verdict[h][Main])
  BY <1>1, GotoMoves, Types DEF Steps, ReplySteps
<1>3. Core'
  BY <1>1, <1>2, MainCore
<1>4. RepliesNotYet'
  BY <1>1, <1>2, LocalReplies
<1>5. TypeOK'
  BY <1>1, <1>2, Types, TypesNext DEF Moves
<1>6. QED
  BY <1>3, <1>4, <1>5 DEF IInv

LEMMA OpenRequestStep ==
  ASSUME IInv, NEW h \in Handlers, OpenRequest(h)
  PROVE  IInv'
<1> USE ThreadFacts
<1> DEFINE r == serves[h]
<1>1. /\ TypeOK /\ Core /\ RepliesNotYet /\ at[h][Main] = "open"
      /\ UNCHANGED <<payment, stale, response, access, serves, verdict,
                     replies, attempt, owner, sends, blind>>
      /\ r \in Requests /\ h \in owner[r] /\ (\A g \in owner[r] : g = h) /\ Sender[r] \in Apps
      /\ \A j \in Slots : at[h][j] = "idle"
  BY DEF IInv, Core, Assigned, OneOwner, OpenRequest, outsideVars, history
<1>2. CASE /\ r \in Sealed /\ state' = [state EXCEPT ![h] = "error"]
           /\ request' = [request EXCEPT ![r] = "error"] \/ request' = request
           /\ Goto(h, Main, "done")
  <2>1. Moves(h, Main, "done", verdict[h][Main])
    BY <1>1, <1>2, GotoMoves, Types DEF Steps, ReplySteps
  <2>2. /\ request' \in RequestType /\ state' \in StateType
        /\ \A q \in Requests : request'[q] = "absent" => request[q] = "absent"
    BY <1>1, <1>2, Types DEF RequestType, StateType
  <2>3. Core'
    BY <1>1, <2>1, <2>2, MainCore
  <2>4. RepliesNotYet'
    BY <1>1, <2>1, LocalReplies
  <2>5. TypeOK'
    BY <1>1, <2>1, <2>2, Types, TypesNext DEF Moves
  <2>6. QED
    BY <2>3, <2>4, <2>5 DEF IInv
<1>3. CASE r \notin Sealed
  <2>1. /\ request' = request /\ state' = state
        /\ at' = [at EXCEPT ![h] =
                        [t \in Threads |-> IF t = Main THEN "serve"
                                           ELSE IF t \in DOMAIN Body[r] THEN "check"
                                           ELSE at[h][t]]]
    BY <1>1, <1>3, Types DEF OpenRequest, AtType
  <2>2. /\ \A g \in Handlers, t \in Threads : g # h => at'[g][t] = at[g][t]
        /\ at'[h][Main] = "serve"
        /\ \A j \in Slots : at'[h][j] = IF j \in DOMAIN Body[r] THEN "check" ELSE "idle"
        /\ at' \in AtType
    BY <1>1, <2>1, Types DEF AtType, Steps, MainSteps, SlotSteps
  <2>3. Assigned'
    BY <1>1, <1>3, <2>2 DEF Core, Assigned
  <2>4. \A q \in Requests : \A g \in owner[q] : g \in Handlers
    BY <1>1, Types DEF OwnerType
  <2>5. OneOwner'
    BY <1>1, <2>1, <2>2, <2>4 DEF Core, OneOwner
  <2>6. ASSUME NEW q \in Requests, NEW j \in Slots PROVE NotYet(q, j)' /\ Ledger(q, j)'
    <3>1. NotYet(q, j) /\ Ledger(q, j)
      BY <1>1 DEF Core
    <3>2. QED
      BY <1>1, <2>2, <2>4, <3>1 DEF NotYet, Ledger, BeforeCreate, BeforeSend
  <2>7. ASSUME NEW g \in Handlers, NEW j \in Slots PROVE Knows(g, j)'
    BY <1>1, <2>2 DEF Core, Knows
  <2>8. RepliesNotYet'
    BY <1>1, <2>2, <2>4 DEF RepliesNotYet, BeforeReply, BeforeSend, BeforeCreate
  <2>9. TypeOK'
    BY <1>1, <2>1, <2>2, Types, TypesNext
  <2>10. QED
    BY <2>3, <2>5, <2>6, <2>7, <2>8, <2>9 DEF IInv, Core
<1>4. QED
  BY <1>2, <1>3 DEF OpenRequest

(***************************************************************************)
(* The steps of the node, the user, time and crashes                       *)
(***************************************************************************)
LEMMA ResolvePaymentStep ==
  ASSUME IInv, NEW r \in Requests, NEW k \in Slots, ResolvePayment(r, k)
  PROVE  IInv'
<1>1. /\ TypeOK /\ Core /\ RepliesNotYet /\ attempt[r][k] = "inflight"
      /\ UNCHANGED <<request, payment, stale, response, access, serves, at, verdict, state,
                     replies, owner, sends, blind>>
  BY DEF IInv, ResolvePayment, dbVars, handlerVars, history
<1>2. PICK v \in {"settled", "failed"} : attempt' = [attempt EXCEPT ![r][k] = v]
  BY DEF ResolvePayment
<1>3. attempt' \in AttemptType /\ Updated(attempt', attempt, Requests, Slots, r, k, v)
  BY <1>1, <1>2, AttemptCell
<1>4. \A q \in Requests, j \in Slots :
        attempt'[q][j] = IF q = r /\ j = k THEN v ELSE attempt[q][j]
  BY <1>3 DEF Updated
<1>5. Assigned' /\ OneOwner' /\ RepliesNotYet'
  BY <1>1 DEF Core, Assigned, OneOwner, RepliesNotYet
<1>6. ASSUME NEW q \in Requests, NEW j \in Slots PROVE NotYet(q, j)' /\ Ledger(q, j)'
  <2>1. NotYet(q, j) /\ Ledger(q, j)
    BY <1>1 DEF Core
  <2>2. QED
    BY <1>1, <1>4, <2>1 DEF NotYet, Ledger
<1>7. ASSUME NEW g \in Handlers, NEW j \in Slots PROVE Knows(g, j)'
  <2>1. Knows(g, j)
    BY <1>1 DEF Core
  <2>2. CASE at[g][j] = "idle"
    BY <1>1, <2>2 DEF Knows
  <2>3. CASE serves[g] \in Requests
    BY <1>1, <1>4, <2>1, <2>3 DEF Knows
  <2>4. QED
    BY <1>1, <2>2, <2>3 DEF Core, Assigned
<1>8. TypeOK'
  BY <1>1, <1>3, Types, TypesNext
<1>9. QED
  BY <1>5, <1>6, <1>7, <1>8 DEF IInv, Core

\* What the invariant says of handlers, rows and replies does not depend on the
\* permissions, the budget periods, or the history of blind checks.
LEMMA UnrelatedStep ==
  ASSUME IInv, TypeOK',
         UNCHANGED <<request, payment, serves, at, verdict, replies, attempt, owner, sends>>
  PROVE  IInv'
<1>1. TypeOK /\ Core /\ RepliesNotYet
  BY DEF IInv
<1>2. Assigned' /\ OneOwner' /\ RepliesNotYet'
  BY <1>1 DEF Core, Assigned, OneOwner, RepliesNotYet
<1>3. \A q \in Requests, j \in Slots : NotYet(q, j)' /\ Ledger(q, j)'
  BY <1>1 DEF Core, NotYet, Ledger
<1>4. \A g \in Handlers, j \in Slots : Knows(g, j)'
  BY <1>1 DEF Core, Knows
<1>5. QED
  BY <1>2, <1>3, <1>4 DEF IInv, Core

LEMMA UpdateAppStep ==
  ASSUME IInv, NEW a \in Apps, NEW g \in Grants, UpdateApp(a, g)
  PROVE  IInv'
<1>1. /\ TypeOK /\ access' = [access EXCEPT ![a] = g] /\ g \in Grant
      /\ UNCHANGED <<request, payment, response, serves, at, verdict, state,
                     replies, attempt, owner, sends>>
  BY ConstantsAssumption DEF IInv, UpdateApp, handlerVars, outsideVars
<1>2. access' \in [Apps -> Grant]
  BY <1>1, Types
<1>3. stale' \subseteq Jobs
  BY <1>1, Types DEF UpdateApp, Written, JobsOf
<1>4. blind' \subseteq Apps
  BY <1>1, Types DEF UpdateApp
<1>5. QED
  BY <1>1, <1>2, <1>3, <1>4, Types, TypesNext, UnrelatedStep

LEMMA ExpireAppStep ==
  ASSUME IInv, NEW a \in Apps, ExpireApp(a)
  PROVE  IInv'
<1>1. /\ TypeOK /\ access' = [access EXCEPT ![a].expired = TRUE]
      /\ UNCHANGED <<request, payment, stale, response, serves, at, verdict, state,
                     replies, attempt, owner, sends, blind>>
  BY DEF IInv, ExpireApp, handlerVars, outsideVars, history
<1>2. access \in [Apps -> Grant]
  BY <1>1, Types
<1>3. access' \in [Apps -> Grant]
  BY <1>1, <1>2 DEF Grant
<1>4. QED
  BY <1>1, <1>3, Types, TypesNext, UnrelatedStep

LEMMA RenewBudgetStep ==
  ASSUME IInv, NEW a \in Apps, RenewBudget(a)
  PROVE  IInv'
<1>1. /\ TypeOK /\ stale' \subseteq Jobs
      /\ UNCHANGED <<request, payment, response, access, serves, at, verdict, state,
                     replies, attempt, owner, sends, blind>>
  BY Types DEF IInv, RenewBudget, Written, JobsOf, handlerVars, outsideVars, history
<1>2. QED
  BY <1>1, Types, TypesNext, UnrelatedStep

LEMMA CrashStep ==
  ASSUME IInv, Crash
  PROVE  IInv'
<1> USE ThreadFacts
<1>1. /\ TypeOK /\ Core /\ RepliesNotYet
      /\ UNCHANGED <<request, payment, stale, response, access, serves, verdict, state,
                     replies, attempt, owner, sends, blind>>
  BY DEF IInv, Crash, dbVars, outsideVars, history
<1>2. /\ at' \in AtType
      /\ \A g \in Handlers, t \in Threads :
           at'[g][t] = IF Active(g, t) THEN "crashed" ELSE at[g][t]
  BY <1>1, Types DEF Crash, AtType, Steps, ReplySteps
<1>3. \A g \in Handlers, t \in Threads :
        /\ at'[g][t] \in {"idle", "done", "crashed"}
        /\ at'[g][t] = "idle" <=> at[g][t] = "idle"
  BY <1>2 DEF Active
<1>4. \A q \in Requests : \A g \in owner[q] : g \in Handlers
  BY <1>1, Types DEF OwnerType
<1>5. Assigned'
  BY <1>1, <1>3 DEF Core, Assigned
<1>6. OneOwner'
  BY <1>1, <1>3, <1>4 DEF Core, OneOwner
<1>7. ASSUME NEW q \in Requests, NEW j \in Slots PROVE NotYet(q, j)' /\ Ledger(q, j)'
  <2>1. NotYet(q, j) /\ Ledger(q, j)
    BY <1>1 DEF Core
  <2>2. QED
    BY <1>1, <1>3, <1>4, <2>1 DEF NotYet, Ledger, BeforeSend, BeforeCreate
<1>8. ASSUME NEW g \in Handlers, NEW j \in Slots PROVE Knows(g, j)'
  BY <1>3 DEF Knows
<1>9. RepliesNotYet'
  BY <1>1, <1>3, <1>4 DEF RepliesNotYet, BeforeReply, BeforeSend, BeforeCreate
<1>10. TypeOK'
  BY <1>1, <1>2, Types, TypesNext
<1>11. QED
  BY <1>5, <1>6, <1>7, <1>8, <1>9, <1>10 DEF IInv, Core

(***************************************************************************)
(* The invariant                                                           *)
(***************************************************************************)
LEMMA InvInit == Init => IInv
<1> SUFFICES ASSUME Init PROVE IInv
  OBVIOUS
<1> USE ThreadFacts
<1>1. TypeOK
  BY ConstantsAssumption DEF Init, TypeOK, MainSteps, Outcomes
<1>2. Assigned /\ OneOwner /\ RepliesNotYet
  BY DEF Init, Assigned, OneOwner, RepliesNotYet
<1>3. \A r \in Requests, k \in Slots : NotYet(r, k) /\ Ledger(r, k)
  BY DEF Init, NotYet, Ledger
<1>4. \A h \in Handlers, k \in Slots : Knows(h, k)
  BY DEF Init, Knows
<1>5. QED
  BY <1>1, <1>2, <1>3, <1>4 DEF IInv, Core

LEMMA InvNext == IInv /\ [Next]_vars => IInv'
<1> SUFFICES ASSUME IInv, [Next]_vars PROVE IInv'
  OBVIOUS
<1>1. ASSUME NEW h \in Handlers, MainStep(h) PROVE IInv'
  BY <1>1, StoreRequestStep, FindAppStep, OpenRequestStep, FinishEventStep DEF MainStep
<1>2. ASSUME NEW h \in Handlers, NEW k \in Slots, SlotStep(h, k) PROVE IInv'
  BY <1>2, CheckPermissionStep, AskNodeStep, CreatePaymentStep, SendPaymentStep,
     AwaitPaymentStep, SavePreimageStep DEF SlotStep
<1>3. ASSUME NEW h \in Handlers, NEW t \in Threads, ReplyStep(h, t) PROVE IInv'
  BY <1>3, CreateResponseRowStep, PublishReplyStep, SaveResponseRowStep,
     SaveRequestStateStep DEF ReplyStep
<1>4. CASE UNCHANGED vars
  <2>1. UNCHANGED <<request, payment, stale, response, access, serves, at, verdict, state,
                    replies, attempt, owner, sends, blind>>
    BY <1>4 DEF vars, dbVars, handlerVars, outsideVars, history
  <2>2. TypeOK'
    BY <2>1, Types, TypesNext DEF IInv
  <2>3. QED
    BY <2>1, <2>2, UnrelatedStep
<1>5. QED
  BY <1>1, <1>2, <1>3, <1>4, DeliverStep, ResolvePaymentStep, UpdateAppStep,
     ExpireAppStep, RenewBudgetStep, CrashStep DEF Next

\* Each event has one owner, and rows, node and replies agree with how far the
\* owner's threads have come, in every reachable state.
THEOREM Invariance == Spec => []IInv
  BY InvInit, InvNext, PTL DEF Spec

\* Every variable keeps its type (the statements of HandleEvent and pay).
THEOREM TypeCorrect == Spec => []TypeOK
<1>1. IInv => TypeOK
  BY DEF IInv
<1>2. QED
  BY <1>1, Invariance, PTL

\* A request event is processed at most once: no payment is handed to the node
\* twice, however often the relay delivers the event.
THEOREM AtMostOnce == Spec => []ProcessedAtMostOnce
<1>1. IInv => ProcessedAtMostOnce
  BY DEF IInv, Core, Ledger, ProcessedAtMostOnce
<1>2. QED
  BY <1>1, Invariance, PTL

\* A row with a preimage is a settled payment, and a payment the node knows has
\* a row.
THEOREM LedgerCorrect == Spec => []LedgerMatchesNode
<1>1. IInv => LedgerMatchesNode
  BY DEF IInv, Core, Ledger, LedgerMatchesNode, Jobs
<1>2. QED
  BY <1>1, Invariance, PTL

(***************************************************************************)
(* Refused requests                                                        *)
(***************************************************************************)
LEMMA RefusedStep ==
  IInv /\ RefusedIsUnpaid /\ [Next]_vars => RefusedIsUnpaid'
<1> SUFFICES ASSUME IInv, RefusedIsUnpaid, [Next]_vars PROVE RefusedIsUnpaid'
  OBVIOUS
<1>1. CASE UNCHANGED sends
  BY <1>1 DEF RefusedIsUnpaid
<1>2. ASSUME NEW h \in Handlers, NEW k \in Slots, SendPayment(h, k)
      PROVE  RefusedIsUnpaid'
  <2>1. /\ sends \in SendsType /\ serves[h] \in Requests \ Sealed
        /\ Sender[serves[h]] \in Apps
    BY <1>2, Types DEF IInv, Core, Assigned, SendPayment
  <2>2. \A r \in Requests, j \in Slots : sends'[r][j] > 0 => sends[r][j] > 0 \/ r = serves[h]
    <3>1. sends' = [sends EXCEPT ![serves[h]][k] = sends[serves[h]][k] + 1]
      BY <1>2, <2>1 DEF SendPayment, SendsType
    <3>2. QED
      BY <2>1, <3>1 DEF SendsType
  <2>3. QED
    BY <2>1, <2>2 DEF RefusedIsUnpaid
<1>3. ASSUME NEW h \in Handlers, MainStep(h) \/ \E r \in Requests : Deliver(h, r)
      PROVE  UNCHANGED sends
  BY <1>3 DEF MainStep, Deliver, StoreRequest, FindApp, OpenRequest, FinishEvent, history
<1>4. ASSUME NEW h \in Handlers, NEW k \in Slots, SlotStep(h, k)
      PROVE  SendPayment(h, k) \/ UNCHANGED sends
  BY <1>4 DEF SlotStep, CheckPermission, AskNode, CreatePayment, AwaitPayment, SavePreimage,
     history
<1>5. ASSUME NEW h \in Handlers, NEW t \in Threads, ReplyStep(h, t)
      PROVE  UNCHANGED sends
  BY <1>5 DEF ReplyStep, CreateResponseRow, PublishReply, SaveResponseRow, SaveRequestState,
     history
<1>6. ASSUME NEW a \in Apps, ExpireApp(a) \/ RenewBudget(a) \/ \E g \in Grants : UpdateApp(a, g)
      PROVE  UNCHANGED sends
  BY <1>6 DEF ExpireApp, RenewBudget, UpdateApp, history
<1>7. ASSUME NEW r \in Requests, NEW k \in Slots, ResolvePayment(r, k)
      PROVE  UNCHANGED sends
  BY <1>7 DEF ResolvePayment, history
<1>8. Crash \/ UNCHANGED vars => UNCHANGED sends
  BY DEF Crash, vars, history
<1>9. QED
  BY <1>1, <1>2, <1>3, <1>4, <1>5, <1>6, <1>7, <1>8 DEF Next

\* No payment is sent for a request that is unreadable or that was not signed
\* by the key of an app.
THEOREM RefusedUnpaid == Spec => []RefusedIsUnpaid
<1>1. Init => RefusedIsUnpaid
  BY DEF Init, RefusedIsUnpaid
<1>2. QED
  BY <1>1, RefusedStep, Invariance, PTL DEF Spec

(***************************************************************************)
(* Final states                                                            *)
(***************************************************************************)
\* A thread that is about to save the request has a final state to save.
RecordReady ==
  \A h \in Handlers, t \in Threads : at[h][t] = "record" => state[h] \in {"executed", "error"}

LEMMA RecordGoto ==
  ASSUME TypeOK, RecordReady, NEW h \in Handlers, NEW t \in Threads, NEW s \in Steps,
         Goto(h, t, s), s # "record", state' = state
  PROVE  RecordReady'
<1>1. \A g \in Handlers, u \in Threads : at'[g][u] = IF g = h /\ u = t THEN s ELSE at[g][u]
  BY Types DEF Goto, AtType
<1>2. QED
  BY <1>1 DEF RecordReady

\* Once a final state is set it stays final, whichever thread sets it again.
LEMMA RecordSet ==
  ASSUME TypeOK, RecordReady, NEW h \in Handlers, NEW t \in Threads, NEW s \in Steps,
         NEW v \in {"executed", "error"},
         Goto(h, t, s), state' = [state EXCEPT ![h] = v]
  PROVE  RecordReady'
<1>1. \A g \in Handlers, u \in Threads : at'[g][u] = IF g = h /\ u = t THEN s ELSE at[g][u]
  BY Types DEF Goto, AtType
<1>2. \A g \in Handlers : state'[g] = IF g = h THEN v ELSE state[g]
  BY Types DEF StateType
<1>3. QED
  BY <1>1, <1>2 DEF RecordReady

LEMMA RecordMain ==
  ASSUME IInv, RecordReady, NEW h \in Handlers,
         MainStep(h) \/ \E r \in Requests : Deliver(h, r)
  PROVE  RecordReady'
<1> USE ThreadFacts
<1>1. TypeOK
  BY DEF IInv
<1>2. CASE /\ \E s \in {"store", "find", "open", "respond", "done"} : Goto(h, Main, s)
           /\ state' = state
  <2>1. \A s \in {"store", "find", "open", "respond", "done"} : s \in Steps /\ s # "record"
    BY DEF Steps, MainSteps, ReplySteps
  <2>2. QED
    BY <1>1, <1>2, <2>1, RecordGoto
<1>3. CASE OpenRequest(h)
  <2>1. CASE Goto(h, Main, "done") /\ state' = [state EXCEPT ![h] = "error"]
    BY <1>1, <2>1, RecordSet DEF Steps, ReplySteps
  <2>2. CASE serves[h] \notin Sealed
    <3>1. /\ state' = state
          /\ at' = [at EXCEPT ![h] =
                        [t \in Threads |-> IF t = Main THEN "serve"
                                           ELSE IF t \in DOMAIN Body[serves[h]] THEN "check"
                                           ELSE at[h][t]]]
      BY <1>1, <1>3, <2>2, Types DEF OpenRequest, AtType
    <3>2. \A g \in Handlers, u \in Threads : at'[g][u] = "record" => at[g][u] = "record"
      BY <1>1, <3>1, Types DEF AtType
    <3>3. QED
      BY <3>1, <3>2 DEF RecordReady
  <2>3. QED
    BY <1>3, <2>1, <2>2 DEF OpenRequest
<1>4. QED
  BY <1>2, <1>3 DEF MainStep, Deliver, StoreRequest, FindApp, FinishEvent, Answer

LEMMA RecordSlot ==
  ASSUME IInv, RecordReady, NEW h \in Handlers, NEW k \in Slots, SlotStep(h, k)
  PROVE  RecordReady'
<1> USE ThreadFacts
<1>1. TypeOK
  BY DEF IInv
<1>2. /\ state' = state
      /\ \E s \in {"query", "create", "send", "await", "save", "respond"} : Goto(h, k, s)
  BY DEF SlotStep, CheckPermission, AskNode, CreatePayment, SendPayment, AwaitPayment,
     SavePreimage, Answer
<1>3. \A s \in {"query", "create", "send", "await", "save", "respond"} :
        s \in Steps /\ s # "record"
  BY DEF Steps, SlotSteps, ReplySteps
<1>4. QED
  BY <1>1, <1>2, <1>3, RecordGoto

LEMMA RecordReply ==
  ASSUME IInv, RecordReady, NEW h \in Handlers, NEW t \in Threads, ReplyStep(h, t)
  PROVE  RecordReady'
<1>1. TypeOK
  BY DEF IInv
<1>2. \A s \in {"publish", "confirmed", "failed", "done"} : s \in Steps /\ s # "record"
  BY DEF Steps, ReplySteps
<1>3. CASE /\ \E s \in {"publish", "confirmed", "failed", "done"} : Goto(h, t, s)
           /\ state' = state
  BY <1>1, <1>2, <1>3, RecordGoto
<1>4. CASE /\ Goto(h, t, "record")
           /\ \E v \in {"executed", "error"} : state' = [state EXCEPT ![h] = v]
  BY <1>1, <1>4, RecordSet DEF Steps, ReplySteps
<1>5. ASSUME SaveResponseRow(h, t)
      PROVE  \/ Goto(h, t, "done") /\ state' = state
             \/ /\ Goto(h, t, "record")
                /\ \E v \in {"executed", "error"} : state' = [state EXCEPT ![h] = v]
  BY <1>5 DEF SaveResponseRow, StateAfter
<1>6. QED
  BY <1>3, <1>4, <1>5 DEF ReplyStep, CreateResponseRow, PublishReply, SaveRequestState

LEMMA RecordNext == IInv /\ RecordReady /\ [Next]_vars => RecordReady'
<1> SUFFICES ASSUME IInv, RecordReady, [Next]_vars PROVE RecordReady'
  OBVIOUS
<1>1. CASE UNCHANGED handlerVars
  BY <1>1 DEF RecordReady, handlerVars
<1>2. CASE Crash
  BY <1>2 DEF Crash, RecordReady, Active
<1>3. UNCHANGED vars => UNCHANGED handlerVars
  BY DEF vars
<1>4. ASSUME NEW a \in Apps, ExpireApp(a) \/ RenewBudget(a) \/ \E g \in Grants : UpdateApp(a, g)
      PROVE  UNCHANGED handlerVars
  BY <1>4 DEF ExpireApp, RenewBudget, UpdateApp
<1>5. ASSUME NEW r \in Requests, NEW k \in Slots, ResolvePayment(r, k)
      PROVE  UNCHANGED handlerVars
  BY <1>5 DEF ResolvePayment
<1>6. QED
  BY <1>1, <1>2, <1>3, <1>4, <1>5, RecordMain, RecordSlot, RecordReply DEF Next

FinalStays == \A r \in Requests : request[r] \in {"executed", "error"}
                                    => request'[r] \in {"executed", "error"}

LEMMA FinalStep == IInv /\ RecordReady /\ [Next]_vars => FinalStays
<1> SUFFICES ASSUME IInv, RecordReady, [Next]_vars PROVE FinalStays
  OBVIOUS
<1> USE ThreadFacts
<1>1. TypeOK
  BY DEF IInv
<1>2. CASE UNCHANGED request
  BY <1>2 DEF FinalStays
<1>3. ASSUME NEW q \in Requests, NEW v \in {"executed", "error"},
             request' = [request EXCEPT ![q] = v]
      PROVE  FinalStays
  BY <1>1, <1>3, Types DEF FinalStays, RequestType
<1>4. ASSUME NEW h \in Handlers, MainStep(h) PROVE FinalStays
  <2>1. CASE /\ request[serves[h]] = "absent"
             /\ request' = [request EXCEPT ![serves[h]] = "executing"]
    BY <1>1, <2>1, Types DEF FinalStays, RequestType
  <2>2. CASE request' = [request EXCEPT ![serves[h]] = "error"]
    BY <1>1, <2>2, Types DEF FinalStays, RequestType
  <2>3. QED
    BY <1>2, <1>4, <2>1, <2>2
       DEF MainStep, StoreRequest, FindApp, OpenRequest, FinishEvent, dbVars
<1>5. ASSUME NEW h \in Handlers, NEW k \in Slots, SlotStep(h, k) PROVE UNCHANGED request
  BY <1>5 DEF SlotStep, CheckPermission, AskNode, CreatePayment, SendPayment, AwaitPayment,
     SavePreimage, dbVars
<1>6. ASSUME NEW h \in Handlers, NEW t \in Threads, ReplyStep(h, t) PROVE FinalStays
  <2>1. CASE SaveRequestState(h, t)
    <3>1. state[h] \in {"executed", "error"}
      BY <2>1 DEF SaveRequestState, RecordReady
    <3>2. \A r \in Requests : request'[r] = request[r] \/ request'[r] = state[h]
      BY <1>1, <2>1, Types DEF SaveRequestState, RequestType
    <3>3. QED
      BY <3>1, <3>2 DEF FinalStays
  <2>2. CASE ~SaveRequestState(h, t)
    BY <1>2, <1>6, <2>2 DEF ReplyStep, CreateResponseRow, PublishReply, SaveResponseRow, dbVars
  <2>3. QED
    BY <2>1, <2>2
<1>7. ASSUME NEW h \in Handlers, NEW r \in Requests, Deliver(h, r) PROVE UNCHANGED request
  BY <1>7 DEF Deliver, dbVars
<1>8. ASSUME NEW a \in Apps, ExpireApp(a) \/ RenewBudget(a) \/ \E g \in Grants : UpdateApp(a, g)
      PROVE  UNCHANGED request
  BY <1>8 DEF ExpireApp, RenewBudget, UpdateApp
<1>9. ASSUME NEW r \in Requests, NEW k \in Slots, ResolvePayment(r, k)
      PROVE  UNCHANGED request
  BY <1>9 DEF ResolvePayment, dbVars
<1>10. Crash \/ UNCHANGED vars => UNCHANGED request
  BY DEF Crash, vars, dbVars
<1>11. QED
  BY <1>2, <1>4, <1>5, <1>6, <1>7, <1>8, <1>9, <1>10 DEF Next

\* A request that was executed or failed never becomes executing again, through
\* a later delivery or a slower thread of the same request.
THEOREM FinalState == Spec => StateIsFinal
<1>1. Init => RecordReady
  BY DEF Init, RecordReady
<1>2. IInv /\ RecordReady /\ [Next]_vars => [FinalStays]_request
  BY FinalStep
<1>3. QED
  BY <1>1, <1>2, RecordNext, Invariance, PTL DEF Spec, StateIsFinal, FinalStays

(***************************************************************************)
(* What a reply, a row and the state of a request say of each other        *)
(***************************************************************************)
\* A handler whose insert failed owns no event, and is past the insert.
Unsaved ==
  \A h \in Handlers, t \in Threads : verdict[h][t] = "save_failed" =>
    /\ t = Main
    /\ at[h][Main] \notin {"idle", "store", "find", "open", "serve"}
    /\ \A r \in Requests : h \notin owner[r]

\* HandleEvent itself answers an event it owns, or the failed insert; only the
\* former is recorded in the request.
MainAnswers ==
  \A h \in Handlers :
    at[h][Main] \in {"respond", "publish", "confirmed", "failed", "record"} =>
      \/ h \in owner[serves[h]]
      \/ verdict[h][Main] = "save_failed" /\ at[h][Main] # "record"

Tried == {"confirmed", "failed"}

\* A row with an outcome belongs to a thread that is past it, and a confirmed
\* reply is at the relay.
Recorded ==
  \A h \in Handlers, t \in Threads :
    /\ response[h][t] \in Tried => at[h][t] \in {"record", "done", "crashed"}
    /\ at[h][t] = "confirmed" \/ response[h][t] = "confirmed" =>
         <<serves[h], t, verdict[h][t]>> \in replies

ExecutedRecorded ==
  /\ \A h \in Handlers : state[h] = "executed" => \E t \in Threads : response[h][t] \in Tried
  /\ \A r \in Requests : request[r] = "executed" =>
       \E h \in owner[r], t \in Threads : response[h][t] \in Tried

Answering == Unsaved /\ MainAnswers /\ Recorded /\ ExecutedRecorded

\* A step of thread t of handler h that inserts no event.
LEMMA AnsweringMove ==
  ASSUME IInv, Answering, NEW h \in Handlers, NEW t \in Threads, NEW s, NEW v,
         Moves(h, t, s, v), UNCHANGED <<serves, owner>>, replies \subseteq replies',
         \A g \in Handlers, u \in Threads :
            g # h \/ u # t => response'[g][u] = response[g][u],
         response[h][t] \in Tried => response'[h][t] \in Tried,
         response'[h][t] \in Tried => s \in {"record", "done", "crashed"},
         s = "confirmed" \/ response'[h][t] = "confirmed" => <<serves[h], t, v>> \in replies',
         \A g \in Handlers : state'[g] = "executed" =>
            state[g] = "executed" \/ (g = h /\ response'[h][t] \in Tried),
         \A r \in Requests : request'[r] = "executed" =>
            request[r] = "executed" \/ (h \in owner[r] /\ state[h] = "executed"),
         v = "save_failed" =>
            /\ t = Main /\ s \notin {"idle", "store", "find", "open", "serve"}
            /\ \A r \in Requests : h \notin owner[r],
         t = Main /\ s \in {"respond", "publish", "confirmed", "failed", "record"} =>
            h \in owner[serves[h]] \/ (v = "save_failed" /\ s # "record")
  PROVE  Answering'
<1> USE ThreadFacts
<1>1. /\ \A g \in Handlers, u \in Threads : at'[g][u] = IF g = h /\ u = t THEN s ELSE at[g][u]
      /\ \A g \in Handlers, u \in Threads :
           verdict'[g][u] = IF g = h /\ u = t THEN v ELSE verdict[g][u]
  BY DEF Moves, Updated
<1>2. \A r \in Requests : \A g \in owner[r] : g \in Handlers
  BY Types DEF IInv, OwnerType
<1>3. Unsaved'
  BY <1>1 DEF Answering, Unsaved, Threads
<1>4. MainAnswers'
  BY <1>1 DEF Answering, MainAnswers
<1>5. Recorded'
  BY <1>1 DEF Answering, Recorded
<1>6. \A g \in Handlers, u \in Threads : response[g][u] \in Tried => response'[g][u] \in Tried
  OBVIOUS
<1>7. ExecutedRecorded'
  BY <1>2, <1>6 DEF Answering, ExecutedRecorded
<1>8. QED
  BY <1>3, <1>4, <1>5, <1>7 DEF Answering

\* A step that leaves rows, states and replies alone.
LEMMA AnsweringQuiet ==
  ASSUME IInv, Answering, NEW h \in Handlers, NEW t \in Threads, NEW s, NEW v,
         Moves(h, t, s, v), UNCHANGED <<request, response, state, replies, serves, owner>>,
         at[h][t] \notin {"confirmed", "record", "done", "crashed"}, s # "confirmed",
         v = "save_failed" =>
            /\ t = Main /\ s \notin {"idle", "store", "find", "open", "serve"}
            /\ \A r \in Requests : h \notin owner[r],
         t = Main /\ s \in {"respond", "publish", "failed", "record"} =>
            h \in owner[serves[h]] \/ (v = "save_failed" /\ s # "record")
  PROVE  Answering'
<1>1. response[h][t] \notin Tried
  BY DEF Answering, Recorded
<1>2. QED
  BY <1>1, AnsweringMove DEF Tried

\* The steps of a payment before its response.
LEMMA AnsweringSlot ==
  ASSUME IInv, Answering, NEW h \in Handlers, NEW k \in Slots, SlotStep(h, k)
  PROVE  Answering'
<1> USE ThreadFacts
<1>1. /\ TypeOK /\ at[h][k] \in {"check", "query", "create", "send", "await", "save"}
      /\ verdict[h][k] # "save_failed" /\ k # Main
  BY DEF IInv, SlotStep, CheckPermission, AskNode, CreatePayment, SendPayment, AwaitPayment,
         SavePreimage, Answering, Unsaved
<1>2. UNCHANGED <<request, response, state, replies, serves, owner>>
  BY DEF SlotStep, CheckPermission, AskNode, CreatePayment, SendPayment, AwaitPayment,
         SavePreimage, dbVars, outsideVars, history
<1>3. CASE /\ \E s \in {"query", "create", "send", "await", "save"} : Goto(h, k, s)
           /\ verdict' = verdict
  <2>1. PICK s \in {"query", "create", "send", "await", "save"} : Goto(h, k, s)
    BY <1>3
  <2>2. s \in Steps
    BY DEF Steps, SlotSteps
  <2>3. Moves(h, k, s, verdict[h][k])
    BY <1>1, <1>3, <2>1, <2>2, GotoMoves, Types
  <2>4. QED
    BY <1>1, <1>2, <2>3, AnsweringQuiet
<1>4. CASE \E v \in {"success", "error"} : Answer(h, k, v)
  <2>1. PICK v \in {"success", "error"} : Answer(h, k, v)
    BY <1>4
  <2>2. Moves(h, k, "respond", v)
    BY <1>1, <2>1, AnswerMoves, Types DEF Outcomes
  <2>3. QED
    BY <1>1, <1>2, <2>2, AnsweringQuiet
<1>5. QED
  BY <1>3, <1>4 DEF SlotStep, CheckPermission, AskNode, CreatePayment, SendPayment,
     AwaitPayment, SavePreimage

\* The insert of the response's row.
LEMMA AnsweringCreateRow ==
  ASSUME IInv, Answering, NEW h \in Handlers, NEW t \in Threads, CreateResponseRow(h, t)
  PROVE  Answering'
<1> USE ThreadFacts
<1> DEFINE v == verdict[h][t]
<1>1. /\ TypeOK /\ at[h][t] = "respond" /\ response[h][t] \notin Tried
      /\ UNCHANGED <<request, serves, owner, verdict, replies>>
  BY DEF IInv, CreateResponseRow, Answering, Recorded, outsideVars, history
<1>2. PICK s \in {"publish", "done", "record"} :
        /\ Goto(h, t, s)
        /\ \/ s = "publish" /\ response' = [response EXCEPT ![h][t] = "received"] /\ state' = state
           \/ s = "done" /\ v = "save_failed" /\ response' = response /\ state' = state
           \/ /\ s = "record" /\ v # "save_failed" /\ response' = response
              /\ state' = [state EXCEPT ![h] = "error"]
  BY DEF CreateResponseRow
<1>3. Moves(h, t, s, v)
  BY <1>1, <1>2, GotoMoves, Types DEF Steps, ReplySteps
<1>4. /\ \A g \in Handlers, u \in Threads :
           g # h \/ u # t => response'[g][u] = response[g][u]
      /\ response'[h][t] \notin Tried
  BY <1>1, <1>2, Types DEF ResponseType, Tried
<1>5. \A g \in Handlers : state'[g] = "executed" => state[g] = "executed"
  BY <1>1, <1>2, Types DEF StateType
<1>6. /\ v = "save_failed" => t = Main /\ \A r \in Requests : h \notin owner[r]
      /\ t = Main => h \in owner[serves[h]] \/ v = "save_failed"
  BY <1>1 DEF Answering, Unsaved, MainAnswers
<1>7. QED
  BY <1>1, <1>2, <1>3, <1>4, <1>5, <1>6, AnsweringMove DEF Tried

\* Publish: confirmed only with a reply that is out.
LEMMA AnsweringPublish ==
  ASSUME IInv, Answering, NEW h \in Handlers, NEW t \in Threads, PublishReply(h, t)
  PROVE  Answering'
<1> USE ThreadFacts
<1> DEFINE v == verdict[h][t]
<1>1. /\ TypeOK /\ at[h][t] = "publish" /\ response[h][t] \notin Tried
      /\ UNCHANGED <<request, response, state, serves, owner, verdict>>
  BY DEF IInv, PublishReply, Answering, Recorded, dbVars, history
<1>2. PICK s \in {"confirmed", "failed"} :
        /\ Goto(h, t, s) /\ replies \subseteq replies'
        /\ s = "confirmed" => <<serves[h], t, v>> \in replies'
  BY DEF PublishReply
<1>3. Moves(h, t, s, v)
  BY <1>1, <1>2, GotoMoves, Types DEF Steps, ReplySteps
<1>4. /\ v = "save_failed" => t = Main /\ \A r \in Requests : h \notin owner[r]
      /\ t = Main => h \in owner[serves[h]] \/ v = "save_failed"
  BY <1>1 DEF Answering, Unsaved, MainAnswers
<1>5. QED
  BY <1>1, <1>2, <1>3, <1>4, AnsweringMove DEF Tried

\* The row of the response after Publish, and the state it gives the request.
LEMMA AnsweringSaveRow ==
  ASSUME IInv, Answering, NEW h \in Handlers, NEW t \in Threads, SaveResponseRow(h, t)
  PROVE  Answering'
<1> USE ThreadFacts
<1> DEFINE v == verdict[h][t]
<1>1. /\ TypeOK /\ at[h][t] \in Tried /\ response[h][t] \notin Tried
      /\ UNCHANGED <<request, serves, owner, verdict, replies>>
      /\ at[h][t] = "confirmed" => <<serves[h], t, v>> \in replies
  BY DEF IInv, SaveResponseRow, Answering, Recorded, outsideVars, history, Tried
<1>2. PICK saved \in BOOLEAN :
        /\ response' = IF saved THEN [response EXCEPT ![h][t] = at[h][t]] ELSE response
        /\ IF v = "save_failed"
             THEN Goto(h, t, "done") /\ UNCHANGED state
             ELSE /\ state' = [state EXCEPT ![h] = StateAfter(h, t, saved)]
                  /\ Goto(h, t, "record")
  BY ConstantsAssumption DEF SaveResponseRow
<1>3. PICK s \in {"done", "record"} : Goto(h, t, s) /\ (s = "record" => v # "save_failed")
  BY <1>2
<1>4. Moves(h, t, s, v)
  BY <1>1, <1>3, GotoMoves, Types DEF Steps, ReplySteps
<1>5. /\ \A g \in Handlers, u \in Threads :
           g # h \/ u # t => response'[g][u] = response[g][u]
      /\ response'[h][t] = IF saved THEN at[h][t] ELSE response[h][t]
  BY <1>1, <1>2, Types DEF ResponseType
<1>6. \A g \in Handlers : state'[g] = "executed" => state[g] = "executed" \/ (g = h /\ saved)
  BY <1>1, <1>2, Types DEF StateType, StateAfter
<1>7. /\ v = "save_failed" => t = Main /\ \A r \in Requests : h \notin owner[r]
      /\ t = Main => h \in owner[serves[h]] \/ v = "save_failed"
  BY <1>1 DEF Answering, Unsaved, MainAnswers, Tried
<1>8. QED
  BY <1>1, <1>3, <1>4, <1>5, <1>6, <1>7, AnsweringMove DEF Tried

\* Saving requestEvent.State.
LEMMA AnsweringSaveState ==
  ASSUME IInv, Answering, NEW h \in Handlers, NEW t \in Threads, SaveRequestState(h, t)
  PROVE  Answering'
<1> USE ThreadFacts
<1> DEFINE v == verdict[h][t]
<1>1. /\ TypeOK /\ at[h][t] = "record"
      /\ UNCHANGED <<response, state, serves, owner, verdict, replies>>
      /\ h \in owner[serves[h]] /\ serves[h] \in Requests
  BY DEF IInv, Core, Assigned, OneOwner, SaveRequestState, Answering, MainAnswers, outsideVars,
         history, Threads
<1>2. Moves(h, t, "done", v)
  BY <1>1, GotoMoves, Types DEF SaveRequestState, Steps, ReplySteps
<1>3. \A r \in Requests : request'[r] = "executed" =>
        request[r] = "executed" \/ (r = serves[h] /\ state[h] = "executed")
  BY <1>1, Types DEF SaveRequestState, RequestType
<1>4. v # "save_failed"
  BY <1>1 DEF Answering, Unsaved
<1>5. response[h][t] = "confirmed" => <<serves[h], t, v>> \in replies
  BY DEF Answering, Recorded
<1>6. QED
  BY <1>1, <1>2, <1>3, <1>4, <1>5, AnsweringMove

\* A delivery begins with nothing saved.
LEMMA AnsweringDeliver ==
  ASSUME IInv, Answering, NEW h \in Handlers, NEW r \in Requests, Deliver(h, r)
  PROVE  Answering'
<1> USE ThreadFacts
<1>1. /\ TypeOK /\ at[h][Main] = "idle" /\ Goto(h, Main, "store")
      /\ serves' = [serves EXCEPT ![h] = r]
      /\ UNCHANGED <<request, response, verdict, state, replies, owner>>
  BY DEF IInv, Deliver, dbVars, outsideVars, history
<1>2. Moves(h, Main, "store", verdict[h][Main])
  BY <1>1, GotoMoves, Types DEF Steps, MainSteps
<1>3. /\ \A g \in Handlers, u \in Threads :
           at'[g][u] = IF g = h /\ u = Main THEN "store" ELSE at[g][u]
      /\ \A g \in Handlers : g # h => serves'[g] = serves[g]
      /\ \A u \in Threads : at[h][u] = "idle"
      /\ \A u \in Threads : verdict[h][u] # "save_failed"
  BY <1>1, <1>2, Types
     DEF Moves, Updated, ServesType, IInv, Core, Assigned, Threads, Answering, Unsaved
<1>4. Unsaved'
  BY <1>1, <1>3 DEF Answering, Unsaved
<1>5. MainAnswers'
  BY <1>1, <1>3 DEF Answering, MainAnswers
<1>6. Recorded'
  <2>1. ASSUME NEW u \in Threads
        PROVE  response[h][u] \notin Tried /\ at'[h][u] \in {"idle", "store"}
    BY <1>3 DEF Answering, Recorded
  <2>2. ASSUME NEW g \in Handlers, g # h, NEW u \in Threads
        PROVE  at'[g][u] = at[g][u] /\ serves'[g] = serves[g]
    BY <1>3, <2>2
  <2>3. QED
    BY <1>1, <2>1, <2>2 DEF Answering, Recorded, Tried
<1>7. ExecutedRecorded'
  BY <1>1 DEF Answering, ExecutedRecorded
<1>8. QED
  BY <1>4, <1>5, <1>6, <1>7 DEF Answering

\* The insert of the event makes an owner that has answered nothing.
LEMMA AnsweringStore ==
  ASSUME IInv, Answering, NEW h \in Handlers, StoreRequest(h)
  PROVE  Answering'
<1> USE ThreadFacts
<1> DEFINE r == serves[h]
<1>1. /\ TypeOK /\ at[h][Main] = "store" /\ r \in Requests
      /\ UNCHANGED <<response, serves, state, replies>>
      /\ \A q \in Requests : h \notin owner[q]
      /\ \A u \in Threads : verdict[h][u] # "save_failed"
  BY DEF IInv, Core, Assigned, OneOwner, StoreRequest, outsideVars, Answering, Unsaved
<1>2. CASE /\ request[r] = "absent" /\ request' = [request EXCEPT ![r] = "executing"]
           /\ owner' = [owner EXCEPT ![r] = @ \cup {h}]
           /\ Goto(h, Main, "find") /\ verdict' = verdict
  <2>1. Moves(h, Main, "find", verdict[h][Main])
    BY <1>1, <1>2, GotoMoves, Types DEF Steps, MainSteps
  <2>2. /\ \A g \in Handlers, u \in Threads :
             at'[g][u] = IF g = h /\ u = Main THEN "find" ELSE at[g][u]
    BY <2>1 DEF Moves, Updated
  <2>3. \A q \in Requests : owner'[q] = IF q = r THEN owner[q] \cup {h} ELSE owner[q]
    BY <1>1, <1>2, Types DEF OwnerType
  <2>4. \A q \in Requests : request'[q] = "executed" => request[q] = "executed"
    BY <1>1, <1>2, Types DEF RequestType
  <2>5. Unsaved'
    BY <1>1, <1>2, <2>2, <2>3 DEF Answering, Unsaved
  <2>6. MainAnswers'
    <3>1. \A g \in Handlers : g \in owner[serves[g]] /\ at[g][Main] \notin {"idle", "store"}
                              => g \in owner'[serves[g]]
      BY <1>1, <2>3 DEF IInv, Core, Assigned
    <3>2. QED
      BY <1>1, <1>2, <2>2, <3>1 DEF Answering, MainAnswers
  <2>7. Recorded'
    BY <1>1, <1>2, <2>2 DEF Answering, Recorded, Tried
  <2>8. ExecutedRecorded'
    BY <1>1, <2>3, <2>4 DEF Answering, ExecutedRecorded
  <2>9. QED
    BY <2>5, <2>6, <2>7, <2>8 DEF Answering
<1>3. CASE Answer(h, Main, "save_failed") /\ UNCHANGED <<request, owner>>
  <2>1. Moves(h, Main, "respond", "save_failed")
    BY <1>1, <1>3, AnswerMoves, Types DEF Outcomes
  <2>2. QED
    BY <1>1, <1>3, <2>1, AnsweringQuiet
<1>4. QED
  BY <1>2, <1>3 DEF StoreRequest

\* Reading the event.
LEMMA AnsweringOpen ==
  ASSUME IInv, Answering, NEW h \in Handlers, OpenRequest(h)
  PROVE  Answering'
<1> USE ThreadFacts
<1> DEFINE r == serves[h]
<1>1. /\ TypeOK /\ at[h][Main] = "open"
      /\ UNCHANGED <<response, serves, verdict, replies, owner>>
      /\ verdict[h][Main] # "save_failed" /\ response[h][Main] \notin Tried
      /\ \A j \in Slots : at[h][j] = "idle"
  BY DEF IInv, Core, Assigned, OpenRequest, outsideVars, history, Answering, Unsaved, Recorded
<1>2. CASE /\ r \in Sealed /\ state' = [state EXCEPT ![h] = "error"]
           /\ request' = [request EXCEPT ![r] = "error"] \/ request' = request
           /\ Goto(h, Main, "done")
  <2>1. Moves(h, Main, "done", verdict[h][Main])
    BY <1>1, <1>2, GotoMoves, Types DEF Steps, ReplySteps
  <2>2. \A g \in Handlers : state'[g] = "executed" => state[g] = "executed"
    BY <1>1, <1>2, Types DEF StateType
  <2>3. \A q \in Requests : request'[q] = "executed" => request[q] = "executed"
    BY <1>1, <1>2, Types DEF RequestType
  <2>4. QED
    BY <1>1, <2>1, <2>2, <2>3, AnsweringMove DEF Tried
<1>3. CASE r \notin Sealed
  <2>1. /\ request' = request /\ state' = state
        /\ at' = [at EXCEPT ![h] =
                        [t \in Threads |-> IF t = Main THEN "serve"
                                           ELSE IF t \in DOMAIN Body[r] THEN "check"
                                           ELSE at[h][t]]]
    BY <1>1, <1>3, Types DEF OpenRequest, AtType
  <2>2. /\ \A g \in Handlers, u \in Threads : g # h => at'[g][u] = at[g][u]
        /\ at'[h][Main] = "serve"
        /\ \A u \in Threads : at[h][u] \in {"idle", "open"} /\ at'[h][u] \in {"serve", "check", "idle"}
    BY <1>1, <2>1, Types DEF AtType, Threads
  <2>3. Unsaved'
    BY <1>1, <2>1, <2>2 DEF Answering, Unsaved
  <2>4. MainAnswers'
    BY <1>1, <2>1, <2>2 DEF Answering, MainAnswers
  <2>5. Recorded'
    BY <1>1, <2>1, <2>2 DEF Answering, Recorded, Tried
  <2>6. ExecutedRecorded'
    BY <1>1, <2>1 DEF Answering, ExecutedRecorded
  <2>7. QED
    BY <2>3, <2>4, <2>5, <2>6 DEF Answering
<1>4. QED
  BY <1>2, <1>3 DEF OpenRequest

\* The steps of HandleEvent up to the methods, and its end.
LEMMA AnsweringMain ==
  ASSUME IInv, Answering, NEW h \in Handlers, MainStep(h)
  PROVE  Answering'
<1> USE ThreadFacts
<1>1. TypeOK
  BY DEF IInv
<1>2. CASE FindApp(h)
  <2>1. /\ at[h][Main] = "find" /\ h \in owner[serves[h]] /\ verdict[h][Main] # "save_failed"
        /\ UNCHANGED <<request, response, state, replies, serves, owner>>
    BY <1>2 DEF FindApp, IInv, Core, OneOwner, dbVars, outsideVars, history, Answering, Unsaved
  <2>2. CASE Goto(h, Main, "open") /\ verdict' = verdict
    <3>1. Moves(h, Main, "open", verdict[h][Main])
      BY <1>1, <2>2, GotoMoves, Types DEF Steps, MainSteps
    <3>2. QED
      BY <2>1, <3>1, AnsweringQuiet
  <2>3. CASE Answer(h, Main, "unauthorized")
    <3>1. Moves(h, Main, "respond", "unauthorized")
      BY <1>1, <2>3, AnswerMoves, Types DEF Outcomes
    <3>2. QED
      BY <2>1, <3>1, AnsweringQuiet
  <2>4. QED
    BY <1>2, <2>2, <2>3 DEF FindApp
<1>3. CASE FinishEvent(h)
  <2>1. /\ at[h][Main] = "serve" /\ verdict[h][Main] # "save_failed"
        /\ Goto(h, Main, "done") /\ verdict' = verdict
        /\ UNCHANGED <<request, response, state, replies, serves, owner>>
    BY <1>3 DEF FinishEvent, dbVars, outsideVars, history, Answering, Unsaved
  <2>2. Moves(h, Main, "done", verdict[h][Main])
    BY <1>1, <2>1, GotoMoves, Types DEF Steps, ReplySteps
  <2>3. QED
    BY <2>1, <2>2, AnsweringQuiet
<1>4. QED
  BY <1>2, <1>3, AnsweringStore, AnsweringOpen DEF MainStep

\* A crash keeps the rows and the replies.
LEMMA AnsweringCrash ==
  ASSUME IInv, Answering, Crash
  PROVE  Answering'
<1> USE ThreadFacts
<1>1. UNCHANGED <<request, response, state, replies, serves, owner, verdict>>
  BY DEF Crash, dbVars, outsideVars, history
<1>2. \A g \in Handlers, u \in Threads :
        /\ at'[g][u] \in {"idle", "done", "crashed"}
        /\ at'[g][u] = "idle" => at[g][u] = "idle"
  BY DEF Crash, Active
<1>3. Unsaved'
  BY <1>1, <1>2 DEF Answering, Unsaved
<1>4. MainAnswers'
  BY <1>2 DEF MainAnswers
<1>5. Recorded'
  BY <1>1, <1>2 DEF Answering, Recorded, Tried
<1>6. ExecutedRecorded'
  BY <1>1 DEF Answering, ExecutedRecorded
<1>7. QED
  BY <1>3, <1>4, <1>5, <1>6 DEF Answering

\* Answering is inductive, next to IInv.
LEMMA AnsweringNext == IInv /\ Answering /\ [Next]_vars => Answering'
<1> SUFFICES ASSUME IInv, Answering, [Next]_vars PROVE Answering'
  OBVIOUS
<1>1. CASE UNCHANGED <<request, response, at, state, replies, serves, owner, verdict>>
  BY <1>1 DEF Answering, Unsaved, MainAnswers, Recorded, ExecutedRecorded
<1>2. UNCHANGED vars
        => UNCHANGED <<request, response, at, state, replies, serves, owner, verdict>>
  BY DEF vars, dbVars, handlerVars, outsideVars, history
<1>3. ASSUME NEW a \in Apps, ExpireApp(a) \/ RenewBudget(a) \/ \E g \in Grants : UpdateApp(a, g)
      PROVE  UNCHANGED <<request, response, at, state, replies, serves, owner, verdict>>
  BY <1>3 DEF ExpireApp, RenewBudget, UpdateApp, handlerVars, outsideVars, history
<1>4. ASSUME NEW r \in Requests, NEW k \in Slots, ResolvePayment(r, k)
      PROVE  UNCHANGED <<request, response, at, state, replies, serves, owner, verdict>>
  BY <1>4 DEF ResolvePayment, dbVars, handlerVars, history
<1>5. ASSUME NEW h \in Handlers, NEW t \in Threads, ReplyStep(h, t) PROVE Answering'
  BY <1>5, AnsweringCreateRow, AnsweringPublish, AnsweringSaveRow, AnsweringSaveState
     DEF ReplyStep
<1>6. QED
  BY <1>1, <1>2, <1>3, <1>4, <1>5, AnsweringMain, AnsweringDeliver, AnsweringSlot,
     AnsweringCrash DEF Next

\* Answering holds of every state, whatever fails.
LEMMA AnsweringInv == Spec => []Answering
<1>1. ASSUME Init PROVE Answering
  <2> USE <1>1, ThreadFacts
  <2>1. Unsaved /\ MainAnswers
    BY DEF Init, Unsaved, MainAnswers
  <2>2. Recorded /\ ExecutedRecorded
    BY DEF Init, Recorded, ExecutedRecorded, Tried
  <2>3. QED
    BY <2>1, <2>2 DEF Answering
<1>2. QED
  BY <1>1, AnsweringNext, Invariance, PTL DEF Spec

\* A request that is marked executed has a thread whose reply was recorded and
\* tried, and a reply recorded as confirmed is at the relay with the verdict of
\* its thread, whatever the database, the node and the process do meanwhile.
THEOREM ExecutedAnswered == Spec => []ExecutedMeansAnswered
<1>1. Answering => ExecutedMeansAnswered
  BY DEF Answering, Recorded, ExecutedRecorded, ExecutedMeansAnswered, Tried
<1>2. QED
  BY <1>1, AnsweringInv, PTL

(***************************************************************************)
(* No request is left executing by a handler that ran to its end           *)
(***************************************************************************)
Final == {"executed", "error"}

\* A thread of the owner that ended left a final state, unless it is that of
\* HandleEvent and the list was empty.
Served ==
  \A r \in Requests : \A h \in owner[r] :
    /\ \A k \in Slots : at[h][k] = "done" => request[r] \in Final
    /\ at[h][Main] = "done" => request[r] \in Final \/ DOMAIN Body[r] = {}

\* A step that ends no thread but perhaps t of h, and that one after a final state.
LEMMA ServedMove ==
  ASSUME IInv, Served, NEW h \in Handlers, NEW t \in Threads, NEW s,
         \A g \in Handlers, u \in Threads :
            at'[g][u] = "done" => at[g][u] = "done" \/ (g = h /\ u = t /\ s = "done"),
         UNCHANGED owner, FinalStays,
         s = "done" => \A r \in Requests : h \in owner[r] =>
            request'[r] \in Final \/ (t = Main /\ DOMAIN Body[r] = {})
  PROVE  Served'
<1> USE ThreadFacts
<1>1. \A r \in Requests : \A g \in owner[r] : g \in Handlers
  BY Types DEF IInv, OwnerType
<1>2. \A r \in Requests : request[r] \in Final => request'[r] \in Final
  BY DEF FinalStays, Final
<1>3. SUFFICES ASSUME NEW r \in Requests, NEW g \in owner[r]
               PROVE  /\ \A k \in Slots : at'[g][k] = "done" => request'[r] \in Final
                      /\ at'[g][Main] = "done" => request'[r] \in Final \/ DOMAIN Body[r] = {}
  BY DEF Served
<1>4. \A k \in Slots : at'[g][k] = "done" => request'[r] \in Final
  BY <1>1, <1>2 DEF Served
<1>5. at'[g][Main] = "done" => request'[r] \in Final \/ DOMAIN Body[r] = {}
  BY <1>1, <1>2 DEF Served
<1>6. QED
  BY <1>4, <1>5

\* Where a thread goes that takes one step.
LEMMA GotoDone ==
  ASSUME TypeOK, NEW h \in Handlers, NEW t \in Threads, NEW s \in Steps, Goto(h, t, s)
  PROVE  \A g \in Handlers, u \in Threads :
            at'[g][u] = "done" => at[g][u] = "done" \/ (g = h /\ u = t /\ s = "done")
  BY Types DEF Goto, AtType

\* The steps of HandleEvent up to the methods, and its end.
LEMMA ServedMain ==
  ASSUME IInv, Served, FinalStays, ~DbFaults, NEW h \in Handlers,
         MainStep(h) \/ \E r \in Requests : Deliver(h, r)
  PROVE  Served'
<1> USE ThreadFacts
<1> DEFINE r == serves[h]
<1>1. TypeOK /\ \A q \in Requests : h \in owner[q] => q = r
  BY DEF IInv, Core, OneOwner
<1>2. CASE /\ \E s \in {"store", "find", "open", "respond"} : Goto(h, Main, s)
           /\ owner' = owner
  <2>1. PICK s \in {"store", "find", "open", "respond"} : Goto(h, Main, s)
    BY <1>2
  <2>2. s \in Steps /\ s # "done"
    BY DEF Steps, MainSteps, ReplySteps
  <2>3. QED
    BY <1>1, <1>2, <2>1, <2>2, GotoDone, ServedMove
<1>3. CASE StoreRequest(h) /\ owner' # owner
  <2>1. /\ r \in Requests /\ request[r] = "absent" /\ owner[r] = {}
        /\ owner' = [owner EXCEPT ![r] = @ \cup {h}] /\ Goto(h, Main, "find")
        /\ \A j \in Slots : at[h][j] = "idle"
    BY <1>3 DEF StoreRequest, IInv, Core, Assigned, OneOwner
  <2>2. \A q \in Requests : \A g \in owner'[q] :
           \/ g \in owner[q] /\ g \in Handlers
           \/ g = h /\ \A u \in Threads : at'[g][u] # "done"
    <3>1. \A u \in Threads : at'[h][u] # "done"
      BY <1>1, <2>1, Types DEF Goto, AtType, Threads
    <3>2. \A q \in Requests : \A g \in owner'[q] : (g \in owner[q] /\ g \in Handlers) \/ g = h
      BY <1>1, <2>1, Types DEF OwnerType
    <3>3. QED
      BY <3>1, <3>2
  <2>3. \A g \in Handlers, u \in Threads : at'[g][u] = "done" => at[g][u] = "done"
    BY <1>1, <2>1, GotoDone DEF Steps, MainSteps
  <2>4. \A q \in Requests : request[q] \in Final => request'[q] \in Final
    BY DEF FinalStays, Final
  <2>5. QED
    BY <2>2, <2>3, <2>4 DEF Served
<1>4. CASE OpenRequest(h)
  <2>1. r \in Requests /\ at \in AtType /\ owner' = owner
    BY <1>1, <1>4, Types DEF OpenRequest, IInv, Core, Assigned, history
  <2>2. CASE r \in Sealed
    <3>1. request' = [request EXCEPT ![r] = "error"] /\ Goto(h, Main, "done")
      BY <1>4, <2>2 DEF OpenRequest
    <3>2. request'[r] \in Final
      BY <1>1, <2>1, <3>1, Types DEF RequestType, Final
    <3>3. QED
      BY <1>1, <2>1, <3>1, <3>2, GotoDone, ServedMove DEF Steps, ReplySteps
  <2>3. CASE r \notin Sealed
    <3>1. at' = [at EXCEPT ![h] =
                   [t \in Threads |-> IF t = Main THEN "serve"
                                      ELSE IF t \in DOMAIN Body[r] THEN "check"
                                      ELSE at[h][t]]]
      BY <1>4, <2>1, <2>3 DEF OpenRequest, AtType
    <3>2. \A g \in Handlers, u \in Threads : at'[g][u] = "done" => at[g][u] = "done"
      BY <2>1, <3>1 DEF AtType
    <3>3. QED
      BY <2>1, <3>2, ServedMove
  <2>4. QED
    BY <2>2, <2>3
<1>5. CASE FinishEvent(h)
  <2>1. /\ Goto(h, Main, "done") /\ owner' = owner /\ request' = request
        /\ r \in Requests /\ h \in owner[r]
        /\ \A k \in DOMAIN Body[r] : k \in Slots /\ at[h][k] = "done"
    BY <1>5, ConstantsAssumption
       DEF FinishEvent, dbVars, history, IInv, Core, Assigned, OneOwner
  <2>2. request'[r] \in Final \/ DOMAIN Body[r] = {}
    BY <2>1 DEF Served
  <2>3. QED
    BY <1>1, <2>1, <2>2, GotoDone, ServedMove DEF Steps, ReplySteps
<1>6. QED
  BY <1>2, <1>3, <1>4, <1>5 DEF MainStep, Deliver, StoreRequest, FindApp, Answer, history

\* The steps of publishResponse and of saving the state.
LEMMA ServedReply ==
  ASSUME IInv, Served, RecordReady, Answering, FinalStays, ~DbFaults,
         NEW h \in Handlers, NEW t \in Threads, ReplyStep(h, t)
  PROVE  Served'
<1>1. TypeOK /\ owner' = owner
  BY DEF IInv, ReplyStep, CreateResponseRow, PublishReply, SaveResponseRow, SaveRequestState,
         history
<1>2. CASE \E s \in {"publish", "confirmed", "failed", "record"} : Goto(h, t, s)
  <2>1. PICK s \in {"publish", "confirmed", "failed", "record"} : Goto(h, t, s)
    BY <1>2
  <2>2. s \in Steps /\ s # "done"
    BY DEF Steps, ReplySteps
  <2>3. \A g \in Handlers, u \in Threads : at'[g][u] = "done" => at[g][u] = "done"
    BY <1>1, <2>1, <2>2, GotoDone
  <2>4. QED
    BY <1>1, <2>2, <2>3, ServedMove
<1>3. CASE Goto(h, t, "done") /\ verdict[h][t] = "save_failed"
  <2>1. \A q \in Requests : h \notin owner[q]
    BY <1>3 DEF Answering, Unsaved
  <2>2. QED
    BY <1>1, <1>3, <2>1, GotoDone, ServedMove DEF Steps, ReplySteps
<1>4. CASE SaveRequestState(h, t)
  <2>1. /\ Goto(h, t, "done") /\ state[h] \in Final
        /\ request' = [request EXCEPT ![serves[h]] = state[h]]
    BY <1>4 DEF SaveRequestState, RecordReady, Final
  <2>2. \A q \in Requests : h \in owner[q] => serves[h] = q
    BY DEF IInv, Core, OneOwner
  <2>3. \A q \in Requests : h \in owner[q] => request'[q] \in Final
    BY <1>1, <2>1, <2>2, Types DEF RequestType
  <2>4. QED
    BY <1>1, <2>1, <2>3, GotoDone, ServedMove DEF Steps, ReplySteps
<1>5. QED
  BY <1>2, <1>3, <1>4 DEF ReplyStep, CreateResponseRow, PublishReply, SaveResponseRow

\* Served is inductive when statements do not fail.
LEMMA ServedNext ==
  ~DbFaults => (IInv /\ RecordReady /\ Answering /\ Served /\ [Next]_vars => Served')
<1> SUFFICES ASSUME ~DbFaults, IInv, RecordReady, Answering, Served, [Next]_vars PROVE Served'
  OBVIOUS
<1> USE ThreadFacts
<1>1. TypeOK /\ FinalStays
  BY FinalStep DEF IInv
<1>2. CASE UNCHANGED <<at, owner, request>>
  BY <1>2 DEF Served
<1>3. UNCHANGED vars => UNCHANGED <<at, owner, request>>
  BY DEF vars, dbVars, handlerVars, history
<1>4. ASSUME NEW a \in Apps, ExpireApp(a) \/ RenewBudget(a) \/ \E g \in Grants : UpdateApp(a, g)
      PROVE  UNCHANGED <<at, owner, request>>
  BY <1>4 DEF ExpireApp, RenewBudget, UpdateApp, handlerVars, history
<1>5. ASSUME NEW r \in Requests, NEW k \in Slots, ResolvePayment(r, k)
      PROVE  UNCHANGED <<at, owner, request>>
  BY <1>5 DEF ResolvePayment, dbVars, handlerVars, history
<1>6. ASSUME NEW h \in Handlers, NEW k \in Slots, SlotStep(h, k) PROVE Served'
  <2>1. PICK s \in {"query", "create", "send", "await", "save", "respond"} : Goto(h, k, s)
    BY <1>6 DEF SlotStep, CheckPermission, AskNode, CreatePayment, SendPayment, AwaitPayment,
       SavePreimage, Answer
  <2>2. s \in Steps /\ s # "done"
    BY DEF Steps, SlotSteps, ReplySteps
  <2>3. owner' = owner
    BY <1>6 DEF SlotStep, CheckPermission, AskNode, CreatePayment, SendPayment, AwaitPayment,
       SavePreimage, history
  <2>4. QED
    BY <1>1, <2>1, <2>2, <2>3, GotoDone, ServedMove
<1>7. CASE Crash
  <2>1. UNCHANGED <<owner, request>>
    BY <1>7 DEF Crash, dbVars, history
  <2>2. \A r \in Requests : \A g \in owner[r] : g \in Handlers
    BY <1>1, Types DEF OwnerType
  <2>3. \A g \in Handlers, u \in Threads : at'[g][u] = "done" => at[g][u] = "done"
    BY <1>7 DEF Crash, Active
  <2>4. QED
    BY <2>1, <2>2, <2>3 DEF Served
<1>8. QED
  BY <1>1, <1>2, <1>3, <1>4, <1>5, <1>6, <1>7, ServedMain, ServedReply DEF Next

\* When no statement of the database fails, a handler that ran to its end left
\* no request with work executing, whatever the other deliveries of the event and
\* the other threads of the request did meanwhile.
THEOREM NoRequestForgotten ==
  ASSUME ~DbFaults
  PROVE  Spec => []NoSilentEnd
<1>1. Init => RecordReady /\ Served
  BY DEF Init, RecordReady, Served
<1>2. IInv /\ RecordReady /\ Answering /\ Served /\ [Next]_vars => Served' /\ RecordReady'
  BY ServedNext, RecordNext
<1>3. Served => NoSilentEnd
  BY DEF Served, NoSilentEnd, Final
<1>4. QED
  BY <1>1, <1>2, <1>3, Invariance, AnsweringInv, PTL DEF Spec
=============================================================================
