--------------------------- MODULE PaymentProofs ---------------------------
(***************************************************************************)
(* What Nip47Handler promises of payments, from the inductive invariant of *)
(* Nip47HandlerProofs: it implements PayOnce, and the payments of an app   *)
(* stay within its budget as long as every check saw all of them.          *)
(***************************************************************************)
EXTENDS Nip47HandlerProofs, FiniteSetTheorems, WellFoundedInduction

(***************************************************************************)
(* The refinement of PayOnce.  Three actions are visible to it: a payment  *)
(* accepted by the node (Pay), one the node resolves (Resolve), and the    *)
(* publication of a slot's reply (Tell).  All others are stutters.         *)
(***************************************************************************)

AbsJob == [j \in Jobs |-> attempt[j[1]][j[2]]]
AbsTold == [j \in Jobs |-> Told(j)]

\* A job is an event and a slot its body has work for.
LEMMA JobFacts ==
  /\ \A j \in Jobs : j[1] \in Requests /\ j[2] \in Slots /\ j = <<j[1], j[2]>>
  /\ \A r \in Requests, k \in Slots :
       (k \in DOMAIN Body[r] /\ Body[r][k] \in Payments) <=> <<r, k>> \in Jobs
  BY DEF Jobs

\* No payment was made and no verdict given.
LEMMA RefinesInit == Init => Promise!PayOnceInit
  BY JobFacts DEF Init, Promise!PayOnceInit, Told

\* The node and the replies unchanged: PayOnce stutters.
LEMMA RefinesStutter ==
  ASSUME UNCHANGED outsideVars
  PROVE  UNCHANGED Promise!jobVars
  BY DEF outsideVars, Promise!jobVars, Told

\* The handler's call of the node is the promise's Pay.
LEMMA RefinesSend ==
  ASSUME IInv, NEW h \in Handlers, NEW k \in Slots, SendPayment(h, k)
  PROVE  Promise!PayOnceNext \/ UNCHANGED Promise!jobVars
<1> DEFINE r == serves[h]
<1>1. /\ TypeOK /\ at[h][k] = "send" /\ replies' = replies
      /\ r \in Requests /\ h \in owner[r] /\ k \in DOMAIN Body[r]
      /\ Body[r][k] \in Payments /\ attempt[r][k] = "none"
      /\ \A v \in Outcomes : <<r, k, v>> \notin replies
  BY DEF IInv, Core, Assigned, OneOwner, Knows, NotYet, RepliesNotYet, BeforeReply,
         BeforeSend, SendPayment
<1>2. PICK j \in Jobs : j = <<r, k>> /\ j[1] = r /\ j[2] = k
  BY <1>1, JobFacts
<1>3. AbsTold' = AbsTold /\ Told(j) = "nothing"
  BY <1>1, <1>2 DEF AbsTold, Told, Outcomes
<1>4. CASE attempt' = attempt
  BY <1>1, <1>4, RefinesStutter DEF outsideVars
<1>5. CASE attempt' = [attempt EXCEPT ![r][k] = "inflight"]
  <2>1. attempt' \in AttemptType /\ Updated(attempt', attempt, Requests, Slots, r, k, "inflight")
    BY <1>1, <1>5, AttemptCell
  <2>2. AbsJob' = [AbsJob EXCEPT ![j] = "inflight"]
    <3>1. \A i \in Jobs : attempt'[i[1]][i[2]] = IF i = j THEN "inflight" ELSE attempt[i[1]][i[2]]
      BY <2>1, <1>2, JobFacts DEF Updated
    <3>2. QED
      BY <1>2, <3>1 DEF AbsJob
  <2>3. Promise!Pay(j)
    BY <1>1, <1>2, <1>3, <2>2 DEF Promise!Pay, AbsJob, AbsTold
  <2>4. QED
    BY <2>3 DEF Promise!PayOnceNext
<1>6. QED
  BY <1>4, <1>5 DEF SendPayment

\* The node's verdict is the promise's Resolve.
LEMMA RefinesResolve ==
  ASSUME IInv, NEW r \in Requests, NEW k \in Slots, ResolvePayment(r, k)
  PROVE  Promise!PayOnceNext \/ UNCHANGED Promise!jobVars
<1> DEFINE j == <<r, k>>
<1>1. TypeOK /\ attempt[r][k] = "inflight" /\ replies' = replies
  BY DEF IInv, ResolvePayment
<1>2. PICK v \in {"settled", "failed"} : attempt' = [attempt EXCEPT ![r][k] = v]
  BY DEF ResolvePayment
<1>3. attempt' \in AttemptType /\ Updated(attempt', attempt, Requests, Slots, r, k, v)
  BY <1>1, <1>2, AttemptCell
<1>4. AbsTold' = AbsTold
  BY <1>1 DEF AbsTold, Told
<1>5. CASE j \in Jobs
  <2>1. AbsJob' = [AbsJob EXCEPT ![j] = v]
    <3>1. \A i \in Jobs : attempt'[i[1]][i[2]] = IF i = j THEN v ELSE attempt[i[1]][i[2]]
      BY <1>3, <1>5, JobFacts DEF Updated
    <3>2. QED
      BY <1>5, <3>1 DEF AbsJob
  <2>2. Promise!Resolve(j)
    BY <1>1, <1>4, <1>5, <2>1 DEF Promise!Resolve, AbsJob, AbsTold
  <2>3. QED
    BY <1>5, <2>2 DEF Promise!PayOnceNext
<1>6. CASE j \notin Jobs
  <2>1. AbsJob' = AbsJob
    BY <1>3, <1>6, JobFacts DEF AbsJob, Updated
  <2>2. QED
    BY <1>4, <2>1 DEF Promise!jobVars, AbsJob, AbsTold
<1>7. QED
  BY <1>5, <1>6

\* A published response is the promise's Tell, or none of a payment.
LEMMA RefinesPublish ==
  ASSUME IInv, NEW h \in Handlers, NEW t \in Threads, PublishReply(h, t)
  PROVE  Promise!PayOnceNext \/ UNCHANGED Promise!jobVars
<1> DEFINE r == serves[h]
           j == <<r, t>>
           v == verdict[h][t]
<1>1. TypeOK /\ at[h][t] = "publish" /\ attempt' = attempt
  BY DEF IInv, PublishReply
<1>2. AbsJob' = AbsJob
  BY <1>1 DEF AbsJob
<1>3. CASE replies' = replies
  BY <1>1, <1>3, RefinesStutter DEF outsideVars
<1>4. CASE replies' = replies \cup {<<r, t, v>>} /\ j \notin Jobs
  <2>1. \A i \in Jobs, w \in Outcomes : <<i[1], i[2], w>> \in replies' <=> <<i[1], i[2], w>> \in replies
    BY <1>4, JobFacts
  <2>2. AbsTold' = AbsTold
    BY <2>1 DEF AbsTold, Told, Outcomes
  <2>3. QED
    BY <1>2, <2>2 DEF Promise!jobVars, AbsJob, AbsTold
<1>5. CASE replies' = replies \cup {<<r, t, v>>} /\ j \in Jobs
  <2>1. t \in Slots /\ r \in Requests /\ Body[r][t] \in Payments
    BY <1>5, JobFacts
  <2>2. /\ v \in {"success", "error"}
        /\ v = "success" => attempt[r][t] = "settled"
        /\ v = "error" => Timeouts \/ attempt[r][t] \in {"none", "failed"}
        /\ \A w \in Outcomes : <<r, t, w>> \notin replies
    BY <1>1, <2>1 DEF IInv, Core, OneOwner, Knows, RepliesNotYet, BeforeReply
  <2>3. \A i \in Jobs : Told(i)' = IF i = j THEN v ELSE Told(i)
    BY <1>5, <2>2, JobFacts DEF Told, Outcomes
  <2>4. AbsTold' = [AbsTold EXCEPT ![j] = v] /\ Told(j) = "nothing"
    BY <1>5, <2>2, <2>3 DEF AbsTold, Told, Outcomes
  <2>5. Promise!Tell(j)
    BY <1>2, <1>5, <2>2, <2>4 DEF Promise!Tell, AbsJob, AbsTold
  <2>6. QED
    BY <1>5, <2>5 DEF Promise!PayOnceNext
<1>6. QED
  BY <1>3, <1>4, <1>5 DEF PublishReply

\* Every step of the handlers is one of the promise or a stutter.
LEMMA RefinesNext ==
  IInv /\ [Next]_vars => Promise!PayOnceNext \/ UNCHANGED Promise!jobVars
<1> SUFFICES ASSUME IInv, [Next]_vars
             PROVE  Promise!PayOnceNext \/ UNCHANGED Promise!jobVars
  OBVIOUS
<1>1. ASSUME NEW h \in Handlers, MainStep(h) \/ \E r \in Requests : Deliver(h, r)
      PROVE  UNCHANGED outsideVars
  BY <1>1 DEF MainStep, Deliver, StoreRequest, FindApp, OpenRequest, FinishEvent
<1>2. ASSUME NEW h \in Handlers, NEW k \in Slots, SlotStep(h, k)
      PROVE  SendPayment(h, k) \/ UNCHANGED outsideVars
  BY <1>2 DEF SlotStep, CheckPermission, AskNode, CreatePayment, AwaitPayment, SavePreimage
<1>3. ASSUME NEW h \in Handlers, NEW t \in Threads, ReplyStep(h, t)
      PROVE  PublishReply(h, t) \/ UNCHANGED outsideVars
  BY <1>3 DEF ReplyStep, CreateResponseRow, SaveResponseRow, SaveRequestState
<1>4. ASSUME NEW a \in Apps, ExpireApp(a) \/ RenewBudget(a) \/ \E g \in Grants : UpdateApp(a, g)
      PROVE  UNCHANGED outsideVars
  BY <1>4 DEF ExpireApp, RenewBudget, UpdateApp
<1>5. Crash \/ UNCHANGED vars => UNCHANGED outsideVars
  BY DEF Crash, vars
<1>6. QED
  BY <1>1, <1>2, <1>3, <1>4, <1>5, RefinesSend, RefinesResolve, RefinesPublish,
     RefinesStutter DEF Next

\* The request handler keeps the promise of PayOnce: every payment of every
\* request is handed to the node at most once, never after a verdict was given,
\* and the verdicts given are true and final.
THEOREM Implements == Spec => PaysOnce
<1>1. Init => Promise!PayOnceInit
  BY RefinesInit
<1>2. IInv /\ [Next]_vars => [Promise!PayOnceNext]_(Promise!jobVars)
  BY RefinesNext
<1>3. QED
  BY <1>1, <1>2, Invariance, PTL DEF Spec, PaysOnce, Promise!PayOnceSpec

(***************************************************************************)
(* The sum of the amounts of a set of payments                             *)
(***************************************************************************)
\* The element a fold takes first, and the functions that sum up the subsets of S.
One(s) == CHOOSE j \in s : TRUE
Sums(g, S) == g = [s \in SUBSET S |-> IF s = {} THEN 0 ELSE Amount(One(s)) + g[s \ {One(s)}]]

\* One(s) picks an element of a set that has one.
LEMMA OneFact == \A s : s # {} => One(s) \in s
  BY DEF One

\* Amounts are natural numbers.
LEMMA AmountNat == \A j \in Jobs : Amount(j) \in Nat
  BY ConstantsAssumption DEF Jobs, Amount, Sats

\* A set of finite sets that is not empty has a smallest element.
LEMMA Smallest ==
  ASSUME NEW S, IsFiniteSet(S), NEW B \in SUBSET SUBSET S, B # {}
  PROVE  \E s \in B : \A t \in SUBSET s : t # s => t \notin B
<1>1. IsWellFoundedOn(StrictSubsetOrdering(S), SUBSET S)
  BY FS_StrictSubsetOrderingWellFounded, FS_FiniteSubsetsOfFinite
<1>2. PICK s \in B : \A t \in B : ~(<<t, s>> \in StrictSubsetOrdering(S))
  BY <1>1, WFMin
<1>3. \A t \in SUBSET s : t # s => t \notin B
  BY <1>2 DEF StrictSubsetOrdering
<1>4. QED
  BY <1>3

\* What such a function is at a set.
LEMMA SumsAt ==
  ASSUME NEW S, NEW g, Sums(g, S), NEW s \in SUBSET S
  PROVE  /\ s = {} => g[s] = 0
         /\ s # {} => g[s] = Amount(One(s)) + g[s \ {One(s)}]
  BY DEF Sums

\* Two functions that sum up agree wherever both are defined.
LEMMA SumsAgree ==
  ASSUME NEW S, IsFiniteSet(S), NEW T \in SUBSET S, NEW g, NEW h, Sums(g, S), Sums(h, T)
  PROVE  \A s \in SUBSET T : g[s] = h[s]
<1> DEFINE B == {s \in SUBSET T : g[s] # h[s]}
<1>1. SUFFICES ASSUME B # {} PROVE FALSE
  OBVIOUS
<1>2. IsFiniteSet(T)
  BY FS_Subset
<1>3. PICK s \in B : \A t \in SUBSET s : t # s => t \notin B
  <2> HIDE DEF B
  <2>1. B \in SUBSET SUBSET T
    BY DEF B
  <2>2. QED
    BY <1>1, <1>2, <2>1, Smallest
<1>4. s \in SUBSET S /\ s \in SUBSET T
  OBVIOUS
<1>5. s # {}
  BY <1>4, SumsAt
<1>6. g[s \ {One(s)}] = h[s \ {One(s)}]
  BY <1>3, <1>4, <1>5, OneFact
<1>7. QED
  BY <1>3, <1>4, <1>5, <1>6, SumsAt

\* On a finite set there is one.
LEMMA SumsExist ==
  ASSUME NEW S, IsFiniteSet(S)
  PROVE  \E g : Sums(g, S)
<1> DEFINE B == {s \in SUBSET S : ~\E g : Sums(g, s)}
           F(s) == CHOOSE g : Sums(g, s)
<1> HIDE DEF B
<1>1. SUFFICES ASSUME B # {} PROVE FALSE
  BY DEF B
<1>2. PICK s \in B : \A t \in SUBSET s : t # s => t \notin B
  <2>1. B \in SUBSET SUBSET S
    BY DEF B
  <2>2. QED
    BY <1>1, <2>1, Smallest
<1>3. s \in SUBSET S
  BY <1>2 DEF B
<1>4. \A t \in SUBSET s : t # s => IsFiniteSet(t) /\ Sums(F(t), t)
  BY <1>2, <1>3, FS_Subset DEF B
<1> DEFINE G == [t \in SUBSET s |-> IF t = {} THEN 0
                                    ELSE Amount(One(t)) + F(t \ {One(t)})[t \ {One(t)}]]
<1> HIDE DEF F
<1>5. ASSUME NEW t \in SUBSET s, t # {}
      PROVE  G[t \ {One(t)}] = F(t \ {One(t)})[t \ {One(t)}]
  <2> DEFINE u == t \ {One(t)}
             v == u \ {One(u)}
  <2>1. One(t) \in t /\ u \in SUBSET s /\ u # s
    BY <1>5, OneFact
  <2> HIDE DEF u
  <2>2. Sums(F(u), u) /\ IsFiniteSet(u)
    BY <1>4, <2>1
  <2>3. CASE u = {}
    BY <2>1, <2>2, <2>3, SumsAt DEF u
  <2>4. CASE u # {}
    <3>1. One(u) \in u /\ v \in SUBSET s /\ v # s /\ v \in SUBSET u
      BY <2>1, <2>4, OneFact
    <3>2. Sums(F(v), v)
      BY <1>4, <3>1
    <3>3. F(u)[v] = F(v)[v]
      BY <2>2, <3>1, <3>2, SumsAgree
    <3>4. F(u)[u] = Amount(One(u)) + F(u)[v]
      BY <2>2, <2>4, SumsAt
    <3>5. G[u] = Amount(One(u)) + F(v)[v]
      BY <2>1, <2>4
    <3>6. QED
      BY <3>3, <3>4, <3>5 DEF u
  <2>5. QED
    BY <2>3, <2>4
<1>6. Sums(G, s)
  <2>1. \A t \in SUBSET s : G[t] = IF t = {} THEN 0 ELSE Amount(One(t)) + G[t \ {One(t)}]
    BY <1>5
  <2>2. G = [t \in SUBSET s |-> G[t]]
    OBVIOUS
  <2> HIDE DEF G
  <2>3. QED
    BY <2>1, <2>2 DEF Sums
<1>7. QED
  <2> HIDE DEF G
  <2>1. QED
    BY <1>2, <1>6 DEF B

\* Total is what any of them says.
LEMMA TotalIs ==
  ASSUME NEW S, IsFiniteSet(S), NEW g, Sums(g, S)
  PROVE  Total(S) = g[S]
<1>1. \A h : Sums(h, S) => h = g
  <2> SUFFICES ASSUME NEW h, Sums(h, S) PROVE h = g
    OBVIOUS
  <2>1. \A s \in SUBSET S : g[s] = h[s]
    BY SumsAgree
  <2>2. g = [s \in SUBSET S |-> g[s]] /\ h = [s \in SUBSET S |-> h[s]]
    BY DEF Sums
  <2>3. QED
    BY <2>1, <2>2
<1>2. QED
  BY <1>1 DEF Total, MapThenSumSet, MapThenFoldSet, Sums, One

\* Total takes the elements in the order of CHOOSE ...
LEMMA TotalStep ==
  ASSUME NEW S, IsFiniteSet(S)
  PROVE  /\ S = {} => Total(S) = 0
         /\ S # {} => Total(S) = Amount(One(S)) + Total(S \ {One(S)})
<1>1. PICK g : Sums(g, S)
  BY SumsExist
<1>2. Total(S) = g[S]
  BY <1>1, TotalIs
<1>3. ASSUME S # {} PROVE g[S \ {One(S)}] = Total(S \ {One(S)})
  <2> DEFINE T == S \ {One(S)}
  <2>1. IsFiniteSet(T) /\ T \in SUBSET S
    BY FS_Subset
  <2> HIDE DEF T
  <2>2. PICK h : Sums(h, T)
    BY <2>1, SumsExist
  <2>3. Total(T) = h[T] /\ h[T] = g[T]
    BY <1>1, <2>1, <2>2, TotalIs, SumsAgree
  <2>4. QED
    BY <2>3 DEF T
<1>4. QED
  BY <1>1, <1>2, <1>3, SumsAt

\* The total of finitely many payments is a natural number.
LEMMA TotalNat ==
  ASSUME NEW S \in SUBSET Jobs, IsFiniteSet(S)
  PROVE  Total(S) \in Nat
<1> DEFINE B == {s \in SUBSET S : Total(s) \notin Nat}
<1> HIDE DEF B
<1>1. SUFFICES ASSUME B # {} PROVE FALSE
  BY DEF B
<1>2. PICK s \in B : \A t \in SUBSET s : t # s => t \notin B
  <2>1. B \in SUBSET SUBSET S
    BY DEF B
  <2>2. QED
    BY <1>1, <2>1, Smallest
<1>3. s \in SUBSET S /\ Total(s) \notin Nat /\ IsFiniteSet(s)
  BY <1>2, FS_Subset DEF B
<1>4. s # {}
  BY <1>3, TotalStep
<1>5. Total(s \ {One(s)}) \in Nat /\ One(s) \in Jobs
  BY <1>2, <1>3, <1>4, OneFact DEF B
<1>6. QED
  BY <1>3, <1>4, <1>5, TotalStep, AmountNat

\* ... but any order will do.
LEMMA TotalOf ==
  ASSUME NEW S \in SUBSET Jobs, IsFiniteSet(S), NEW j \in S
  PROVE  Total(S) = Amount(j) + Total(S \ {j})
<1> DEFINE Wrong(s) == \E x \in s : Total(s) # Amount(x) + Total(s \ {x})
           B == {s \in SUBSET S : Wrong(s)}
<1> HIDE DEF B
<1>1. SUFFICES ASSUME B # {} PROVE FALSE
  BY DEF B
<1>2. PICK s \in B : \A t \in SUBSET s : t # s => t \notin B
  <2>1. B \in SUBSET SUBSET S
    BY DEF B
  <2>2. QED
    BY <1>1, <2>1, Smallest
<1>3. s \in SUBSET S /\ IsFiniteSet(s) /\ s \in SUBSET Jobs
  BY <1>2, FS_Subset DEF B
<1>4. PICK x \in s : Total(s) # Amount(x) + Total(s \ {x})
  BY <1>2 DEF B
<1> DEFINE y == One(s)
<1>5. y \in s /\ Total(s) = Amount(y) + Total(s \ {y}) /\ x # y
  BY <1>3, <1>4, TotalStep, OneFact
<1> HIDE DEF y
<1>6. s \ {x} \notin B /\ s \ {y} \notin B /\ s \ {x} \in SUBSET S /\ s \ {y} \in SUBSET S
  BY <1>2, <1>3, <1>4, <1>5
<1>7. /\ Total(s \ {x}) = Amount(y) + Total((s \ {x}) \ {y})
      /\ Total(s \ {y}) = Amount(x) + Total((s \ {y}) \ {x})
  BY <1>4, <1>5, <1>6 DEF B
<1>8. (s \ {x}) \ {y} = (s \ {y}) \ {x}
  OBVIOUS
<1>9. Total((s \ {y}) \ {x}) \in Nat /\ Amount(x) \in Nat /\ Amount(y) \in Nat
  <2>1. (s \ {y}) \ {x} \in SUBSET Jobs /\ IsFiniteSet((s \ {y}) \ {x})
    BY <1>3, FS_Subset
  <2>2. QED
    BY <1>3, <1>4, <1>5, <2>1, TotalNat, AmountNat
<1>10. QED
  BY <1>4, <1>5, <1>7, <1>8, <1>9

\* A smaller set of payments has no larger total.
LEMMA TotalGrows ==
  ASSUME NEW S \in SUBSET Jobs, IsFiniteSet(S), NEW T \in SUBSET S
  PROVE  Total(T) <= Total(S)
<1> DEFINE B == {s \in SUBSET S : \E t \in SUBSET s : ~(Total(t) <= Total(s))}
<1> HIDE DEF B
<1>1. SUFFICES ASSUME B # {} PROVE FALSE
  BY DEF B
<1>2. PICK s \in B : \A t \in SUBSET s : t # s => t \notin B
  <2>1. B \in SUBSET SUBSET S
    BY DEF B
  <2>2. QED
    BY <1>1, <2>1, Smallest
<1>3. s \in SUBSET S /\ IsFiniteSet(s) /\ s \in SUBSET Jobs
  BY <1>2, FS_Subset DEF B
<1>4. PICK t \in SUBSET s : ~(Total(t) <= Total(s))
  BY <1>2 DEF B
<1>5. Total(s) \in Nat
  BY <1>3, TotalNat
<1>6. PICK x \in s : x \notin t
  BY <1>4, <1>5
<1>7. Total(t) <= Total(s \ {x})
  BY <1>2, <1>3, <1>6 DEF B
<1>8. s \ {x} \in SUBSET Jobs /\ IsFiniteSet(s \ {x}) /\ t \in SUBSET Jobs /\ IsFiniteSet(t)
  BY <1>3, FS_Subset
<1>9. Total(s \ {x}) \in Nat /\ Total(t) \in Nat /\ Amount(x) \in Nat
  BY <1>3, <1>8, TotalNat, AmountNat
<1>10. Total(s) = Amount(x) + Total(s \ {x})
  BY <1>3, TotalOf
<1>11. QED
  BY <1>4, <1>5, <1>7, <1>9, <1>10

(***************************************************************************)
(* Budgets                                                                 *)
(***************************************************************************)
\* The payment of a job stands: it was allowed and did not fail.
Standing(j) ==
  \/ attempt[j[1]][j[2]] \in {"inflight", "settled"}
  \/ \E h \in Handlers : serves[h] = j[1] /\ at[h][j[2]] \in {"create", "send"}

Current(a) == Committed(a) \ stale

\* What an app was allowed in a period, settled or not, stays within its budget as
\* long as every check saw all of it; only rows that exist belong to the past.
BudgetInv ==
  /\ \A j \in stale : payment[j[1]][j[2]] # "absent"
  /\ \A a \in Apps \ blind :
       access[a].maxAmount # 0 => Total(Current(a)) <= access[a].maxAmount

\* There are finitely many jobs, so every set of them has a sum.
LEMMA JobsFinite ==
  ASSUME NEW S \in SUBSET Jobs
  PROVE  IsFiniteSet(S)
<1>1. IsFiniteSet(Requests \X Slots)
  BY ConstantsAssumption, FS_Product
<1>2. S \in SUBSET (Requests \X Slots)
  BY DEF Jobs
<1>3. QED
  BY <1>1, <1>2, FS_Subset

\* The jobs of an app that count, before and after a step.
LEMMA CommittedFacts ==
  ASSUME NEW a
  PROVE  /\ \A j : j \in Committed(a) <=> j \in Jobs /\ Sender[j[1]] = a /\ Standing(j)
         /\ \A j : (j \in Committed(a))' <=> j \in Jobs /\ Sender[j[1]] = a /\ Standing(j)'
         /\ Current(a) \in SUBSET Jobs /\ Current(a)' \in SUBSET Jobs
  BY DEF Committed, JobsOf, Standing, Current

\* A step that allows no payment and changes no budget.
LEMMA BudgetKept ==
  ASSUME TypeOK, TypeOK', BudgetInv, \A a \in Apps : access'[a].maxAmount = access[a].maxAmount,
         stale \subseteq stale', blind \subseteq blind',
         \A j \in Jobs : Standing(j)' => Standing(j),
         \A j \in stale' : payment'[j[1]][j[2]] # "absent"
  PROVE  BudgetInv'
<1> SUFFICES ASSUME NEW a \in Apps, a \notin blind', access'[a].maxAmount # 0
             PROVE  Total(Current(a)') <= access'[a].maxAmount
  BY DEF BudgetInv, Total
<1>1. access[a].maxAmount \in Nat
  BY Types DEF Grant
<1>2. Current(a)' \in SUBSET Current(a)
  BY CommittedFacts DEF Current
<1>3. Current(a) \in SUBSET Jobs /\ IsFiniteSet(Current(a)) /\ IsFiniteSet(Current(a)')
  BY CommittedFacts, JobsFinite
<1>4. Total(Current(a)') <= Total(Current(a))
  BY <1>2, <1>3, TotalGrows
<1>5. Total(Current(a)) \in Nat /\ Total(Current(a)') \in Nat
  BY <1>2, <1>3, TotalNat
<1>6. Total(Current(a)) <= access[a].maxAmount
  BY DEF BudgetInv
<1>7. QED
  BY <1>1, <1>4, <1>5, <1>6

\* A thread of a handler moves, and not past the check of a permission.
LEMMA ThreadStands ==
  ASSUME IInv, NEW h \in Handlers, NEW t \in Threads, NEW s \in Steps, Goto(h, t, s),
         UNCHANGED <<serves, attempt>>, s \in {"create", "send"} => at[h][t] = "create"
  PROVE  \A j \in Jobs : Standing(j)' => Standing(j)
<1>1. \A g \in Handlers, u \in Threads : at'[g][u] = IF g = h /\ u = t THEN s ELSE at[g][u]
  BY Types, UpdateCell DEF IInv, AtType, Goto, Updated
<1>2. \A j \in Jobs : j[2] \in Threads
  BY ThreadFacts, JobFacts
<1>3. QED
  BY <1>1, <1>2 DEF Standing

\* A step of HandleEvent before the methods, or its end, allows no payment.
LEMMA BudgetMain ==
  ASSUME IInv, IInv', BudgetInv, NEW h \in Handlers,
         MainStep(h) \/ \E r \in Requests : Deliver(h, r)
  PROVE  BudgetInv'
<1> USE ThreadFacts
<1>1. /\ TypeOK /\ TypeOK'
      /\ UNCHANGED <<payment, stale, access, attempt, blind>>
  BY DEF IInv, MainStep, Deliver, StoreRequest, FindApp, OpenRequest, FinishEvent, dbVars,
         outsideVars, history
<1>2. \A j \in Jobs : Standing(j)' => Standing(j)
  <2>1. \A j \in Jobs : j[1] \in Requests /\ j[2] \in Slots
    BY JobFacts
  <2>2. CASE \E r \in Requests : Deliver(h, r)
    <3>1. \A k \in Slots : at'[h][k] = "idle" /\ at[h][k] = "idle"
      BY <1>1, <2>2, Types DEF Deliver, Goto, AtType, IInv, Core, Assigned
    <3>2. \A g \in Handlers : g # h => at'[g] = at[g] /\ serves'[g] = serves[g]
      BY <1>1, <2>2, Types DEF Deliver, Goto, AtType, ServesType
    <3>3. QED
      BY <1>1, <2>1, <3>1, <3>2 DEF Standing
  <2>3. CASE MainStep(h)
    <3>1. /\ serves' = serves
          /\ \A g \in Handlers, k \in Slots : at'[g][k] \in {at[g][k], "check"}
      BY <1>1, <2>3, Types
      DEF MainStep, StoreRequest, FindApp, OpenRequest, FinishEvent, Answer, Goto, AtType
    <3>2. QED
      BY <1>1, <2>1, <3>1 DEF Standing
  <2>4. QED
    BY <2>2, <2>3
<1>3. QED
  BY <1>1, <1>2, BudgetKept DEF BudgetInv

\* A permission is granted when the usage and the payment itself fit the budget, and
\* a check that is not blind sees every payment that stands.
LEMMA BudgetCheck ==
  ASSUME IInv, IInv', BudgetInv, NEW h \in Handlers, NEW k \in Slots, CheckPermission(h, k)
  PROVE  BudgetInv'
<1> USE ThreadFacts
<1> DEFINE r == serves[h]
           w == Body[r][k]
           b == Sender[r]
<1>1. /\ TypeOK /\ TypeOK' /\ UNCHANGED <<payment, stale, access, serves, attempt>>
      /\ blind \subseteq blind' /\ at[h][k] = "check" /\ b \in Apps
      /\ r \in Requests /\ payment[r][k] = "absent"
  <2>1. /\ UNCHANGED <<payment, stale, access, serves, attempt>>
        /\ blind \subseteq blind' /\ at[h][k] = "check"
    BY DEF CheckPermission, dbVars, outsideVars
  <2>2. TypeOK /\ TypeOK' /\ b \in Apps /\ r \in Requests /\ payment[r][k] = "absent"
    BY <2>1 DEF IInv, Core, Assigned, OneOwner, NotYet, BeforeCreate
  <2>3. QED
    BY <2>1, <2>2
<1>2. CASE at'[h][k] \notin {"create", "send"}
  <2>1. PICK s \in {"query", "create", "respond"} : Goto(h, k, s)
    BY DEF CheckPermission, Answer
  <2>2. at'[h][k] = s /\ s \in Steps
    BY <1>1, <2>1, Types DEF Goto, AtType, Steps, SlotSteps, ReplySteps
  <2>3. \A j \in Jobs : Standing(j)' => Standing(j)
    BY <1>1, <1>2, <2>1, <2>2, ThreadStands
  <2>4. QED
    BY <1>1, <2>3, BudgetKept DEF BudgetInv
<1>3. CASE at'[h][k] \in {"create", "send"}
  <2>1. PICK read \in {TRUE, ~DbFaults} :
           /\ w \in Payments /\ HasPermission(b, w, read) /\ Goto(h, k, "create")
           /\ blind' = IF access[b].maxAmount # 0 /\ Missed(b, read) # {}
                         THEN blind \cup {b} ELSE blind
    <3>1. PICK s \in {"query", "create", "respond"}, read \in {TRUE, ~DbFaults} :
            /\ Goto(h, k, s)
            /\ s = "create" =>
                 /\ w \notin {Query, Malformed} /\ HasPermission(b, w, read)
                 /\ blind' = IF /\ w \in Payments /\ access[b].maxAmount # 0
                                /\ Missed(b, read) # {}
                               THEN blind \cup {b} ELSE blind
      BY DEF CheckPermission, Answer, WorkOf
    <3>2. at'[h][k] = s
      BY <1>1, <3>1, Types DEF Goto, AtType
    <3>3. w \in Work
      BY <1>1, ConstantsAssumption DEF IInv, Core, Assigned
    <3>4. QED
      BY <1>3, <3>1, <3>2, <3>3 DEF Work
  <2>2. \A g \in Handlers, u \in Threads :
           at'[g][u] = IF g = h /\ u = k THEN "create" ELSE at[g][u]
    BY <1>1, <2>1, Types DEF Goto, AtType
  <2>3. \A j \in Jobs : Standing(j)' => Standing(j) \/ j = <<r, k>>
    BY <1>1, <2>2, JobFacts DEF Standing
  <2>4. SUFFICES ASSUME NEW a \in Apps, a \notin blind', access[a].maxAmount # 0
                 PROVE  Total(Current(a)') <= access[a].maxAmount
    BY <1>1 DEF BudgetInv, Total
  <2>5. Current(a) \in SUBSET Jobs /\ Current(a)' \in SUBSET Jobs /\ access[a].maxAmount \in Nat
    BY <1>1, CommittedFacts, Types DEF Grant
  <2>6. CASE a # b
    <3>1. Current(a)' \in SUBSET Current(a)
      BY <1>1, <2>3, <2>6, CommittedFacts DEF Current
    <3>2. Total(Current(a)') <= Total(Current(a)) /\ Total(Current(a)) <= access[a].maxAmount
      BY <1>1, <2>4, <2>5, <3>1, TotalGrows, JobsFinite DEF BudgetInv
    <3>3. Total(Current(a)) \in Nat /\ Total(Current(a)') \in Nat
      BY <2>5, TotalNat, JobsFinite
    <3>4. QED
      BY <2>5, <3>2, <3>3
  <2>7. CASE a = b
    <3> DEFINE U == IF read
                      THEN {j \in JobsOf(a) : payment[j[1]][j[2]] = "paid" /\ j \notin stale}
                      ELSE {}
               i == <<r, k>>
    <3>1. i \in Jobs /\ i \notin U /\ U \in SUBSET Jobs /\ Amount(i) = Sats(w)
      BY <1>1, <2>1, JobFacts DEF JobsOf, Amount, IInv, Core, Assigned
    <3>2. Current(a) \in SUBSET U
      BY <2>1, <2>4, <2>7 DEF Missed, Unaccounted, Current, Committed
    <3>3. Current(a)' \in SUBSET (U \cup {i})
      BY <1>1, <2>3, <3>2, CommittedFacts DEF Current
    <3>4. Total(U) + Amount(i) <= access[a].maxAmount
      <4>1. Total({}) = 0
        BY TotalStep, FS_EmptySet
      <4>2. QED
        BY <2>1, <2>4, <2>7, <3>1, <4>1 DEF HasPermission, GetBudgetUsage
    <3> HIDE DEF U, i
    <3>5. /\ U \cup {i} \in SUBSET Jobs /\ IsFiniteSet(U \cup {i}) /\ IsFiniteSet(U)
          /\ (U \cup {i}) \ {i} = U
      BY <3>1, JobsFinite
    <3>6. Total(U \cup {i}) = Amount(i) + Total(U)
      BY <3>5, TotalOf
    <3>7. Total(Current(a)') <= Total(U \cup {i})
      BY <3>3, <3>5, TotalGrows
    <3>8. /\ Total(Current(a)') \in Nat /\ Total(U) \in Nat /\ Amount(i) \in Nat
          /\ Total(U \cup {i}) \in Nat
      BY <2>5, <3>1, <3>5, TotalNat, JobsFinite, AmountNat
    <3>9. QED
      BY <2>5, <3>4, <3>6, <3>7, <3>8
  <2>8. QED
    BY <2>6, <2>7
<1>4. QED
  BY <1>2, <1>3

\* The steps of a payment: only the check makes one stand, the others keep or drop it.
LEMMA BudgetSlot ==
  ASSUME IInv, IInv', BudgetInv, NEW h \in Handlers, NEW k \in Slots, SlotStep(h, k),
         ~CheckPermission(h, k)
  PROVE  BudgetInv'
<1> USE ThreadFacts
<1> DEFINE r == serves[h]
<1>1. /\ TypeOK /\ TypeOK' /\ UNCHANGED <<stale, access, serves, blind>>
      /\ at \in AtType /\ payment \in PaymentType /\ attempt \in AttemptType
  BY Types DEF IInv, SlotStep, AskNode, CreatePayment, SendPayment, AwaitPayment, SavePreimage,
         dbVars, history
<1>2. r \in Requests
  BY <1>1 DEF SlotStep, AskNode, CreatePayment, SendPayment, AwaitPayment, SavePreimage, IInv,
              Core, Assigned
<1>3. PICK s \in {"send", "await", "save", "respond"} :
        Goto(h, k, s) /\ (s = "send" => at[h][k] = "create")
  BY DEF SlotStep, AskNode, CreatePayment, SendPayment, AwaitPayment, SavePreimage, Answer
<1>4. s \in Steps /\ s \notin {"create"}
  BY DEF Steps, SlotSteps, ReplySteps
<1>5. \A j \in stale : payment'[j[1]][j[2]] # "absent"
  <2>1. \A j \in stale : j[1] \in Requests /\ j[2] \in Slots
    BY <1>1, Types, JobFacts
  <2>2. \A q \in Requests, u \in Slots : payment'[q][u] \in {payment[q][u], "pending", "paid"}
    BY <1>1, <1>2
    DEF SlotStep, AskNode, CreatePayment, SendPayment, AwaitPayment, SavePreimage, dbVars,
        PaymentType
  <2>3. QED
    BY <2>1, <2>2 DEF BudgetInv
<1>6. \A j \in Jobs : Standing(j)' => Standing(j)
  <2>1. CASE UNCHANGED attempt
    BY <1>1, <1>3, <1>4, <2>1, ThreadStands
  <2>2. CASE ~UNCHANGED attempt
    <3>1. at[h][k] = "send" /\ attempt' = [attempt EXCEPT ![r][k] = "inflight"] /\ Goto(h, k, "await")
      BY <2>2 DEF SlotStep, AskNode, CreatePayment, SendPayment, AwaitPayment, SavePreimage,
                  outsideVars
    <3>2. \A g \in Handlers, u \in Threads : at'[g][u] = IF g = h /\ u = k THEN "await" ELSE at[g][u]
      BY <1>1, <3>1 DEF Goto, AtType
    <3>3. \A q \in Requests, u \in Slots :
             attempt'[q][u] = IF q = r /\ u = k THEN "inflight" ELSE attempt[q][u]
      BY <1>1, <1>2, <3>1 DEF AttemptType
    <3>4. QED
      BY <1>1, <3>1, <3>2, <3>3, JobFacts DEF Standing
  <2>3. QED
    BY <2>1, <2>2
<1>7. QED
  BY <1>1, <1>5, <1>6, BudgetKept

\* Publishing a response touches no payment.
LEMMA BudgetReply ==
  ASSUME IInv, IInv', BudgetInv, NEW h \in Handlers, NEW t \in Threads, ReplyStep(h, t)
  PROVE  BudgetInv'
<1>1. TypeOK /\ TypeOK' /\ UNCHANGED <<payment, stale, access, serves, attempt, blind>>
  BY DEF IInv, ReplyStep, CreateResponseRow, PublishReply, SaveResponseRow, SaveRequestState,
         dbVars, outsideVars, history
<1>2. PICK s \in {"publish", "done", "record", "confirmed", "failed"} : Goto(h, t, s)
  BY DEF ReplyStep, CreateResponseRow, PublishReply, SaveResponseRow, SaveRequestState
<1>3. \A j \in Jobs : Standing(j)' => Standing(j)
  BY <1>1, <1>2, ThreadStands DEF Steps, ReplySteps
<1>4. QED
  BY <1>1, <1>3, BudgetKept DEF BudgetInv

\* The node's verdict and a crash only take payments away.
LEMMA BudgetOutside ==
  ASSUME IInv, IInv', BudgetInv,
         \/ UNCHANGED vars \/ Crash
         \/ \E r \in Requests, k \in Slots : ResolvePayment(r, k)
  PROVE  BudgetInv'
<1>1. TypeOK /\ TypeOK' /\ UNCHANGED <<payment, stale, access, serves, blind>>
  BY DEF IInv, vars, Crash, ResolvePayment, dbVars, handlerVars, history
<1>2. \A j \in Jobs : j[1] \in Requests /\ j[2] \in Slots /\ j[2] \in Threads
  BY JobFacts, ThreadFacts
<1>3. \A g \in Handlers, u \in Threads : at'[g][u] \in {at[g][u], "crashed"}
  BY Types DEF IInv, vars, Crash, ResolvePayment, handlerVars
<1>4. \A q \in Requests, u \in Slots :
         \/ attempt'[q][u] = attempt[q][u]
         \/ attempt[q][u] = "inflight"
  BY Types DEF IInv, vars, Crash, ResolvePayment, outsideVars, AttemptType
<1>5. \A j \in Jobs : Standing(j)' => Standing(j)
  BY <1>1, <1>2, <1>3, <1>4 DEF Standing
<1>6. QED
  BY <1>1, <1>5, BudgetKept DEF BudgetInv

\* A user who sets a budget below what was allowed makes the app one of the blind.
LEMMA BudgetUser ==
  ASSUME IInv, IInv', BudgetInv, NEW b \in Apps,
         ExpireApp(b) \/ RenewBudget(b) \/ \E g \in Grants : UpdateApp(b, g)
  PROVE  BudgetInv'
<1>1. /\ TypeOK /\ TypeOK' /\ UNCHANGED <<payment, serves, at, attempt>> /\ blind \subseteq blind'
      /\ access \in [Apps -> Grant]
  BY Types DEF IInv, ExpireApp, RenewBudget, UpdateApp, handlerVars, outsideVars, history
<1>2. \A j \in Jobs : Standing(j)' <=> Standing(j)
  BY <1>1 DEF Standing
<1>3. \A j \in stale' : payment'[j[1]][j[2]] # "absent"
  BY <1>1 DEF ExpireApp, RenewBudget, UpdateApp, Written, BudgetInv
<1>4. CASE ExpireApp(b) \/ RenewBudget(b)
  <2>1. /\ \A a \in Apps : access'[a].maxAmount = access[a].maxAmount
        /\ stale \subseteq stale'
    BY <1>1, <1>4 DEF ExpireApp, RenewBudget, Grant
  <2>2. QED
    BY <1>1, <1>2, <1>3, <2>1, BudgetKept
<1>5. ASSUME NEW g \in Grants, UpdateApp(b, g) PROVE BudgetInv'
  <2>1. SUFFICES ASSUME NEW a \in Apps, a \notin blind', access'[a].maxAmount # 0
                 PROVE  Total(Current(a)') <= access'[a].maxAmount
    BY <1>3 DEF BudgetInv, Total
  <2>2. Committed(a)' = Committed(a)
    BY <1>1 DEF Committed
  <2>3. Current(a)' = Committed(a) \ stale'
    BY <2>2 DEF Current
  <2>4. CASE a = b
    <3>1. access'[a] = g /\ g \in Grant
      BY <1>1, <1>5, <2>4, ConstantsAssumption DEF UpdateApp
    <3>2. ~(Total(Committed(a) \ stale') > g.maxAmount)
      BY <1>5, <2>1, <2>4, <3>1 DEF UpdateApp
    <3>3. Total(Current(a)') \in Nat /\ g.maxAmount \in Nat
      BY <3>1, CommittedFacts, JobsFinite, TotalNat DEF Grant
    <3>4. QED
      BY <2>3, <3>1, <3>2, <3>3
  <2>5. CASE a # b
    <3>1. access'[a] = access[a] /\ a \notin blind
      BY <1>1, <1>5, <2>1, <2>5 DEF UpdateApp
    <3>2. Current(a)' = Current(a)
      <4>1. \A j \in Committed(a) : j \notin JobsOf(b)
        BY <2>5 DEF Committed, JobsOf
      <4>2. \A j \in Committed(a) : j \in stale' <=> j \in stale
        BY <1>5, <4>1 DEF UpdateApp, Written
      <4>3. QED
        BY <2>3, <4>2 DEF Current
    <3>3. QED
      BY <2>1, <3>1, <3>2 DEF BudgetInv
  <2>6. QED
    BY <2>4, <2>5
<1>6. QED
  BY <1>4, <1>5

\* BudgetInv is inductive, next to IInv.
LEMMA BudgetNext == IInv /\ IInv' /\ BudgetInv /\ [Next]_vars => BudgetInv'
<1> SUFFICES ASSUME IInv, IInv', BudgetInv, [Next]_vars PROVE BudgetInv'
  OBVIOUS
<1>1. QED
  BY BudgetMain, BudgetCheck, BudgetSlot, BudgetReply, BudgetOutside, BudgetUser DEF Next

\* Nothing was paid yet.
LEMMA BudgetInit == Init => BudgetInv
<1> SUFFICES ASSUME Init PROVE BudgetInv
  OBVIOUS
<1>1. \A a \in Apps : access[a].maxAmount \in Nat
  BY ConstantsAssumption DEF Init, Grant
<1>2. \A a \in Apps : Current(a) = {}
  <2>1. \A j \in Jobs : ~Standing(j)
    BY JobFacts, ThreadFacts DEF Init, Standing
  <2>2. QED
    BY <2>1, CommittedFacts DEF Current
<1>3. Total({}) = 0
  BY TotalStep, JobsFinite
<1>4. \A a \in Apps : Total(Current(a)) <= access[a].maxAmount
  BY <1>1, <1>2, <1>3
<1>5. stale = {}
  BY DEF Init
<1>6. QED
  BY <1>4, <1>5 DEF BudgetInv

\* What an app spent in a budget period exceeds its max_amount only if some payment
\* was allowed by a check that missed another one (not yet in the usage, or the
\* query of the usage failed and its error was ignored), or the user set the budget
\* below what was allowed already: HasPermission and GetBudgetUsage have no other
\* way past the budget, whatever the amounts, the number of requests, the renewals,
\* the failures of statements and the crashes.
THEOREM BudgetHolds == Spec => []OverBudgetOnlyWhenBlind
<1>1. BudgetInv /\ IInv => OverBudgetOnlyWhenBlind
  <2> SUFFICES ASSUME BudgetInv, IInv, NEW a \in Apps, OverBudget(a), a \notin blind
               PROVE  FALSE
    BY DEF OverBudgetOnlyWhenBlind
  <2> DEFINE S == {j \in JobsOf(a) : attempt[j[1]][j[2]] = "settled" /\ j \notin stale}
  <2>1. S \in SUBSET Current(a) /\ Current(a) \in SUBSET Jobs /\ S \in SUBSET Jobs
    BY DEF Current, Committed, JobsOf
  <2>2. Total(S) > access[a].maxAmount /\ access[a].maxAmount # 0
    BY DEF OverBudget, Spent
  <2> HIDE DEF S
  <2>3. Total(S) <= Total(Current(a)) /\ Total(S) \in Nat /\ Total(Current(a)) \in Nat
    BY <2>1, TotalGrows, TotalNat, JobsFinite
  <2>4. Total(Current(a)) <= access[a].maxAmount
    BY <2>2 DEF BudgetInv
  <2>5. access[a].maxAmount \in Nat
    BY Types DEF IInv, Grant
  <2>6. QED
    BY <2>2, <2>3, <2>4, <2>5
<1>2. QED
  BY <1>1, BudgetInit, BudgetNext, Invariance, PTL DEF Spec
=============================================================================
