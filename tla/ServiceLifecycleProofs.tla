---------------------- MODULE ServiceLifecycleProofs ----------------------
(***************************************************************************)
(* Proofs about ServiceLifecycle.  For one operator, no signal, and any    *)
(* number of goroutines that start and of starts: there is never more than *)
(* one node, and the service holds it.  For one caller on an LDK node: a   *)
(* backup finds the hub at rest.  For a hub that is started once on an LDK *)
(* node, with any number of operators and a signal: the process exits at   *)
(* rest.  The types hold in every instance.                                *)
(***************************************************************************)
EXTENDS ServiceLifecycle, FiniteSetTheorems, TLAPS

(***************************************************************************)
(* Facts about types and single updates                                    *)
(***************************************************************************)
PcType == {p \in [Goroutines -> CallSteps \cup LoopSteps] :
             /\ \A c \in Callers : p[c] \in CallSteps
             /\ \A g \in Starts : p[g] \in LoopSteps}
NodeType == [Starts -> {"none", "running", "stopping", "gone"}]
TargetType == [Goroutines -> Starts \cup {NoClient}]
ClientType == [Starts -> Starts \cup {NoClient, Idle}]
Processes == {"up", "waiting", "exited", "panicked"}

LEMMA Types ==
  TypeOK <=>
    /\ lnClient \in Starts \cup {NoClient} /\ appCancelFn \in Starts \cup {NoClient}
    /\ wg \in 0..MaxStarts /\ started \in 0..MaxStarts /\ cancelled \in SUBSET Starts
    /\ rootDone \in BOOLEAN /\ startMutex \in BOOLEAN /\ dbOpen \in BOOLEAN /\ queued \in BOOLEAN
    /\ backend \in Backends /\ process \in Processes
    /\ node \in NodeType /\ pc \in PcType /\ target \in TargetType
    /\ handler \in ClientType /\ notifier \in ClientType
  BY DEF TypeOK, PcType, NodeType, TargetType, ClientType, Processes

LEMMA TypesNext ==
  TypeOK' <=>
    /\ lnClient' \in Starts \cup {NoClient} /\ appCancelFn' \in Starts \cup {NoClient}
    /\ wg' \in 0..MaxStarts /\ started' \in 0..MaxStarts /\ cancelled' \in SUBSET Starts
    /\ rootDone' \in BOOLEAN /\ startMutex' \in BOOLEAN /\ dbOpen' \in BOOLEAN /\ queued' \in BOOLEAN
    /\ backend' \in Backends /\ process' \in Processes
    /\ node' \in NodeType /\ pc' \in PcType /\ target' \in TargetType
    /\ handler' \in ClientType /\ notifier' \in ClientType
  BY DEF TypeOK, PcType, NodeType, TargetType, ClientType, Processes

LEMMA SetFacts ==
  /\ MaxStarts \in Nat /\ NoClient = 0 /\ Idle = -1
  /\ \A g \in Starts : g \in Nat /\ g # NoClient /\ g # Idle /\ g \notin Callers /\ g \in Goroutines
  /\ \A c \in Callers : c \in Goroutines /\ c \notin Starts
  /\ \A s \in Goroutines : s \in Callers \/ s \in Starts
  /\ Starters \subseteq Callers /\ Operators \subseteq Callers
  BY ConstantsAssumption DEF Starts, Callers, Goroutines, NoClient, Idle

\* Goroutine s is now at the given step, every other where it was.
Moved(s, step) ==
  /\ pc' \in PcType
  /\ \A u \in Goroutines : pc'[u] = IF u = s THEN step ELSE pc[u]

LEMMA CallerMoves ==
  ASSUME pc \in PcType, NEW c \in Callers, NEW step \in CallSteps, Goto(c, step)
  PROVE  Moved(c, step)
<1>1. \A u \in Goroutines : pc'[u] = IF u = c THEN step ELSE pc[u]
  BY SetFacts DEF Goto, PcType
<1>2. pc' \in [Goroutines -> CallSteps \cup LoopSteps]
  BY SetFacts DEF Goto, PcType
<1>3. QED
  BY <1>1, <1>2, SetFacts DEF Moved, PcType

LEMMA LoopMoves ==
  ASSUME pc \in PcType, NEW g \in Starts, NEW step \in LoopSteps, Goto(g, step)
  PROVE  Moved(g, step)
<1>1. \A u \in Goroutines : pc'[u] = IF u = g THEN step ELSE pc[u]
  BY SetFacts DEF Goto, PcType
<1>2. pc' \in [Goroutines -> CallSteps \cup LoopSteps]
  BY SetFacts DEF Goto, PcType
<1>3. QED
  BY <1>1, <1>2, SetFacts DEF Moved, PcType

\* Node n is now in the given state, every other one as it was.
NodeIs(n, v) ==
  /\ node' \in NodeType
  /\ \A m \in Starts : node'[m] = IF m = n THEN v ELSE node[m]

LEMMA NodeChanges ==
  ASSUME node \in NodeType, NEW n \in Starts, NEW v \in {"none", "running", "stopping", "gone"},
         node' = [node EXCEPT ![n] = v]
  PROVE  NodeIs(n, v)
  BY DEF NodeType, NodeIs

(***************************************************************************)
(* Counting relay goroutines                                               *)
(***************************************************************************)
RunningLoops == {g \in Starts : Running(g)}

LEMMA CountFacts ==
  ASSUME NEW S \in SUBSET Starts
  PROVE  /\ IsFiniteSet(S) /\ Cardinality(S) \in 0..MaxStarts
         /\ Cardinality(S) = 0 <=> S = {}
         /\ \A g \in Starts \ S : Cardinality(S \cup {g}) = Cardinality(S) + 1
         /\ \A g \in S : Cardinality(S \ {g}) = Cardinality(S) - 1
<1>1. IsFiniteSet(Starts) /\ Cardinality(Starts) = MaxStarts
  BY SetFacts, FS_Interval DEF Starts
<1>2. IsFiniteSet(S) /\ Cardinality(S) <= MaxStarts
  BY <1>1, FS_Subset
<1>3. Cardinality(S) \in Nat
  BY <1>2, FS_CardinalityType
<1>4. Cardinality(S) = 0 <=> S = {}
  BY <1>2, FS_EmptySet
<1>5. \A g \in Starts \ S : Cardinality(S \cup {g}) = Cardinality(S) + 1
  BY <1>2, FS_AddElement
<1>6. \A g \in S : Cardinality(S \ {g}) = Cardinality(S) - 1
  BY <1>2, FS_RemoveElement
<1>7. QED
  BY <1>2, <1>3, <1>4, <1>5, <1>6, SetFacts

LEMMA CountedOnce ==
  ASSUME StopInv
  PROVE  wg = Cardinality(RunningLoops) /\ (wg = 0 => \A g \in Starts : ~Running(g))
<1>1. wg = Cardinality(RunningLoops)
  BY DEF StopInv, LoopsInv, RunningLoops
<1>2. QED
  BY <1>1, CountFacts DEF RunningLoops

LEMMA SameCount ==
  ASSUME StopInv, \A g \in Starts : Running(g)' <=> Running(g), wg' = wg
  PROVE  wg' = Cardinality({g \in Starts : Running(g)})'
<1>1. {g \in Starts : Running(g)}' = RunningLoops
  BY DEF RunningLoops
<1>2. QED
  BY <1>1, CountedOnce

(***************************************************************************)
(* One stopper at a time                                                   *)
(***************************************************************************)
LEMMA OneStopper ==
  ASSUME StopInv, OneOperator, NEW s \in Goroutines, NEW u \in Goroutines,
         pc[s] \in StopSteps, pc[u] \in StopSteps
  PROVE  s = u
<1> USE SetFacts
<1>1. \A c \in Callers : pc[c] \in StopSteps => c \in Operators
  BY DEF StopInv, CallersInv
<1>2. \A g \in Starts : pc[g] \in StopSteps =>
        /\ g \in cancelled /\ Running(g)
        /\ \E o \in Operators : pc[o] = "waitApp"
  BY DEF StopInv, LoopsInv, StopsOnlyWhenCancelled, Cancelled, Running, StopSteps
<1>3. \A o \in Operators : pc[o] = "waitApp" => pc[o] \notin StopSteps
  BY DEF StopSteps
<1>4. CASE s \in Callers /\ u \in Callers
  BY <1>1, <1>4 DEF OneOperator
<1>5. CASE s \in Starts /\ u \in Starts
  BY <1>2, <1>5 DEF StopInv, LoopsInv
<1>6. CASE \E c \in Callers, g \in Starts : pc[c] \in StopSteps /\ pc[g] \in StopSteps
  BY <1>1, <1>2, <1>3, <1>6 DEF OneOperator
<1>7. QED
  BY <1>4, <1>5, <1>6

(***************************************************************************)
(* What one goroutine's move leaves intact                                 *)
(***************************************************************************)
StartFields == <<appCancelFn, started, cancelled, rootDone, startMutex>>
Fields == <<lnClient, wg, StartFields, node, target>>

\* Handlers, notifiers, the queue, the database and the process are not part of
\* the invariant.
LEMMA QuietStep ==
  ASSUME StopInv, TypeOK', UNCHANGED <<Fields, pc>>
  PROVE  StopInv'
<1>1. CallersInv' /\ StartsInv'
  BY DEF StopInv, CallersInv, StartsInv, Fields, StartFields
<1>2. LoopsInv'
  BY DEF StopInv, LoopsInv, StopsOnlyWhenCancelled, Cancelled, Running, Fields, StartFields
<1>3. NodesInv'
  BY DEF StopInv, NodesInv, HeldNode, LiveNodes, Fields, StartFields
<1>4. QED
  BY <1>1, <1>2, <1>3 DEF StopInv

\* A relay goroutine goes on to another step, or begins to stop the node when it
\* is cancelled.
LEMMA LoopInv ==
  ASSUME StopInv, TypeOK', UNCHANGED Fields, NEW g \in Starts, NEW step,
         Running(g), pc[g] \notin StopSteps, Moved(g, step),
         step \in {"connect", "info", "subscribe", "serve", "retry", "stopCheck"},
         step = "stopCheck" => g \in cancelled
  PROVE  StopInv'
<1> USE SetFacts
<1>1. /\ \A c \in Callers : pc'[c] = pc[c]
      /\ \A k \in Starts : Running(k)' <=> Running(k)
      /\ \A k \in Starts : pc[k] = "none" => k # g
      /\ pc' \in PcType /\ target \in TargetType /\ started \in 0..MaxStarts
  BY Types DEF Moved, Running, StopInv
<1>2. CallersInv'
  BY <1>1 DEF StopInv, CallersInv, Fields, StartFields
<1>3. StartsInv'
  <2>1. \A c \in Callers : pc[c] \in StartSteps => target[c] \in Starts
    BY <1>1 DEF StopInv, StartsInv, Starts
  <2>2. QED
    BY <1>1, <2>1 DEF StopInv, StartsInv, Moved, Fields, StartFields, StartSteps
<1>4. LoopsInv'
  <2>1. StopsOnlyWhenCancelled'
    BY DEF StopInv, LoopsInv, StopsOnlyWhenCancelled, Cancelled, Moved, StopSteps, Fields,
           StartFields
  <2>2. wg' = Cardinality({k \in Starts : Running(k)})'
    BY <1>1, SameCount DEF Fields
  <2>3. cancelled \subseteq Starts
    BY Types DEF StopInv
  <2>4. QED
    BY <1>1, <2>1, <2>2, <2>3 DEF StopInv, LoopsInv, Fields, StartFields
<1>5. NodesInv'
  BY <1>1 DEF StopInv, NodesInv, HeldNode, LiveNodes, Moved, StopSteps, Fields
<1>6. QED
  BY <1>2, <1>3, <1>4, <1>5 DEF StopInv

\* A caller that is neither starting nor in the middle of a Shutdown moves on.
LEMMA CallerInv ==
  ASSUME StopInv, TypeOK', UNCHANGED Fields, NEW c \in Callers, NEW step, Moved(c, step),
         pc[c] \in {"idle", "stopCheck", "stopCall", "waitApp", "archive"},
         step \in {"idle", "stopCheck", "stopCall", "archive"},
         step # "idle" => c \in Operators,
         step = "stopCall" => lnClient # NoClient,
         pc[c] = "waitApp" => \A g \in Starts : ~Running(g)
  PROVE  StopInv'
<1> USE SetFacts
<1>1. /\ \A g \in Starts : pc'[g] = pc[g] /\ (Running(g)' <=> Running(g))
      /\ cancelled \subseteq Starts /\ target \in TargetType /\ started \in 0..MaxStarts
  BY Types DEF Moved, Running, StopInv
<1>2. CallersInv'
  BY DEF StopInv, CallersInv, Moved, StartSteps, StopSteps, Fields, StartFields
<1>3. StartsInv'
  <2>1. \A d \in Callers : pc[d] \in StartSteps => target[d] \in Starts
    BY <1>1 DEF StopInv, StartsInv, Starts
  <2>2. QED
    BY <1>1, <2>1 DEF StopInv, StartsInv, Moved, StartSteps, Fields, StartFields
<1>4. LoopsInv'
  <2>1. StopsOnlyWhenCancelled'
    BY <1>1 DEF StopInv, LoopsInv, StopsOnlyWhenCancelled, Cancelled, Fields, StartFields
  <2>2. wg' = Cardinality({k \in Starts : Running(k)})'
    BY <1>1, SameCount DEF Fields
  <2>3. \A g \in cancelled : Running(g)' => \E o \in Operators : pc'[o] = "waitApp"
    BY <1>1 DEF StopInv, LoopsInv, Moved
  <2>4. QED
    BY <1>1, <2>1, <2>2, <2>3 DEF StopInv, LoopsInv, Fields, StartFields
<1>5. NodesInv'
  BY DEF StopInv, NodesInv, HeldNode, LiveNodes, Moved, Fields
<1>6. QED
  BY <1>2, <1>3, <1>4, <1>5 DEF StopInv

(***************************************************************************)
(* StopLNClient                                                            *)
(***************************************************************************)
\* Within StopLNClient only the nodes change.
LEMMA StopMoves ==
  ASSUME StopInv, UNCHANGED <<wg, StartFields>>, NEW s \in Goroutines, NEW step \in StopSteps,
         pc[s] \in StopSteps, Moved(s, step),
         \A u \in Goroutines : u # s => target'[u] = target[u]
  PROVE  CallersInv' /\ StartsInv' /\ LoopsInv'
<1> USE SetFacts
<1>1. /\ cancelled \subseteq Starts /\ target \in TargetType /\ started \in 0..MaxStarts
      /\ \A g \in Starts : Running(g)' <=> Running(g)
  BY Types DEF Moved, Running, StopInv, StopSteps
<1>2. CallersInv'
  BY DEF StopInv, CallersInv, Moved, StartSteps, StopSteps, StartFields
<1>3. StartsInv'
  <2>1. \A c \in Callers : pc[c] \in StartSteps => target[c] \in Starts
    BY <1>1 DEF StopInv, StartsInv, Starts
  <2>2. \A c \in Callers : pc'[c] \in StartSteps => c # s
    BY DEF Moved, StartSteps, StopSteps
  <2>3. QED
    BY <1>1, <2>1, <2>2 DEF StopInv, StartsInv, Moved, StopSteps, StartSteps, StartFields
<1>4. LoopsInv'
  <2>1. StopsOnlyWhenCancelled'
    BY DEF StopInv, LoopsInv, StopsOnlyWhenCancelled, Cancelled, Moved, StartFields
  <2>2. wg' = Cardinality({k \in Starts : Running(k)})'
    BY <1>1, SameCount
  <2>3. \A g \in cancelled : Running(g)' => \E o \in Operators : pc'[o] = "waitApp"
    BY <1>1 DEF StopInv, LoopsInv, Moved, StopSteps
  <2>4. QED
    BY <1>1, <2>1, <2>2, <2>3 DEF StopInv, LoopsInv, StartFields
<1>5. QED
  BY <1>2, <1>3, <1>4

\* The end of StopLNClient: a caller is idle again, a relay goroutine has ended and
\* left the wait group.
LEMMA LeaveMoves ==
  ASSUME StopInv, UNCHANGED <<StartFields, target>>, NEW s \in Goroutines,
         pc[s] \in StopSteps, Leave(s)
  PROVE  /\ Moved(s, AfterStop(s)) /\ AfterStop(s) \in {"idle", "done"}
         /\ wg' \in 0..MaxStarts
         /\ CallersInv' /\ StartsInv' /\ LoopsInv'
<1> USE SetFacts
<1>1. pc \in PcType /\ cancelled \subseteq Starts /\ target \in TargetType /\ started \in 0..MaxStarts
      /\ wg \in 0..MaxStarts
  BY Types DEF StopInv
<1>2. Moved(s, AfterStop(s)) /\ AfterStop(s) \in {"idle", "done"}
  BY <1>1, CallerMoves, LoopMoves DEF Leave, AfterStop, CallSteps, LoopSteps
<1>3. CallersInv'
  BY <1>2 DEF StopInv, CallersInv, Moved, StartSteps, StopSteps, StartFields
<1>4. StartsInv'
  <2>1. \A c \in Callers : pc[c] \in StartSteps => target[c] \in Starts
    BY <1>1 DEF StopInv, StartsInv, Starts
  <2>2. QED
    BY <1>1, <1>2, <2>1 DEF StopInv, StartsInv, Moved, StartSteps, StopSteps, StartFields
<1>5. StopsOnlyWhenCancelled'
  BY <1>2 DEF StopInv, LoopsInv, StopsOnlyWhenCancelled, Cancelled, Moved, AfterStop, StartFields
<1>6. /\ \A g \in cancelled : Running(g)' => Running(g)
      /\ \A o \in Operators : pc[o] = "waitApp" => pc'[o] = "waitApp"
  BY <1>1, <1>2 DEF Moved, Running, AfterStop, StopSteps
<1>7. wg' = Cardinality({g \in Starts : Running(g)})' /\ wg' \in 0..MaxStarts
  <2>1. CASE s \in Callers
    <3>1. wg' = wg /\ \A g \in Starts : Running(g)' <=> Running(g)
      BY <1>2, <2>1 DEF Leave, Moved, Running
    <3>2. QED
      BY <1>1, <3>1, SameCount
  <2>2. CASE s \in Starts
    <3>1. wg' = wg - 1
      BY <2>2 DEF Leave
    <3>2. s \in RunningLoops /\ {g \in Starts : Running(g)}' = RunningLoops \ {s}
      BY <1>2, <2>2 DEF Moved, Running, RunningLoops, AfterStop, StopSteps
    <3>3. RunningLoops \in SUBSET Starts /\ RunningLoops \ {s} \in SUBSET Starts
      BY DEF RunningLoops
    <3>4. /\ Cardinality(RunningLoops \ {s}) = Cardinality(RunningLoops) - 1
          /\ Cardinality(RunningLoops \ {s}) \in 0..MaxStarts
      BY <3>2, <3>3, CountFacts
    <3>5. QED
      BY <3>1, <3>2, <3>4, CountedOnce
  <2>3. QED
    BY <2>1, <2>2
<1>8. LoopsInv'
  BY <1>5, <1>6, <1>7 DEF StopInv, LoopsInv, StartFields
<1>9. QED
  BY <1>2, <1>3, <1>4, <1>7, <1>8

\* The facts of the invariant about a goroutine that is stopping the node.
LEMMA StopFacts ==
  ASSUME StopInv, OneOperator, NEW s \in Goroutines, pc[s] \in StopSteps
  PROVE  /\ \A u \in Goroutines : u # s => pc[u] \notin StopSteps
         /\ NodesInv /\ HeldNode
         /\ pc \in PcType /\ node \in NodeType /\ target \in TargetType
         /\ lnClient \in Starts \cup {NoClient}
  BY OneStopper, Types DEF StopInv, NodesInv

LEMMA FindClientStep ==
  ASSUME StopInv, OneOperator, NEW s \in Goroutines, FindClient(s)
  PROVE  StopInv'
<1> USE SetFacts
<1>1. /\ TypeOK /\ NodesInv /\ pc \in PcType /\ pc[s] = "stopCheck" /\ pc[s] \in StopSteps
      /\ UNCHANGED <<lnClient, StartFields, clients, setup, process, node, target>>
  BY Types DEF StopInv, FindClient, StopSteps, contexts, StartFields
<1>2. CASE lnClient # NoClient /\ Goto(s, "stopCall") /\ wg' = wg
  <2>1. Moved(s, "stopCall")
    BY <1>1, <1>2, CallerMoves, LoopMoves DEF CallSteps, LoopSteps, StopSteps
  <2>2. CallersInv' /\ StartsInv' /\ LoopsInv'
    BY <1>1, <1>2, <2>1, StopMoves DEF StopSteps
  <2>3. NodesInv'
    BY <1>1, <1>2, <2>1 DEF NodesInv, HeldNode, LiveNodes, Moved
  <2>4. TypeOK'
    BY <1>1, <1>2, <2>1, Types, TypesNext DEF Moved, clients, setup, StartFields
  <2>5. QED
    BY <2>2, <2>3, <2>4 DEF StopInv
<1>3. CASE lnClient = NoClient /\ Leave(s)
  <2>1. /\ Moved(s, AfterStop(s)) /\ AfterStop(s) \in {"idle", "done"} /\ wg' \in 0..MaxStarts
        /\ CallersInv' /\ StartsInv' /\ LoopsInv'
    BY <1>1, <1>3, LeaveMoves
  <2>2. NodesInv'
    BY <1>1, <1>3, <2>1 DEF NodesInv, HeldNode, LiveNodes, Moved
  <2>3. TypeOK'
    BY <1>1, <1>3, <2>1, Types, TypesNext DEF Moved, clients, setup, StartFields
  <2>4. QED
    BY <2>1, <2>2, <2>3 DEF StopInv
<1>4. QED
  BY <1>2, <1>3 DEF FindClient

LEMMA CallShutdownStep ==
  ASSUME StopInv, OneOperator, NEW s \in Goroutines, CallShutdown(s)
  PROVE  StopInv'
<1> USE SetFacts
<1>1. /\ TypeOK /\ NodesInv /\ HeldNode /\ pc \in PcType /\ node \in NodeType
      /\ target \in TargetType
      /\ pc[s] = "stopCall" /\ pc[s] \in StopSteps /\ lnClient \in Starts
      /\ UNCHANGED <<lnClient, StartFields, clients, setup, process>>
      /\ \A u \in Goroutines : u # s => pc[u] \notin StopSteps
      /\ node[lnClient] = "running"
  <2>1. pc[s] = "stopCall" /\ pc[s] \in StopSteps /\ lnClient # NoClient
    BY DEF CallShutdown, StopSteps
  <2>2. \A u \in Goroutines : pc[u] \notin {"stopWait", "stopClear"}
    BY <2>1, StopFacts DEF StopSteps
  <2>3. QED
    BY <2>1, <2>2, StopFacts DEF StopInv, CallShutdown, NodesInv, contexts, StartFields
<1>2. CASE /\ wg' = wg /\ target' = [target EXCEPT ![s] = lnClient]
           /\ node' = [node EXCEPT ![lnClient] = "stopping"]
           /\ Goto(s, "stopWait")
  <2>1. Moved(s, "stopWait") /\ NodeIs(lnClient, "stopping")
    BY <1>1, <1>2, CallerMoves, LoopMoves, NodeChanges DEF CallSteps, LoopSteps, StopSteps
  <2>2. target' \in TargetType /\ target'[s] = lnClient
        /\ \A u \in Goroutines : u # s => target'[u] = target[u]
    BY <1>1, <1>2 DEF TargetType
  <2>3. CallersInv' /\ StartsInv' /\ LoopsInv'
    BY <1>1, <1>2, <2>1, <2>2, StopMoves DEF StopSteps
  <2>4. NodesInv'
    <3>1. HeldNode'
      BY <1>1, <2>1, <2>2 DEF HeldNode, LiveNodes, Moved, NodeIs
    <3>2. \A c \in Callers : pc'[c] # "launch"
      BY <1>1, <2>1 DEF NodesInv, Moved
    <3>3. \A u \in Goroutines : u # s => pc'[u] \notin StopSteps
      BY <1>1, <2>1 DEF Moved
    <3>4. pc'[s] = "stopWait" /\ node'[lnClient] = "stopping"
      BY <1>1, <2>1 DEF Moved, NodeIs
    <3>5. QED
      BY <1>1, <2>2, <3>1, <3>2, <3>3, <3>4 DEF NodesInv, StopSteps
  <2>5. TypeOK'
    BY <1>1, <1>2, <2>1, <2>2, Types, TypesNext DEF Moved, NodeIs, clients, setup, StartFields
  <2>6. QED
    BY <2>3, <2>4, <2>5 DEF StopInv
<1>3. CASE /\ wg' = wg /\ target' = target
           /\ node' = [node EXCEPT ![lnClient] = "gone"] /\ Goto(s, "stopClear")
  <2>1. Moved(s, "stopClear") /\ NodeIs(lnClient, "gone")
    BY <1>1, <1>3, CallerMoves, LoopMoves, NodeChanges DEF CallSteps, LoopSteps, StopSteps
  <2>2. CallersInv' /\ StartsInv' /\ LoopsInv'
    BY <1>1, <1>3, <2>1, StopMoves DEF StopSteps
  <2>3. NodesInv'
    <3>1. HeldNode'
      BY <1>1, <1>3, <2>1 DEF HeldNode, LiveNodes, Moved, NodeIs
    <3>2. \A c \in Callers : pc'[c] # "launch"
      BY <1>1, <2>1 DEF NodesInv, Moved
    <3>3. \A u \in Goroutines : u # s => pc'[u] \notin StopSteps
      BY <1>1, <2>1 DEF Moved
    <3>4. pc'[s] = "stopClear" /\ node'[lnClient] = "gone"
      BY <1>1, <2>1 DEF Moved, NodeIs
    <3>5. QED
      BY <1>1, <3>1, <3>2, <3>3, <3>4 DEF NodesInv, StopSteps
  <2>4. TypeOK'
    BY <1>1, <1>3, <2>1, Types, TypesNext DEF Moved, NodeIs, clients, setup, StartFields
  <2>5. QED
    BY <2>2, <2>3, <2>4 DEF StopInv
<1>4. CASE Leave(s) /\ node' = node /\ target' = target
  <2>1. /\ Moved(s, AfterStop(s)) /\ AfterStop(s) \in {"idle", "done"} /\ wg' \in 0..MaxStarts
        /\ CallersInv' /\ StartsInv' /\ LoopsInv'
    BY <1>1, <1>4, LeaveMoves
  <2>2. NodesInv'
    BY <1>1, <1>4, <2>1 DEF NodesInv, HeldNode, LiveNodes, Moved
  <2>3. TypeOK'
    BY <1>1, <1>4, <2>1, Types, TypesNext DEF Moved, clients, setup, StartFields
  <2>4. QED
    BY <2>1, <2>2, <2>3 DEF StopInv
<1>5. QED
  BY <1>1, <1>2, <1>3, <1>4 DEF CallShutdown, ShutdownLdk, ShutdownOther

LEMMA NodeStoppedStep ==
  ASSUME StopInv, OneOperator, NEW s \in Goroutines, NodeStopped(s)
  PROVE  StopInv'
<1> USE SetFacts
<1>1. /\ TypeOK /\ NodesInv /\ HeldNode /\ pc \in PcType /\ node \in NodeType
      /\ pc[s] = "stopWait" /\ pc[s] \in StopSteps /\ lnClient \in Starts /\ lnClient = target[s]
      /\ UNCHANGED <<lnClient, wg, StartFields, clients, setup, process, target>>
      /\ \A u \in Goroutines : u # s => pc[u] \notin StopSteps
  <2>1. pc[s] = "stopWait" /\ pc[s] \in StopSteps
    BY DEF NodeStopped, StopSteps
  <2>2. QED
    BY <2>1, StopFacts DEF StopInv, NodesInv, NodeStopped, contexts, service, StartFields
<1>2. Moved(s, "stopClear") /\ NodeIs(lnClient, "gone")
  BY <1>1, CallerMoves, LoopMoves, NodeChanges DEF NodeStopped, CallSteps, LoopSteps, StopSteps
<1>3. CallersInv' /\ StartsInv' /\ LoopsInv'
  BY <1>1, <1>2, StopMoves DEF StopSteps
<1>4. NodesInv'
  <2>1. HeldNode'
    BY <1>1, <1>2 DEF HeldNode, LiveNodes, Moved, NodeIs
  <2>2. \A c \in Callers : pc'[c] # "launch"
    BY <1>1, <1>2 DEF NodesInv, Moved
  <2>3. \A u \in Goroutines : u # s => pc'[u] \notin StopSteps
    BY <1>1, <1>2 DEF Moved
  <2>4. pc'[s] = "stopClear" /\ node'[lnClient] = "gone"
    BY <1>1, <1>2 DEF Moved, NodeIs
  <2>5. QED
    BY <1>1, <2>1, <2>2, <2>3, <2>4 DEF NodesInv, StopSteps
<1>5. TypeOK'
  BY <1>1, <1>2, Types, TypesNext DEF Moved, NodeIs, clients, setup, StartFields
<1>6. QED
  BY <1>3, <1>4, <1>5 DEF StopInv

LEMMA ClearClientStep ==
  ASSUME StopInv, OneOperator, NEW s \in Goroutines, ClearClient(s)
  PROVE  StopInv'
<1> USE SetFacts
<1>1. /\ TypeOK /\ NodesInv /\ HeldNode
      /\ pc[s] = "stopClear" /\ pc[s] \in StopSteps /\ lnClient \in Starts /\ node[lnClient] = "gone"
      /\ lnClient' = NoClient /\ Leave(s)
      /\ UNCHANGED <<StartFields, clients, setup, process, node, target>>
      /\ \A u \in Goroutines : u # s => pc[u] \notin StopSteps
  <2>1. pc[s] = "stopClear" /\ pc[s] \in StopSteps
    BY DEF ClearClient, StopSteps
  <2>2. QED
    BY <2>1, StopFacts DEF StopInv, NodesInv, ClearClient, contexts, StartFields
<1>2. /\ Moved(s, AfterStop(s)) /\ AfterStop(s) \in {"idle", "done"} /\ wg' \in 0..MaxStarts
      /\ CallersInv' /\ StartsInv' /\ LoopsInv'
  BY <1>1, LeaveMoves
<1>3. NodesInv'
  <2>1. \A u \in Goroutines : pc'[u] \notin StopSteps
    BY <1>1, <1>2 DEF Moved, StopSteps
  <2>2. HeldNode' /\ \A c \in Callers : pc'[c] # "launch"
    BY <1>1, <1>2 DEF HeldNode, LiveNodes, NodesInv, Moved
  <2>3. QED
    BY <1>1, <2>1, <2>2 DEF NodesInv, StopSteps
<1>4. TypeOK'
  BY <1>1, <1>2, Types, TypesNext DEF Moved, clients, setup, StartFields
<1>5. QED
  BY <1>2, <1>3, <1>4 DEF StopInv

(***************************************************************************)
(* Starting                                                                *)
(***************************************************************************)
LEMMA BeginStartStep ==
  ASSUME StopInv, NEW c \in Starters, BeginStart(c)
  PROVE  StopInv'
<1> USE SetFacts
<1> DEFINE n == started + 1
<1>1. /\ TypeOK /\ NodesInv /\ HeldNode /\ pc \in PcType /\ node \in NodeType
      /\ target \in TargetType /\ started \in 0..MaxStarts
      /\ c \in Callers /\ pc[c] = "idle" /\ ~startMutex /\ lnClient = NoClient
      /\ startMutex' = TRUE /\ started' = n
      /\ UNCHANGED <<service, clients, cancelled, rootDone, setup, process>>
  BY Types DEF StopInv, NodesInv, BeginStart, StartAllowed
<1>2. n \in Starts /\ n \in 1..started' /\ started' \in 0..MaxStarts
  BY <1>1 DEF BeginStart, Starts
<1>3. Moved(c, "launch") /\ NodeIs(n, "running")
  BY <1>1, <1>2, CallerMoves, NodeChanges DEF BeginStart, CallSteps
<1>4. /\ target' \in TargetType /\ target'[c] = n
      /\ \A u \in Goroutines : u # c => target'[u] = target[u]
  BY <1>1, <1>2 DEF BeginStart, TargetType
<1>5. \A d \in Callers : pc[d] \notin StartSteps
  BY <1>1 DEF StopInv, CallersInv
<1>6. CallersInv'
  BY <1>1, <1>3, <1>5 DEF StopInv, CallersInv, Moved, StartSteps, StopSteps
<1>7. StartsInv'
  <2>1. \A d \in Callers : pc'[d] \in StartSteps => d = c
    BY <1>3, <1>5 DEF Moved
  <2>2. pc[n] = "none" /\ n \notin cancelled /\ appCancelFn # n /\ pc'[n] = "none"
    BY <1>1, <1>2, <1>3 DEF StopInv, StartsInv, Moved
  <2>3. \A m \in Starts : m > started' => pc'[m] = "none" /\ m \notin cancelled /\ appCancelFn # m
    BY <1>1, <1>3 DEF StopInv, StartsInv, Moved, Starts
  <2>4. QED
    BY <1>1, <1>2, <1>4, <2>1, <2>2, <2>3 DEF StartsInv, StartSteps, service
<1>8. LoopsInv'
  <2>1. /\ \A g \in Starts : pc'[g] = pc[g] /\ (Running(g)' <=> Running(g))
        /\ \A o \in Operators : pc[o] = "waitApp" => pc'[o] = "waitApp"
    BY <1>1, <1>3 DEF Moved, Running
  <2>2. wg' = Cardinality({g \in Starts : Running(g)})'
    BY <1>1, <2>1, SameCount DEF service
  <2>3. StopsOnlyWhenCancelled' /\ cancelled \subseteq Starts
    BY <1>1, <2>1, Types DEF StopInv, LoopsInv, StopsOnlyWhenCancelled, Cancelled
  <2>4. QED
    BY <1>1, <2>1, <2>2, <2>3 DEF StopInv, LoopsInv, service
<1>9. NodesInv'
  <2>1. lnClient' = NoClient /\ \A u \in Goroutines : u # c => pc'[u] = pc[u]
    BY <1>1, <1>3 DEF Moved, service
  <2>2. \A u \in Goroutines : pc'[u] \notin {"stopCall", "stopWait", "stopClear"}
    BY <1>1, <1>3 DEF NodesInv, Moved
  <2>3. \A d \in Callers : pc'[d] = "launch" => d = c
    BY <1>3, <1>5 DEF Moved, StartSteps
  <2>4. LiveNodes = {}
    BY <1>1, <1>5 DEF HeldNode, LiveNodes, StartSteps
  <2>5. HeldNode'
    BY <1>1, <1>2, <1>3, <1>4, <2>4 DEF HeldNode, LiveNodes, NodeIs, Moved
  <2>6. node'[n] = "running"
    BY <1>2, <1>3 DEF NodeIs
  <2>7. QED
    BY <1>4, <2>1, <2>2, <2>3, <2>5, <2>6 DEF NodesInv
<1>10. TypeOK'
  BY <1>1, <1>2, <1>3, <1>4, Types, TypesNext DEF Moved, NodeIs, service, clients, setup
<1>11. QED
  BY <1>6, <1>7, <1>8, <1>9, <1>10 DEF StopInv

\* The caller that has a start in progress is the only one, and holds the mutex.
LEMMA StarterFacts ==
  ASSUME StopInv, NEW c \in Callers, pc[c] \in StartSteps
  PROVE  /\ TypeOK /\ NodesInv /\ HeldNode /\ pc \in PcType /\ node \in NodeType
         /\ target \in TargetType /\ cancelled \in SUBSET Starts /\ started \in 0..MaxStarts
         /\ c \in Goroutines /\ c \notin Starts /\ target[c] \in Starts /\ target[c] \in 1..started
         /\ \A d \in Callers : d # c => pc[d] \notin StartSteps
<1>1. target[c] \in 1..started /\ \A d \in Callers : d # c => pc[d] \notin StartSteps
  BY DEF StopInv, CallersInv, StartsInv
<1>2. QED
  BY <1>1, SetFacts, Types DEF StopInv, NodesInv, Starts

\* Ending a start, or going on with it, with the relay goroutines as they were.
LEMMA StarterMoves ==
  ASSUME StopInv, UNCHANGED <<wg, rootDone, started, target>>, cancelled' \in SUBSET Starts,
         NEW c \in Callers, pc[c] \in StartSteps, NEW step \in {"idle", "nostr"}, Moved(c, step),
         step = "nostr" => pc[c] = "launch" /\ UNCHANGED <<startMutex, cancelled, appCancelFn>>,
         cancelled' \in {cancelled, cancelled \cup {target[c]}},
         cancelled' # cancelled => pc[target[c]] = "none",
         appCancelFn' \in {appCancelFn, target[c]}
  PROVE  CallersInv' /\ StartsInv' /\ LoopsInv'
<1> USE SetFacts
<1>1. /\ TypeOK /\ target[c] \in Starts /\ target[c] \in 1..started /\ started \in 0..MaxStarts
      /\ cancelled \in SUBSET Starts
      /\ \A d \in Callers : d # c => pc[d] \notin StartSteps
      /\ \A g \in Starts : pc'[g] = pc[g] /\ (Running(g)' <=> Running(g))
  BY StarterFacts DEF Moved, Running
<1>2. CallersInv'
  BY <1>1 DEF StopInv, CallersInv, Moved, StartSteps, StopSteps
<1>3. StartsInv'
  <2>1. \A d \in Callers : pc'[d] \in StartSteps => d = c /\ step = "nostr"
    BY <1>1 DEF Moved, StartSteps
  <2>2. \A m \in Starts : m > started => m # target[c]
    BY <1>1 DEF Starts
  <2>3. \A m \in Starts : m > started => pc'[m] = "none" /\ m \notin cancelled' /\ appCancelFn' # m
    BY <1>1, <2>2 DEF StopInv, StartsInv
  <2>4. step = "nostr" => /\ pc'[target[c]] = "none" /\ target[c] \notin cancelled'
                          /\ appCancelFn' # target[c]
    BY <1>1 DEF StopInv, StartsInv
  <2>5. QED
    BY <1>1, <2>1, <2>3, <2>4 DEF StartsInv, StartSteps
<1>4. LoopsInv'
  <2>1. wg' = Cardinality({g \in Starts : Running(g)})'
    BY <1>1, SameCount
  <2>2. StopsOnlyWhenCancelled'
    BY <1>1 DEF StopInv, LoopsInv, StopsOnlyWhenCancelled, Cancelled
  <2>3. \A g \in cancelled' : Running(g)' => g \in cancelled /\ Running(g)
    BY <1>1 DEF Running
  <2>4. \A o \in Operators : pc[o] = "waitApp" => pc'[o] = "waitApp"
    BY DEF Moved, StartSteps
  <2>5. QED
    BY <2>1, <2>2, <2>3, <2>4 DEF StopInv, LoopsInv
<1>5. QED
  BY <1>2, <1>3, <1>4

LEMMA LaunchFailsStep ==
  ASSUME StopInv, NEW c \in Starters, LaunchFails(c)
  PROVE  StopInv'
<1> USE SetFacts
<1>1. /\ c \in Callers /\ pc[c] = "launch" /\ pc[c] \in StartSteps
      /\ UNCHANGED <<service, clients, started, rootDone, setup, process, target>>
      /\ cancelled' = cancelled \cup {target[c]} /\ startMutex' = FALSE
  BY DEF LaunchFails, StartSteps
<1>2. /\ TypeOK /\ NodesInv /\ HeldNode /\ pc \in PcType /\ node \in NodeType
      /\ target[c] \in Starts /\ cancelled \in SUBSET Starts
      /\ \A d \in Callers : d # c => pc[d] \notin StartSteps
      /\ pc[target[c]] = "none" /\ lnClient = NoClient
  BY <1>1, StarterFacts DEF StopInv, StartsInv, NodesInv
<1>3. Moved(c, "idle") /\ NodeIs(target[c], "gone")
  BY <1>1, <1>2, CallerMoves, NodeChanges DEF LaunchFails, CallSteps
<1>4. CallersInv' /\ StartsInv' /\ LoopsInv'
  BY <1>1, <1>2, <1>3, StarterMoves DEF service
<1>5. NodesInv'
  <2>1. \A u \in Goroutines : pc'[u] \notin {"launch", "stopCall", "stopWait", "stopClear"}
    <3>1. \A u \in Goroutines : pc[u] \notin {"stopCall", "stopWait", "stopClear"}
      BY <1>2 DEF NodesInv
    <3>2. \A g \in Starts : pc[g] # "launch"
      BY <1>2 DEF PcType, LoopSteps, StopSteps
    <3>3. QED
      BY <1>2, <1>3, <3>1, <3>2 DEF Moved, StartSteps
  <2>2. HeldNode'
    BY <1>1, <1>2, <1>3 DEF HeldNode, LiveNodes, NodeIs, Moved, StartSteps, service
  <2>3. QED
    BY <1>1, <1>2, <2>1, <2>2 DEF NodesInv, service
<1>6. TypeOK'
  BY <1>1, <1>2, <1>3, Types, TypesNext DEF Moved, NodeIs, service, clients, setup
<1>7. QED
  BY <1>4, <1>5, <1>6 DEF StopInv

LEMMA LaunchSucceedsStep ==
  ASSUME StopInv, NEW c \in Starters, LaunchSucceeds(c)
  PROVE  StopInv'
<1> USE SetFacts
<1>1. /\ c \in Callers /\ pc[c] = "launch" /\ pc[c] \in StartSteps /\ lnClient' = target[c]
      /\ UNCHANGED <<appCancelFn, wg, contexts, clients, setup, process, node, target>>
  BY DEF LaunchSucceeds, StartSteps
<1>2. /\ TypeOK /\ NodesInv /\ HeldNode /\ pc \in PcType
      /\ target[c] \in Starts /\ cancelled \in SUBSET Starts
      /\ \A d \in Callers : d # c => pc[d] \notin StartSteps
      /\ lnClient = NoClient /\ node[target[c]] = "running"
  BY <1>1, StarterFacts DEF NodesInv
<1>3. Moved(c, "nostr")
  BY <1>1, <1>2, CallerMoves DEF LaunchSucceeds, CallSteps
<1>4. CallersInv' /\ StartsInv' /\ LoopsInv'
  BY <1>1, <1>2, <1>3, StarterMoves DEF contexts
<1>5. NodesInv'
  <2>1. \A u \in Goroutines : pc'[u] \notin {"stopCall", "stopWait", "stopClear"}
    BY <1>2, <1>3 DEF NodesInv, Moved
  <2>2. \A d \in Callers : pc'[d] # "launch"
    BY <1>2, <1>3 DEF Moved, StartSteps
  <2>3. HeldNode'
    BY <1>1, <1>2, <1>3 DEF HeldNode, LiveNodes, Moved, StartSteps
  <2>4. QED
    BY <1>1, <1>2, <2>1, <2>2, <2>3 DEF NodesInv
<1>6. TypeOK'
  BY <1>1, <1>2, <1>3, Types, TypesNext DEF Moved, contexts, clients, setup
<1>7. QED
  BY <1>4, <1>5, <1>6 DEF StopInv

LEMMA RegisterCancelStep ==
  ASSUME StopInv, NEW c \in Starters, RegisterCancel(c)
  PROVE  StopInv'
<1> USE SetFacts
<1>1. /\ c \in Callers /\ pc[c] = "register" /\ pc[c] \in StartSteps /\ appCancelFn' = target[c]
      /\ startMutex' = FALSE
      /\ UNCHANGED <<lnClient, wg, clients, started, cancelled, rootDone, setup, process, node, target>>
  BY DEF RegisterCancel, StartSteps
<1>2. /\ TypeOK /\ NodesInv /\ HeldNode /\ pc \in PcType
      /\ target[c] \in Starts /\ cancelled \in SUBSET Starts
  BY <1>1, StarterFacts
<1>3. Moved(c, "idle")
  BY <1>1, <1>2, CallerMoves DEF RegisterCancel, CallSteps
<1>4. CallersInv' /\ StartsInv' /\ LoopsInv'
  BY <1>1, <1>2, <1>3, StarterMoves
<1>5. NodesInv'
  BY <1>1, <1>2, <1>3 DEF NodesInv, HeldNode, LiveNodes, Moved
<1>6. TypeOK'
  BY <1>1, <1>2, <1>3, Types, TypesNext DEF Moved, clients, setup
<1>7. QED
  BY <1>4, <1>5, <1>6 DEF StopInv

LEMMA StartNostrStep ==
  ASSUME StopInv, NEW c \in Starters, StartNostr(c)
  PROVE  StopInv'
<1> USE SetFacts
<1> DEFINE n == target[c]
<1>1. /\ c \in Callers /\ pc[c] = "nostr" /\ pc[c] \in StartSteps /\ wg' = wg + 1
      /\ UNCHANGED <<lnClient, appCancelFn, contexts, clients, setup, process, node, target>>
  BY DEF StartNostr, StartSteps
<1>2. /\ TypeOK /\ NodesInv /\ HeldNode /\ pc \in PcType
      /\ n \in Starts /\ n \in 1..started /\ started \in 0..MaxStarts /\ cancelled \in SUBSET Starts
      /\ \A d \in Callers : d # c => pc[d] \notin StartSteps
      /\ pc[n] = "none" /\ n \notin cancelled
  BY <1>1, StarterFacts DEF StopInv, StartsInv
<1>3. /\ pc' \in PcType /\ c # n
      /\ \A u \in Goroutines : pc'[u] = IF u = n THEN "connect" ELSE
                                        IF u = c THEN "register" ELSE pc[u]
  <2>1. \A u \in Goroutines : pc'[u] = IF u = n THEN "connect" ELSE
                                       IF u = c THEN "register" ELSE pc[u]
    BY <1>2 DEF StartNostr, PcType
  <2>2. pc' \in [Goroutines -> CallSteps \cup LoopSteps]
    BY <1>2 DEF StartNostr, PcType, CallSteps, LoopSteps
  <2>3. QED
    BY <1>2, <2>1, <2>2 DEF PcType, CallSteps, LoopSteps
<1>4. CallersInv'
  BY <1>1, <1>2, <1>3 DEF StopInv, CallersInv, StartSteps, StopSteps, contexts
<1>5. StartsInv'
  <2>1. \A d \in Callers : pc'[d] \in StartSteps => d = c
    BY <1>2, <1>3
  <2>2. \A m \in Starts : m > started => m # n
    BY <1>2 DEF Starts
  <2>3. QED
    BY <1>1, <1>2, <1>3, <2>1, <2>2 DEF StopInv, StartsInv, StartSteps, contexts
<1>6. wg' = Cardinality({g \in Starts : Running(g)})' /\ wg' \in 0..MaxStarts
  <2>1. n \in Starts \ RunningLoops /\ {g \in Starts : Running(g)}' = RunningLoops \cup {n}
    BY <1>2, <1>3 DEF RunningLoops, Running
  <2>2. RunningLoops \in SUBSET Starts /\ RunningLoops \cup {n} \in SUBSET Starts
    BY <1>2 DEF RunningLoops
  <2>3. /\ Cardinality(RunningLoops \cup {n}) = Cardinality(RunningLoops) + 1
        /\ Cardinality(RunningLoops \cup {n}) \in 0..MaxStarts
    BY <2>1, <2>2, CountFacts
  <2>4. QED
    BY <1>1, <2>1, <2>3, CountedOnce
<1>7. LoopsInv'
  <2>1. StopsOnlyWhenCancelled'
    BY <1>1, <1>2, <1>3 DEF StopInv, LoopsInv, StopsOnlyWhenCancelled, Cancelled, StopSteps, contexts
  <2>2. \A g \in cancelled : Running(g)' <=> Running(g)
    BY <1>2, <1>3 DEF Running
  <2>3. \A o \in Operators : pc[o] = "waitApp" => pc'[o] = "waitApp"
    BY <1>1, <1>2, <1>3
  <2>4. QED
    BY <1>1, <1>6, <2>1, <2>2, <2>3 DEF StopInv, LoopsInv, contexts
<1>8. NodesInv'
  <2>1. \A d \in Callers : pc'[d] # "launch" /\ pc[d] # "launch"
    BY <1>1, <1>2, <1>3 DEF StartSteps
  <2>2. \A u \in Goroutines : \A step \in {"stopCall", "stopWait", "stopClear"} :
          pc'[u] = step <=> pc[u] = step
    BY <1>1, <1>2, <1>3
  <2>3. HeldNode'
    BY <1>1, <1>2, <2>1 DEF HeldNode, LiveNodes
  <2>4. QED
    BY <1>1, <1>2, <2>1, <2>2, <2>3 DEF NodesInv
<1>9. TypeOK'
  BY <1>1, <1>2, <1>3, <1>6, Types, TypesNext DEF contexts, clients, setup
<1>10. QED
  BY <1>4, <1>5, <1>7, <1>8, <1>9 DEF StopInv

(***************************************************************************)
(* The other calls of the API                                              *)
(***************************************************************************)
\* Type correctness of a step that only moves a goroutine.
LEMMA MoveKeepsTypes ==
  ASSUME StopInv, NEW s, NEW step, Moved(s, step),
         UNCHANGED <<service, contexts, clients, backend, process, node, target>>,
         dbOpen' \in BOOLEAN
  PROVE  TypeOK' /\ UNCHANGED Fields
  BY Types, TypesNext DEF StopInv, Moved, service, contexts, clients, Fields, StartFields

LEMMA BeginStopStep ==
  ASSUME StopInv, NEW c \in Operators, BeginStop(c)
  PROVE  StopInv'
<1> USE SetFacts
<1>1. /\ c \in Callers /\ pc \in PcType /\ pc[c] = "idle" /\ Goto(c, "stopCheck") /\ dbOpen \in BOOLEAN
      /\ UNCHANGED <<service, contexts, clients, setup, process, node, target>>
  BY Types DEF StopInv, BeginStop
<1>2. Moved(c, "stopCheck")
  BY <1>1, CallerMoves DEF CallSteps, StopSteps
<1>3. TypeOK' /\ UNCHANGED Fields
  BY <1>1, <1>2, MoveKeepsTypes DEF setup
<1>4. QED
  BY <1>1, <1>2, <1>3, CallerInv

LEMMA AppStoppedStep ==
  ASSUME StopInv, NEW c \in Operators, AppStopped(c)
  PROVE  StopInv'
<1> USE SetFacts
<1>1. /\ c \in Callers /\ pc \in PcType /\ pc[c] = "waitApp" /\ Goto(c, "archive") /\ dbOpen \in BOOLEAN
      /\ wg = 0
      /\ UNCHANGED <<service, contexts, clients, setup, process, node, target>>
  BY Types DEF StopInv, AppStopped
<1>2. Moved(c, "archive")
  BY <1>1, CallerMoves DEF CallSteps
<1>3. TypeOK' /\ UNCHANGED Fields
  BY <1>1, <1>2, MoveKeepsTypes DEF setup
<1>4. \A g \in Starts : ~Running(g)
  BY <1>1, CountedOnce
<1>5. QED
  BY <1>1, <1>2, <1>3, <1>4, CallerInv

LEMMA ArchiveStep ==
  ASSUME StopInv, NEW c \in Operators, Archive(c)
  PROVE  StopInv'
<1> USE SetFacts
<1>1. /\ c \in Callers /\ pc \in PcType /\ pc[c] = "archive" /\ Goto(c, "idle") /\ dbOpen' \in BOOLEAN
      /\ UNCHANGED <<service, contexts, clients, backend, process, node, target>>
  BY Types DEF StopInv, Archive
<1>2. Moved(c, "idle")
  BY <1>1, CallerMoves DEF CallSteps
<1>3. TypeOK' /\ UNCHANGED Fields
  BY <1>1, <1>2, MoveKeepsTypes
<1>4. QED
  BY <1>1, <1>2, <1>3, CallerInv

LEMMA BeginBackupStep ==
  ASSUME StopInv, OneOperator, NEW c \in Operators, BeginBackup(c)
  PROVE  StopInv'
<1> USE SetFacts
<1>1. /\ TypeOK /\ c \in Callers /\ pc \in PcType /\ pc[c] = "idle" /\ dbOpen \in BOOLEAN
      /\ target \in TargetType /\ started \in 0..MaxStarts /\ cancelled \in SUBSET Starts
      /\ appCancelFn \in Starts \cup {NoClient}
      /\ UNCHANGED <<service, started, rootDone, startMutex, clients, setup, process, node, target>>
  BY Types DEF StopInv, BeginBackup
<1>2. CASE Goto(c, "archive") /\ cancelled' = cancelled
  <2>1. Moved(c, "archive")
    BY <1>1, <1>2, CallerMoves DEF CallSteps
  <2>2. TypeOK' /\ UNCHANGED Fields
    BY <1>1, <1>2, <2>1, MoveKeepsTypes DEF setup, contexts
  <2>3. QED
    BY <1>1, <2>1, <2>2, CallerInv
<1>3. CASE /\ appCancelFn # NoClient /\ cancelled' = cancelled \cup {appCancelFn}
           /\ Goto(c, "waitApp")
  <2>1. Moved(c, "waitApp")
    BY <1>1, <1>3, CallerMoves DEF CallSteps
  <2>2. appCancelFn \in Starts /\ cancelled' \in SUBSET Starts
    BY <1>1, <1>3
  <2>3. \A g \in Starts : pc'[g] = pc[g] /\ (Running(g)' <=> Running(g))
    BY <2>1 DEF Moved, Running
  <2>4. CallersInv'
    BY <1>1, <2>1 DEF StopInv, CallersInv, Moved, StartSteps, StopSteps
  <2>5. StartsInv'
    <3>1. \A d \in Callers : pc'[d] \in StartSteps => pc[d] \in StartSteps /\ d # c
      BY <2>1 DEF Moved, StartSteps
    <3>2. \A d \in Callers : pc[d] \in StartSteps => target[d] \in Starts
      BY <1>1 DEF StopInv, StartsInv, Starts
    <3>3. \A d \in Callers : pc'[d] \in {"launch", "nostr"} => pc[d] = pc'[d] /\ pc[d] \in StartSteps
      BY <2>1 DEF Moved, StartSteps
    <3>4. QED
      BY <1>1, <1>3, <2>3, <3>1, <3>2, <3>3 DEF StopInv, StartsInv, service
  <2>6. LoopsInv'
    <3>1. wg' = Cardinality({g \in Starts : Running(g)})'
      BY <1>1, <2>3, SameCount DEF service
    <3>2. StopsOnlyWhenCancelled'
      BY <1>1, <1>3, <2>3 DEF StopInv, LoopsInv, StopsOnlyWhenCancelled, Cancelled
    <3>3. \A g \in cancelled : ~Running(g)
      BY <1>1 DEF StopInv, LoopsInv, OneOperator
    <3>4. pc'[c] = "waitApp"
      BY <2>1 DEF Moved
    <3>5. QED
      BY <1>1, <1>3, <2>2, <2>3, <3>1, <3>2, <3>3, <3>4 DEF StopInv, LoopsInv
  <2>7. NodesInv'
    BY <1>1, <2>1 DEF StopInv, NodesInv, HeldNode, LiveNodes, Moved, service
  <2>8. TypeOK'
    BY <1>1, <2>1, <2>2, Types, TypesNext DEF Moved, service, clients, setup
  <2>9. QED
    BY <2>4, <2>5, <2>6, <2>7, <2>8 DEF StopInv
<1>4. QED
  BY <1>2, <1>3 DEF BeginBackup

(***************************************************************************)
(* The relay goroutine                                                     *)
(***************************************************************************)
LoopTargets == {"connect", "info", "subscribe", "serve", "retry", "stopCheck"}

LEMMA LoopStepInv ==
  ASSUME StopInv, NEW g \in Starts, NEW step \in LoopTargets,
         pc[g] \in LoopTargets \ {"stopCheck"}, Goto(g, step),
         step = "stopCheck" => Cancelled(g),
         notifier' \in ClientType,
         UNCHANGED <<service, contexts, handler, queued, setup, process, node, target>>
  PROVE  StopInv'
<1>1. pc \in PcType /\ pc[g] \notin StopSteps /\ Running(g)
  BY Types DEF StopInv, StopSteps, Running, LoopTargets
<1>2. Moved(g, step)
  BY <1>1, LoopMoves DEF LoopTargets, LoopSteps, StopSteps
<1>3. TypeOK' /\ UNCHANGED Fields
  BY <1>2, Types, TypesNext DEF StopInv, Moved, service, contexts, setup, Fields, StartFields
<1>4. step = "stopCheck" => g \in cancelled
  BY DEF Cancelled, StopInv, LoopsInv
<1>5. QED
  BY <1>1, <1>2, <1>3, <1>4, LoopInv DEF LoopTargets

LEMMA LoopNextStep ==
  ASSUME StopInv, OneOperator, NEW g \in Starts, LoopNext(g) \/ Dropped(g)
  PROVE  StopInv'
<1> USE SetFacts DEF LoopTargets
<1>1. /\ notifier \in ClientType
      /\ [notifier EXCEPT ![g] = Idle] \in ClientType /\ [notifier EXCEPT ![g] = lnClient] \in ClientType
  BY Types DEF StopInv, ClientType
<1>2. CASE Connect(g)
  BY <1>1, <1>2, LoopStepInv DEF Connect, LoopStep, clients
<1>3. CASE PublishInfo(g) /\ lnClient # NoClient
  BY <1>1, <1>3, LoopStepInv DEF PublishInfo, LoopStep, clients
<1>4. CASE PublishInfo(g) /\ lnClient = NoClient
  <2>1. UNCHANGED <<service, contexts, clients, setup, node, pc, target>> /\ process' = "panicked"
    BY <1>4 DEF PublishInfo, Panic
  <2>2. TypeOK' /\ UNCHANGED <<Fields, pc>>
    BY <2>1, Types, TypesNext
    DEF StopInv, service, contexts, clients, setup, Fields, StartFields, Processes
  <2>3. QED
    BY <2>2, QuietStep
<1>5. CASE Subscribe(g)
  BY <1>1, <1>5, LoopStepInv DEF Subscribe, LoopStep
<1>6. CASE Ended(g)
  BY <1>1, <1>6, LoopStepInv DEF Ended, EndSubscription, LoopStep
<1>7. CASE Retry(g)
  BY <1>1, <1>7, LoopStepInv DEF Retry, LoopStep, clients
<1>8. CASE Dropped(g)
  BY <1>1, <1>8, LoopStepInv DEF Dropped, EndSubscription, LoopStep
<1>9. CASE StopNext(g) /\ ~ShutdownPanics(g)
  BY <1>9, FindClientStep, CallShutdownStep, NodeStoppedStep, ClearClientStep DEF StopNext
<1>10. ~ShutdownPanics(g)
  BY DEF ShutdownPanics, StopInv, NodesInv
<1>11. QED
  BY <1>2, <1>3, <1>4, <1>5, <1>6, <1>7, <1>8, <1>9, <1>10 DEF LoopNext

(***************************************************************************)
(* The invariant                                                           *)
(***************************************************************************)
\* Handlers, notifications, closing the server and exiting.
LEMMA QuietSteps ==
  ASSUME StopInv,
         \/ UNCHANGED vars \/ ReportPayment \/ CloseServer \/ Exit
         \/ \E g \in Starts : DeliverRequest(g) \/ HandleRequest(g) \/ Notify(g)
  PROVE  StopInv'
<1> USE SetFacts
<1>1. UNCHANGED <<service, contexts, setup, node, pc, target>>
  BY DEF vars, ReportPayment, CloseServer, Exit, DeliverRequest, HandleRequest, Notify, Panic, setup
<1>2. handler' \in ClientType
  BY Types DEF StopInv, vars, clients, ReportPayment, CloseServer, Exit, DeliverRequest,
               HandleRequest, Notify, Panic, ClientType
<1>3. notifier' \in ClientType /\ queued' \in BOOLEAN
  BY Types DEF StopInv, vars, clients, ReportPayment, CloseServer, Exit, DeliverRequest,
               HandleRequest, Notify, Panic
<1>4. process' \in Processes
  BY Types DEF StopInv, vars, ReportPayment, CloseServer, Exit, DeliverRequest, HandleRequest,
               Notify, Panic, Processes
<1>5. TypeOK' /\ UNCHANGED <<Fields, pc>>
  BY <1>1, <1>2, <1>3, <1>4, Types, TypesNext
  DEF StopInv, service, contexts, setup, Fields, StartFields
<1>6. QED
  BY <1>5, QuietStep

LEMMA StopInvInit == Init => StopInv
<1> SUFFICES ASSUME Init PROVE StopInv
  OBVIOUS
<1> USE SetFacts
<1>1. TypeOK
  <2>1. \A s \in Goroutines : pc[s] \in CallSteps \cup LoopSteps
    BY DEF Init, CallSteps, LoopSteps
  <2>2. pc \in PcType
    BY <2>1 DEF Init, PcType, CallSteps, LoopSteps
  <2>3. node \in NodeType /\ target \in TargetType /\ handler \in ClientType /\ notifier \in ClientType
    BY DEF Init, NodeType, TargetType, ClientType
  <2>4. /\ lnClient \in Starts \cup {NoClient} /\ appCancelFn \in Starts \cup {NoClient}
        /\ wg \in 0..MaxStarts /\ started \in 0..MaxStarts /\ cancelled \in SUBSET Starts
    BY DEF Init
  <2>5. /\ rootDone \in BOOLEAN /\ startMutex \in BOOLEAN /\ dbOpen \in BOOLEAN
        /\ queued \in BOOLEAN /\ backend \in Backends /\ process \in Processes
    BY DEF Init, Processes
  <2>6. QED
    BY <2>2, <2>3, <2>4, <2>5, Types
<1>2. \A s \in Goroutines : pc[s] \in {"idle", "none"}
  BY DEF Init
<1>3. \A g \in Starts : pc[g] = "none" /\ node[g] = "none"
  BY DEF Init
<1>4. CallersInv /\ StartsInv
  BY <1>2, <1>3 DEF Init, CallersInv, StartsInv, StartSteps, StopSteps
<1>5. LoopsInv
  <2>1. RunningLoops = {} /\ {} \in SUBSET Starts
    BY <1>3 DEF RunningLoops, Running
  <2>2. wg = Cardinality({g \in Starts : Running(g)})
    BY <2>1, CountFacts DEF Init, RunningLoops
  <2>3. QED
    BY <1>3, <2>2 DEF Init, LoopsInv, StopsOnlyWhenCancelled, StopSteps
<1>6. NodesInv
  BY <1>2, <1>3 DEF Init, NodesInv, HeldNode, LiveNodes
<1>7. QED
  BY <1>1, <1>4, <1>5, <1>6 DEF StopInv

LEMMA StopInvNext ==
  ASSUME OneOperator, StopInv, [Next]_vars
  PROVE  StopInv'
<1> USE SetFacts
<1>1. CASE \E c \in Starters : BeginStart(c) \/ StartNext(c)
  BY <1>1, BeginStartStep, LaunchSucceedsStep, LaunchFailsStep, StartNostrStep, RegisterCancelStep
  DEF StartNext
<1>2. CASE \E c \in Operators : BeginStop(c) \/ BeginBackup(c) \/ AppStopped(c) \/ Archive(c)
  BY <1>2, BeginStopStep, BeginBackupStep, AppStoppedStep, ArchiveStep
<1>3. CASE \E c \in Operators : StopNext(c)
  <2>1. \A s \in Goroutines : ~ShutdownPanics(s)
    BY DEF ShutdownPanics, StopInv, NodesInv
  <2>2. QED
    BY <1>3, <2>1, FindClientStep, CallShutdownStep, NodeStoppedStep, ClearClientStep DEF StopNext
<1>4. CASE \E g \in Starts : LoopNext(g) \/ Dropped(g)
  BY <1>4, LoopNextStep
<1>5. CASE \/ UNCHANGED vars \/ ReportPayment \/ CloseServer \/ Exit
           \/ \E g \in Starts : DeliverRequest(g) \/ HandleRequest(g) \/ Notify(g)
  BY <1>5, QuietSteps
<1>6. ~Signal
  BY DEF Signal, OneOperator
<1>7. QED
  BY <1>1, <1>2, <1>3, <1>4, <1>5, <1>6 DEF Next, OperatorNext

\* With one operator and no signal the invariant holds of every state: starts are
\* serialised by the mutex of api.Start and the client that StartApp finds set,
\* and a node is either stopped by api.Stop or, while CreateBackup waits in
\* StopApp, by the relay goroutine it cancelled.
THEOREM SingleStop == ASSUME OneOperator PROVE Spec => []StopInv
<1>1. OneOperator
  OBVIOUS
<1>2. StopInv /\ [Next]_vars => StopInv'
  BY <1>1, StopInvNext
<1>3. QED
  BY StopInvInit, <1>2, PTL DEF Spec

\* However many starts race with each other and with the stops and backups of one
\* operator, there is never more than one node on the storage directory.
THEOREM OneNodeAlways == ASSUME OneOperator PROVE Spec => []OneNode
<1>1. StopInv => OneNode
  <2> SUFFICES ASSUME StopInv PROVE OneNode
    OBVIOUS
  <2>1. \A m, n \in LiveNodes : m = n
    BY SetFacts DEF StopInv, CallersInv, NodesInv, HeldNode, StartSteps, LiveNodes
  <2>2. CASE LiveNodes = {}
    BY <2>2, FS_EmptySet DEF OneNode
  <2>3. CASE LiveNodes # {}
    <3>1. PICK n \in LiveNodes : LiveNodes = {n}
      BY <2>1, <2>3
    <3>2. QED
      BY <3>1, FS_Singleton DEF OneNode
  <2>4. QED
    BY <2>2, <2>3
<1>2. QED
  BY <1>1, SingleStop, PTL

\* A node that is not yet stopped is the one svc.lnClient holds, or the one that a
\* start is still launching: a later stop reaches every node.
THEOREM HeldNodeAlways == ASSUME OneOperator PROVE Spec => []HeldNode
<1>1. StopInv => HeldNode
  BY DEF StopInv, NodesInv
<1>2. QED
  BY <1>1, SingleStop, PTL

\* A relay goroutine shuts the node down only when its context was cancelled.
THEOREM StopsCancelled == ASSUME OneOperator PROVE Spec => []StopsOnlyWhenCancelled
<1>1. StopInv => StopsOnlyWhenCancelled
  BY DEF StopInv, LoopsInv
<1>2. QED
  BY <1>1, SingleStop, PTL

(***************************************************************************)
(* A backup is taken of a hub at rest                                      *)
(***************************************************************************)
\* The calls of the API come one after the other, as those of the one user of the
\* frontend do, and the process is not asked to exit.
OneCaller == (\A c, d \in Callers : c = d) /\ ~MaySignal

\* The client that is set belongs to a relay goroutine that has not ended, whose
\* cancel function is the one registered; nothing runs while files are archived.
RestInv ==
  /\ \A n \in Starts : pc[n] = "done" => lnClient # n
  /\ \A c \in Callers :
       /\ pc[c] \in {"nostr", "register"} => lnClient = target[c]
       /\ pc[c] = "register" => pc[target[c]] # "none"
       /\ pc[c] \notin StartSteps /\ lnClient # NoClient =>
            appCancelFn = lnClient /\ pc[lnClient] # "none"
       /\ pc[c] = "archive" => \A g \in Starts : ~Running(g)

\* What holds for one operator holds for one caller.
LEMMA OneCallerOperates == OneCaller => OneOperator
  BY SetFacts DEF OneCaller, OneOperator

\* A relay goroutine that stops the node does so while the caller waits for it.
LEMMA StopperWaits ==
  ASSUME StopInv, OneCaller, NEW s \in Goroutines, pc[s] \in StopSteps, NEW c \in Callers
  PROVE  pc[c] = "waitApp" \/ c = s
<1> USE SetFacts
<1>1. CASE s \in Starts
  <2>1. s \in cancelled /\ Running(s)
    BY <1>1 DEF StopInv, LoopsInv, StopsOnlyWhenCancelled, Cancelled, Running, StopSteps
  <2>2. QED
    BY <2>1 DEF StopInv, LoopsInv, OneCaller
<1>2. QED
  BY <1>1 DEF OneCaller

\* The steps of a relay goroutine outside StopLNClient.
LEMMA RestLoop ==
  ASSUME StopInv, RestInv, OneCaller, NEW g \in Starts, LoopNext(g) \/ Dropped(g), ~StopNext(g)
  PROVE  RestInv'
<1> USE SetFacts
<1>1. /\ pc \in PcType /\ lnClient \in Starts \cup {NoClient} /\ target \in TargetType
      /\ \A c \in Callers : pc[c] \in StartSteps => target[c] \in Starts
  BY Types DEF StopInv, StartsInv, Starts
<1>2. UNCHANGED <<lnClient, appCancelFn, target>>
  BY DEF LoopNext, Connect, PublishInfo, Panic, Subscribe, Ended, Dropped, EndSubscription, Retry,
         service
<1>3. CASE pc' = pc
  BY <1>2, <1>3 DEF RestInv, Running
<1>4. CASE \E step \in LoopTargets : Goto(g, step) /\ Running(g)
  <2>1. PICK step \in LoopTargets : Moved(g, step) /\ Running(g)
    BY <1>1, <1>4, LoopMoves DEF LoopTargets, LoopSteps, StopSteps
  <2>2. /\ \A c \in Callers : pc'[c] = pc[c]
        /\ \A n \in Starts : /\ Running(n)' <=> Running(n)
                             /\ pc'[n] = "none" <=> pc[n] = "none"
                             /\ pc'[n] = "done" => pc[n] = "done"
    BY <2>1 DEF Moved, Running, LoopTargets
  <2>3. QED
    BY <1>1, <1>2, <2>2 DEF RestInv, StartSteps
<1>5. QED
  BY <1>3, <1>4
  DEF LoopNext, LoopStep, Connect, PublishInfo, Panic, Subscribe, Ended, Dropped, EndSubscription,
      Retry, LoopTargets, Running

\* The steps of StopLNClient, by the caller or by a relay goroutine.
LEMMA RestStop ==
  ASSUME StopInv, RestInv, OneCaller, backend = "LDK", NEW s \in Goroutines, StopNext(s)
  PROVE  RestInv'
<1> USE SetFacts
<1>1. /\ pc \in PcType /\ lnClient \in Starts \cup {NoClient} /\ target \in TargetType
      /\ pc[s] \in StopSteps /\ ~ShutdownPanics(s)
  BY Types DEF StopInv, NodesInv, StopNext, FindClient, CallShutdown, ShutdownPanics, NodeStopped,
               ClearClient, StopSteps
<1>2. /\ appCancelFn' = appCancelFn
      /\ \A u \in Goroutines : u # s => target'[u] = target[u]
      /\ lnClient' \in {lnClient, NoClient}
  BY <1>1 DEF StopNext, FindClient, CallShutdown, ShutdownLdk, ShutdownOther, NodeStopped,
              ClearClient, TargetType, service
<1>3. PICK step \in StopSteps \cup {AfterStop(s)} :
        Moved(s, step) /\ (step = AfterStop(s) => lnClient' = NoClient)
  <2>1. PICK step \in StopSteps \cup {AfterStop(s)} :
          Goto(s, step) /\ (step = AfterStop(s) => lnClient' = NoClient)
    BY <1>1 DEF StopNext, FindClient, CallShutdown, ShutdownLdk, ShutdownOther, NodeStopped,
                ClearClient, Leave, StopSteps, service, AfterStop
  <2>2. QED
    BY <1>1, <2>1, CallerMoves, LoopMoves DEF AfterStop, CallSteps, LoopSteps
<1>4. \A c \in Callers : /\ pc'[c] \notin StartSteps /\ pc[c] \notin StartSteps
                         /\ pc'[c] # "archive"
  BY <1>1, <1>3, StopperWaits DEF Moved, StartSteps, StopSteps, AfterStop
<1>5. \A n \in Starts : /\ pc'[n] = "done" => pc[n] = "done" \/ lnClient' = NoClient
                        /\ pc'[n] = "none" => pc[n] = "none"
  BY <1>1, <1>3 DEF Moved, StopSteps, AfterStop
<1>6. QED
  BY <1>1, <1>2, <1>4, <1>5 DEF RestInv, StartSteps

\* The steps of a start.
LEMMA RestStart ==
  ASSUME StopInv, RestInv, OneCaller, NEW c \in Starters, BeginStart(c) \/ StartNext(c)
  PROVE  RestInv'
<1> USE SetFacts
<1>1. /\ pc \in PcType /\ target \in TargetType /\ c \in Callers /\ \A d \in Callers : d = c
      /\ started \in 0..MaxStarts
  BY Types DEF StopInv, OneCaller
<1>2. CASE BeginStart(c)
  <2>1. lnClient = NoClient /\ lnClient' = NoClient /\ Moved(c, "launch")
    BY <1>1, <1>2, CallerMoves DEF BeginStart, StartAllowed, service, CallSteps
  <2>2. QED
    BY <1>1, <2>1 DEF RestInv, Moved
<1>3. CASE StartNext(c)
  <2>1. /\ pc[c] \in StartSteps /\ target[c] \in Starts /\ target' = target
        /\ pc[c] \in {"launch", "nostr"} => pc[target[c]] = "none"
        /\ pc[c] = "launch" => lnClient = NoClient
    BY <1>3, StarterFacts
    DEF StartNext, LaunchSucceeds, LaunchFails, StartNostr, RegisterCancel, StartSteps,
        StopInv, StartsInv, NodesInv
  <2>2. CASE LaunchFails(c)
    <3>1. lnClient' = NoClient /\ Moved(c, "idle")
      BY <1>1, <2>1, <2>2, CallerMoves DEF LaunchFails, service, CallSteps
    <3>2. QED
      BY <1>1, <3>1 DEF RestInv, Moved
  <2>3. CASE LaunchSucceeds(c)
    <3>1. lnClient' = target[c] /\ Moved(c, "nostr")
      BY <1>1, <2>3, CallerMoves DEF LaunchSucceeds, CallSteps
    <3>2. pc[target[c]] = "none"
      BY <2>1, <2>3 DEF LaunchSucceeds
    <3>3. QED
      BY <1>1, <2>1, <3>1, <3>2 DEF RestInv, Moved, StartSteps
  <2>4. CASE StartNostr(c)
    <3>1. /\ pc[c] = "nostr" /\ lnClient' = lnClient
          /\ \A u \in Goroutines : pc'[u] = IF u = target[c] THEN "connect" ELSE
                                             IF u = c THEN "register" ELSE pc[u]
      BY <1>1, <2>1, <2>4 DEF StartNostr, PcType
    <3>2. QED
      BY <1>1, <2>1, <3>1 DEF RestInv, StartSteps
  <2>5. CASE RegisterCancel(c)
    <3>1. /\ pc[c] = "register" /\ lnClient' = lnClient /\ appCancelFn' = target[c]
          /\ Moved(c, "idle")
      BY <1>1, <2>5, CallerMoves DEF RegisterCancel, CallSteps
    <3>2. QED
      BY <1>1, <2>1, <3>1 DEF RestInv, Moved
  <2>6. QED
    BY <1>3, <2>2, <2>3, <2>4, <2>5 DEF StartNext
<1>4. QED
  BY <1>2, <1>3

\* The steps of api.Stop and CreateBackup outside StopLNClient.
LEMMA RestOperate ==
  ASSUME StopInv, RestInv, OneCaller, NEW c \in Operators,
         BeginStop(c) \/ BeginBackup(c) \/ AppStopped(c) \/ Archive(c)
  PROVE  RestInv'
<1> USE SetFacts
<1>1. /\ pc \in PcType /\ c \in Callers /\ (\A d \in Callers : d = c)
      /\ pc[c] \in {"idle", "waitApp", "archive"}
      /\ UNCHANGED <<lnClient, appCancelFn, target>>
  BY Types DEF StopInv, OneCaller, BeginStop, BeginBackup, AppStopped, Archive, service
<1>2. PICK step \in {"stopCheck", "archive", "waitApp", "idle"} :
        /\ Moved(c, step)
        /\ step = "archive" => (appCancelFn = NoClient /\ lnClient # NoClient) \/ wg = 0
  <2>1. PICK step \in {"stopCheck", "archive", "waitApp", "idle"} :
          /\ Goto(c, step)
          /\ step = "archive" => (appCancelFn = NoClient /\ lnClient # NoClient) \/ wg = 0
    BY DEF BeginStop, BeginBackup, AppStopped, Archive
  <2>2. QED
    BY <1>1, <2>1, CallerMoves DEF CallSteps, StopSteps
<1>3. step = "archive" => \A g \in Starts : ~Running(g)
  BY <1>1, <1>2, CountedOnce DEF RestInv, StartSteps
<1>4. \A g \in Starts : pc'[g] = pc[g] /\ (Running(g)' <=> Running(g))
  BY <1>1, <1>2 DEF Moved, Running
<1>5. pc[c] \notin StartSteps /\ pc'[c] = step /\ step \notin StartSteps
  BY <1>1, <1>2 DEF Moved, StartSteps
<1>6. lnClient \in Starts \cup {NoClient}
  BY Types DEF StopInv
<1>7. QED
  BY <1>1, <1>3, <1>4, <1>5, <1>6 DEF RestInv, StartSteps

\* RestInv is inductive, next to StopInv.
LEMMA RestNext ==
  ASSUME OneCaller, Backends \subseteq {"LDK"}, StopInv, RestInv, [Next]_vars
  PROVE  RestInv'
<1>1. CASE UNCHANGED <<lnClient, appCancelFn, target, pc>>
  BY <1>1 DEF RestInv, Running
<1>2. UNCHANGED vars \/ ReportPayment \/ CloseServer \/ Exit
        => UNCHANGED <<lnClient, appCancelFn, target, pc>>
  BY DEF vars, ReportPayment, CloseServer, Exit, service
<1>3. ASSUME NEW g \in Starts, DeliverRequest(g) \/ HandleRequest(g) \/ Notify(g)
      PROVE  UNCHANGED <<lnClient, appCancelFn, target, pc>>
  BY <1>3 DEF DeliverRequest, HandleRequest, Notify, Panic, service
<1>4. ~Signal
  BY DEF Signal, OneCaller
<1>5. backend = "LDK"
  BY Types DEF StopInv
<1>6. \A g \in Starts : LoopNext(g) \/ Dropped(g) => RestInv'
  BY <1>5, RestLoop, RestStop, SetFacts
<1>7. \A c \in Operators : StopNext(c) => RestInv'
  BY <1>5, RestStop, SetFacts
<1>8. QED
  BY <1>1, <1>2, <1>3, <1>4, <1>6, <1>7, RestStart, RestOperate DEF Next, OperatorNext

\* When the calls come one after the other and the node is an LDK node, CreateBackup
\* closes the database and reads the files of the node only when the node has
\* stopped and no relay goroutine is left, however often the hub was started and
\* stopped before and wherever the relay goroutines of earlier starts are.
THEOREM BackupAlwaysAtRest ==
  ASSUME OneCaller, Backends \subseteq {"LDK"}
  PROVE  Spec => []BackupAtRest
<1>1. OneOperator
  BY OneCallerOperates
<1>2. Init => RestInv
  BY SetFacts DEF Init, RestInv, StartSteps
<1>3. StopInv /\ RestInv /\ [Next]_vars => RestInv'
  BY RestNext
<1>4. ASSUME StopInv, RestInv PROVE BackupAtRest
  <2> USE SetFacts
  <2>1. SUFFICES ASSUME NEW c \in Operators, pc[c] = "archive"
                 PROVE  LiveNodes = {} /\ \A g \in Starts : pc[g] \in {"none", "done"}
    BY DEF BackupAtRest
  <2>2. \A g \in Starts : pc[g] \in {"none", "done"}
    BY <1>4, <2>1 DEF RestInv, Running
  <2>3. lnClient \in Starts \cup {NoClient}
    BY <1>4, Types DEF StopInv
  <2>4. lnClient = NoClient
    BY <1>4, <2>1, <2>2, <2>3 DEF RestInv, StartSteps
  <2>5. \A d \in Callers : pc[d] # "launch"
    BY <2>1 DEF OneCaller
  <2>6. LiveNodes = {}
    BY <1>4, <2>4, <2>5 DEF StopInv, NodesInv, HeldNode, LiveNodes
  <2>7. QED
    BY <2>2, <2>6
<1>5. QED
  BY <1>1, <1>2, <1>3, <1>4, SingleStop, PTL DEF Spec

(***************************************************************************)
(* What holds with any number of operators, signals and backends           *)
(***************************************************************************)
Counted == wg = Cardinality(RunningLoops)

BaseInv == TypeOK /\ CallersInv /\ StartsInv /\ Counted

\* What the steps need of BaseInv.
LEMMA BaseFacts ==
  ASSUME BaseInv
  PROVE  /\ lnClient \in Starts \cup {NoClient} /\ appCancelFn \in Starts \cup {NoClient}
         /\ started \in 0..MaxStarts /\ cancelled \in SUBSET Starts /\ wg \in 0..MaxStarts
         /\ node \in NodeType /\ pc \in PcType /\ target \in TargetType
         /\ \A c \in Callers : pc[c] \in StartSteps => target[c] \in Starts
         /\ wg = 0 => \A g \in Starts : ~Running(g)
<1>1. RunningLoops \in SUBSET Starts
  BY DEF RunningLoops
<1>2. wg = 0 => \A g \in Starts : ~Running(g)
  BY <1>1, CountFacts DEF BaseInv, Counted, RunningLoops
<1>3. QED
  BY <1>2, Types, SetFacts DEF BaseInv, StartsInv, Starts

\* The wait group after a step in which at most goroutine g begins or ends to run.
LEMMA Recount ==
  ASSUME Counted, NEW g \in Starts, \A n \in Starts : n # g => (Running(n)' <=> Running(n)),
         wg' = IF Running(g) /\ ~Running(g)' THEN wg - 1
               ELSE IF ~Running(g) /\ Running(g)' THEN wg + 1 ELSE wg
  PROVE  Counted' /\ wg' \in 0..MaxStarts
<1> USE SetFacts
<1> DEFINE R == RunningLoops
           Q == RunningLoops'
<1>1. R \in SUBSET Starts /\ Q \in SUBSET Starts
  BY DEF RunningLoops
<1>2. Cardinality(Q) \in 0..MaxStarts
  BY <1>1, CountFacts
<1>3. CASE Running(g) /\ ~Running(g)'
  <2>1. g \in R /\ Q = R \ {g}
    BY <1>3 DEF RunningLoops
  <2>2. Cardinality(R \ {g}) = Cardinality(R) - 1
    BY <1>1, <2>1, CountFacts
  <2>3. QED
    BY <1>2, <1>3, <2>1, <2>2 DEF Counted
<1>4. CASE ~Running(g) /\ Running(g)'
  <2>1. g \in Starts \ R /\ Q = R \cup {g}
    BY <1>4 DEF RunningLoops
  <2>2. Cardinality(R \cup {g}) = Cardinality(R) + 1
    BY <1>1, <2>1, CountFacts
  <2>3. QED
    BY <1>2, <1>4, <2>1, <2>2 DEF Counted
<1>5. CASE Running(g)' <=> Running(g)
  <2>1. Q = R /\ wg' = wg
    BY <1>5 DEF RunningLoops
  <2>2. QED
    BY <1>2, <2>1 DEF Counted
<1>6. QED
  BY <1>3, <1>4, <1>5

\* A step after which the same relay goroutines run keeps the count.
LEMMA SameCounted ==
  ASSUME Counted, \A n \in Starts : Running(n)' <=> Running(n), wg' = wg
  PROVE  Counted' /\ wg' \in 0..MaxStarts
<1>1. RunningLoops' = RunningLoops /\ RunningLoops \in SUBSET Starts
  BY DEF RunningLoops
<1>2. QED
  BY <1>1, CountFacts DEF Counted

\* A caller that is not starting, or a relay goroutine, takes a step; a backup may
\* cancel the context that is registered.
LEMMA BaseMove ==
  ASSUME BaseInv, NEW s \in Goroutines, NEW step, Moved(s, step),
         UNCHANGED <<appCancelFn, started, startMutex>>,
         cancelled' \in {cancelled, cancelled \cup ({appCancelFn} \ {NoClient})},
         pc[s] \notin StartSteps \cup {"none", "done"}, step \notin StartSteps \cup {"none"},
         s \in Callers /\ step \in StopSteps \cup {"waitApp", "archive"} => s \in Operators,
         wg' = IF s \in Starts /\ step = "done" THEN wg - 1 ELSE wg,
         \A u \in Goroutines : u # s => target'[u] = target[u]
  PROVE  CallersInv' /\ StartsInv' /\ Counted' /\ wg' \in 0..MaxStarts
<1> USE SetFacts
<1>1. /\ \A c \in Callers : pc'[c] \in StartSteps => c # s /\ pc'[c] = pc[c] /\ target'[c] = target[c]
      /\ \A c \in Callers : c # s => pc'[c] = pc[c]
      /\ \A n \in Starts : pc[n] = "none" => pc'[n] = "none"
  BY DEF Moved
<1>2. CallersInv'
  BY <1>1 DEF BaseInv, CallersInv, Moved
<1>3. StartsInv'
  BY <1>1, BaseFacts DEF BaseInv, StartsInv, StartSteps
<1>4. Counted' /\ wg' \in 0..MaxStarts
  <2>1. CASE s \in Starts
    <3>1. Running(s) /\ (Running(s)' <=> step # "done")
      BY <2>1 DEF Moved, Running
    <3>2. \A n \in Starts : n # s => (Running(n)' <=> Running(n))
      BY DEF Moved, Running
    <3>3. QED
      BY <2>1, <3>1, <3>2, Recount DEF BaseInv
  <2>2. CASE s \in Callers
    <3>1. wg' = wg /\ \A n \in Starts : Running(n)' <=> Running(n)
      BY <2>2 DEF Moved, Running
    <3>2. QED
      BY <3>1, SameCounted DEF BaseInv
  <2>3. QED
    BY <2>1, <2>2
<1>5. QED
  BY <1>2, <1>3, <1>4

\* A step that moves no goroutine, cancels nothing and starts nothing.
LEMMA BaseQuiet ==
  ASSUME BaseInv, TypeOK',
         UNCHANGED <<pc, target, wg, appCancelFn, started, startMutex, cancelled>>
  PROVE  BaseInv'
<1>1. CallersInv' /\ StartsInv'
  BY DEF BaseInv, CallersInv, StartsInv
<1>2. Counted'
  BY SameCounted DEF BaseInv, Running
<1>3. QED
  BY <1>1, <1>2 DEF BaseInv

\* The steps of a start.
LEMMA BaseStart ==
  ASSUME BaseInv, NEW c \in Starters, BeginStart(c) \/ StartNext(c)
  PROVE  BaseInv'
<1> USE SetFacts
<1>1. /\ pc \in PcType /\ node \in NodeType /\ target \in TargetType /\ started \in 0..MaxStarts
      /\ cancelled \in SUBSET Starts /\ c \in Callers /\ c \in Goroutines /\ c \notin Starts
      /\ TypeOK /\ Counted
      /\ \A d \in Callers : pc[d] \in StartSteps => target[d] \in Starts
  BY BaseFacts DEF BaseInv
<1>2. CASE BeginStart(c)
  <2> DEFINE n == started + 1
  <2>1. /\ pc[c] = "idle" /\ ~startMutex /\ startMutex' = TRUE /\ started' = n /\ n \in Starts
        /\ UNCHANGED <<service, clients, cancelled, rootDone, setup, process>>
        /\ \A d \in Callers : pc[d] \notin StartSteps
    BY <1>1, <1>2 DEF BeginStart, StartAllowed, Starts, BaseInv, CallersInv
  <2>2. /\ Moved(c, "launch") /\ NodeIs(n, "running") /\ target' \in TargetType /\ target'[c] = n
    BY <1>1, <1>2, <2>1, CallerMoves, NodeChanges DEF BeginStart, CallSteps, TargetType
  <2>3. CallersInv'
    BY <1>1, <2>1, <2>2 DEF BaseInv, CallersInv, Moved, StartSteps, StopSteps
  <2>4. StartsInv'
    <3>1. \A d \in Callers : pc'[d] \in StartSteps => d = c
      BY <2>1, <2>2 DEF Moved
    <3>2. pc'[n] = "none" /\ n \notin cancelled /\ appCancelFn # n
      BY <1>1, <2>1, <2>2 DEF BaseInv, StartsInv, Moved
    <3>3. \A m \in Starts : m > n => pc'[m] = "none" /\ m \notin cancelled /\ appCancelFn # m
      BY <1>1, <2>1, <2>2 DEF BaseInv, StartsInv, Moved, Starts
    <3>4. n \in 1..started'
      BY <1>1, <2>1
    <3>5. QED
      BY <2>1, <2>2, <3>1, <3>2, <3>3, <3>4 DEF StartsInv, StartSteps, service
  <2>5. Counted'
    BY <1>1, <2>1, <2>2, SameCounted DEF Moved, Running, service
  <2>6. started' \in 0..MaxStarts
    BY <2>1 DEF Starts
  <2>7. TypeOK'
    BY <1>1, <2>1, <2>2, <2>6, Types, TypesNext DEF Moved, NodeIs, service, clients, setup
  <2>8. QED
    BY <2>3, <2>4, <2>5, <2>7 DEF BaseInv
<1>3. CASE StartNext(c)
  <2> DEFINE n == target[c]
  <2>1. /\ pc[c] \in StartSteps /\ n \in Starts /\ n \in 1..started
        /\ UNCHANGED <<clients, started, rootDone, setup, process, target>>
        /\ \A d \in Callers : d # c => pc[d] \notin StartSteps
        /\ \A m \in Starts : m > started => m # n
    BY <1>1, <1>3
    DEF StartNext, LaunchSucceeds, LaunchFails, StartNostr, RegisterCancel, StartSteps, contexts,
        BaseInv, CallersInv, StartsInv, Starts
  <2>2. CASE LaunchFails(c)
    <3>1. /\ Moved(c, "idle") /\ NodeIs(n, "gone") /\ UNCHANGED service
          /\ cancelled' = cancelled \cup {n} /\ startMutex' = FALSE
      BY <1>1, <2>1, <2>2, CallerMoves, NodeChanges DEF LaunchFails, CallSteps
    <3>2. CallersInv'
      BY <2>1, <3>1 DEF BaseInv, CallersInv, Moved, StartSteps, StopSteps
    <3>3. StartsInv'
      BY <1>1, <2>1, <3>1 DEF BaseInv, StartsInv, Moved, StartSteps, service
    <3>4. Counted'
      BY <1>1, <3>1, SameCounted DEF Moved, Running, service
    <3>5. TypeOK'
      BY <1>1, <2>1, <3>1, Types, TypesNext DEF Moved, NodeIs, service, clients, setup
    <3>6. QED
      BY <3>2, <3>3, <3>4, <3>5 DEF BaseInv
  <2>3. CASE LaunchSucceeds(c)
    <3>1. /\ pc[c] = "launch" /\ Moved(c, "nostr") /\ lnClient' = n
          /\ UNCHANGED <<appCancelFn, wg, cancelled, startMutex, node>>
      BY <1>1, <2>3, CallerMoves DEF LaunchSucceeds, CallSteps, contexts
    <3>2. CallersInv'
      BY <2>1, <3>1 DEF BaseInv, CallersInv, Moved, StartSteps, StopSteps
    <3>3. StartsInv'
      BY <1>1, <2>1, <3>1 DEF BaseInv, StartsInv, Moved, StartSteps
    <3>4. Counted'
      BY <1>1, <3>1, SameCounted DEF Moved, Running
    <3>5. TypeOK'
      BY <1>1, <2>1, <3>1, Types, TypesNext DEF Moved, clients, setup
    <3>6. QED
      BY <3>2, <3>3, <3>4, <3>5 DEF BaseInv
  <2>4. CASE StartNostr(c)
    <3>1. /\ pc[c] = "nostr" /\ pc[n] = "none" /\ wg' = wg + 1
          /\ UNCHANGED <<lnClient, appCancelFn, cancelled, startMutex, node>>
          /\ \A u \in Goroutines : pc'[u] = IF u = n THEN "connect" ELSE
                                             IF u = c THEN "register" ELSE pc[u]
      BY <1>1, <2>1, <2>4 DEF StartNostr, PcType, contexts, BaseInv, StartsInv
    <3>2. pc' \in PcType
      <4>1. pc' \in [Goroutines -> CallSteps \cup LoopSteps]
        BY <1>1, <2>4 DEF StartNostr, PcType, CallSteps, LoopSteps
      <4>2. QED
        BY <1>1, <2>1, <3>1, <4>1 DEF PcType, CallSteps, LoopSteps
    <3>3. CallersInv'
      BY <1>1, <2>1, <3>1 DEF BaseInv, CallersInv, StartSteps, StopSteps
    <3>4. StartsInv'
      BY <1>1, <2>1, <3>1 DEF BaseInv, StartsInv, StartSteps
    <3>5. Counted' /\ wg' \in 0..MaxStarts
      <4>1. ~Running(n) /\ Running(n)' /\ \A m \in Starts : m # n => (Running(m)' <=> Running(m))
        BY <1>1, <2>1, <3>1 DEF Running
      <4>2. QED
        BY <1>1, <2>1, <3>1, <4>1, Recount
    <3>6. TypeOK'
      BY <1>1, <2>1, <3>1, <3>2, <3>5, Types, TypesNext DEF clients, setup
    <3>7. QED
      BY <3>3, <3>4, <3>5, <3>6 DEF BaseInv
  <2>5. CASE RegisterCancel(c)
    <3>1. /\ Moved(c, "idle") /\ appCancelFn' = n /\ startMutex' = FALSE
          /\ UNCHANGED <<lnClient, wg, cancelled, node>>
      BY <1>1, <2>5, CallerMoves DEF RegisterCancel, CallSteps
    <3>2. CallersInv'
      BY <2>1, <3>1 DEF BaseInv, CallersInv, Moved, StartSteps, StopSteps
    <3>3. StartsInv'
      BY <1>1, <2>1, <3>1 DEF BaseInv, StartsInv, Moved, StartSteps
    <3>4. Counted'
      BY <1>1, <3>1, SameCounted DEF Moved, Running
    <3>5. TypeOK'
      BY <1>1, <2>1, <3>1, Types, TypesNext DEF Moved, clients, setup
    <3>6. QED
      BY <3>2, <3>3, <3>4, <3>5 DEF BaseInv
  <2>6. QED
    BY <1>3, <2>2, <2>3, <2>4, <2>5 DEF StartNext
<1>4. QED
  BY <1>2, <1>3

\* A step of StopLNClient, with the places it leads to.
LEMMA StopPlaces ==
  ASSUME BaseInv, NEW s \in Goroutines, StopNext(s), ~ShutdownPanics(s)
  PROVE  /\ pc[s] \in StopSteps
         /\ \E step \in StopSteps \cup {AfterStop(s)} :
              /\ Moved(s, step)
              /\ wg' = IF s \in Starts /\ step = "done" THEN wg - 1 ELSE wg
<1> USE SetFacts
<1>1. pc \in PcType
  BY BaseFacts
<1>2. pc[s] \in StopSteps
  BY DEF StopNext, FindClient, CallShutdown, NodeStopped, ClearClient, StopSteps
<1>3. PICK step \in StopSteps \cup {AfterStop(s)} :
        /\ Goto(s, step)
        /\ wg' = IF s \in Starts /\ step = "done" THEN wg - 1 ELSE wg
  BY DEF StopNext, FindClient, CallShutdown, ShutdownLdk, ShutdownOther, NodeStopped, ClearClient,
         Leave, AfterStop, StopSteps, service
<1>4. Moved(s, step)
  BY <1>1, <1>3, CallerMoves, LoopMoves DEF AfterStop, CallSteps, LoopSteps
<1>5. QED
  BY <1>2, <1>3, <1>4

\* The steps of StopLNClient.
LEMMA BaseStop ==
  ASSUME BaseInv, NEW s \in Goroutines, StopNext(s)
  PROVE  BaseInv'
<1> USE SetFacts
<1>1. /\ lnClient \in Starts \cup {NoClient} /\ node \in NodeType /\ target \in TargetType
      /\ pc \in PcType
  BY BaseFacts
<1>2. CASE ShutdownPanics(s)
  <2>1. UNCHANGED <<service, contexts, clients, setup, node, pc, target>> /\ process' \in Processes
    BY <1>2 DEF ShutdownPanics, Panic, Processes
  <2>2. TypeOK'
    BY <2>1, Types, TypesNext DEF BaseInv, service, contexts, clients, setup
  <2>3. QED
    BY <2>1, <2>2, BaseQuiet DEF service, contexts
<1>3. CASE ~ShutdownPanics(s)
  <2>1. /\ UNCHANGED <<appCancelFn, started, cancelled, rootDone, startMutex, clients, setup, process>>
        /\ \A u \in Goroutines : u # s => target'[u] = target[u]
        /\ target' \in TargetType /\ node' \in NodeType /\ lnClient' \in Starts \cup {NoClient}
    BY <1>1, <1>3
    DEF StopNext, FindClient, CallShutdown, ShutdownLdk, ShutdownOther, NodeStopped, ClearClient,
        TargetType, NodeType, service, contexts
  <2>2. PICK step \in StopSteps \cup {AfterStop(s)} :
          /\ Moved(s, step) /\ pc[s] \in StopSteps
          /\ wg' = IF s \in Starts /\ step = "done" THEN wg - 1 ELSE wg
    BY <1>3, StopPlaces
  <2>3. /\ pc[s] \notin StartSteps \cup {"none", "done"} /\ step \notin StartSteps \cup {"none"}
        /\ s \in Callers => s \in Operators
    BY <2>2 DEF StartSteps, StopSteps, AfterStop, BaseInv, CallersInv
  <2>4. CallersInv' /\ StartsInv' /\ Counted' /\ wg' \in 0..MaxStarts
    BY <2>1, <2>2, <2>3, BaseMove
  <2>5. TypeOK'
    BY <2>1, <2>2, <2>4, Types, TypesNext DEF BaseInv, Moved, clients, setup
  <2>6. QED
    BY <2>4, <2>5 DEF BaseInv
<1>4. QED
  BY <1>2, <1>3

\* The steps of api.Stop and CreateBackup outside StopLNClient.
LEMMA BaseOperate ==
  ASSUME BaseInv, NEW c \in Operators,
         BeginStop(c) \/ BeginBackup(c) \/ AppStopped(c) \/ Archive(c)
  PROVE  BaseInv'
<1> USE SetFacts
<1>1. /\ pc \in PcType /\ appCancelFn \in Starts \cup {NoClient} /\ cancelled \in SUBSET Starts
      /\ c \in Callers
      /\ UNCHANGED <<service, started, rootDone, startMutex, clients, backend, process, node, target>>
      /\ dbOpen' \in BOOLEAN
  BY BaseFacts, Types
  DEF BaseInv, BeginStop, BeginBackup, AppStopped, Archive, contexts, setup
<1>2. PICK step \in {"stopCheck", "archive", "waitApp", "idle"} : Moved(c, step)
  BY <1>1, CallerMoves DEF BeginStop, BeginBackup, AppStopped, Archive, CallSteps, StopSteps
<1>3. cancelled' \in {cancelled, cancelled \cup ({appCancelFn} \ {NoClient})} /\ cancelled' \in SUBSET Starts
  BY <1>1 DEF BeginStop, BeginBackup, AppStopped, Archive, contexts
<1>4. pc[c] \notin StartSteps \cup {"none", "done"} /\ step \notin StartSteps \cup {"none"}
  BY DEF StartSteps, BeginStop, BeginBackup, AppStopped, Archive
<1>5. CallersInv' /\ StartsInv' /\ Counted' /\ wg' \in 0..MaxStarts
  BY <1>1, <1>2, <1>3, <1>4, BaseMove DEF service
<1>6. TypeOK'
  BY <1>1, <1>2, <1>3, Types, TypesNext DEF BaseInv, Moved, service, clients
<1>7. QED
  BY <1>5, <1>6 DEF BaseInv

\* A step of the relay goroutine outside StopLNClient.
LEMMA LoopPlaces ==
  ASSUME BaseInv, NEW g \in Starts, LoopNext(g) \/ Dropped(g), ~StopNext(g)
  PROVE  /\ UNCHANGED <<service, contexts, handler, queued, setup, node, target>>
         /\ notifier' \in ClientType /\ process' \in {process, "panicked"}
         /\ \/ pc' = pc
            \/ /\ pc[g] \in LoopTargets \ {"stopCheck"} /\ process' = process
               /\ \E step \in LoopTargets : Moved(g, step)
<1> USE SetFacts
<1>1. /\ pc \in PcType /\ notifier \in ClientType
      /\ [notifier EXCEPT ![g] = Idle] \in ClientType /\ [notifier EXCEPT ![g] = lnClient] \in ClientType
  BY BaseFacts, Types DEF BaseInv, ClientType
<1>2. /\ UNCHANGED <<service, contexts, handler, queued, setup, node, target>>
      /\ notifier' \in ClientType /\ process' \in {process, "panicked"}
  BY <1>1 DEF LoopNext, Connect, PublishInfo, Panic, Subscribe, Ended, Dropped, EndSubscription,
              Retry, clients
<1>3. \/ pc' = pc
      \/ /\ pc[g] \in LoopTargets \ {"stopCheck"} /\ process' = process
         /\ \E step \in LoopTargets : Goto(g, step)
  BY DEF LoopNext, LoopStep, Connect, PublishInfo, Panic, Subscribe, Ended, Dropped,
         EndSubscription, Retry, LoopTargets
<1>4. \A step \in LoopTargets : Goto(g, step) => Moved(g, step)
  BY <1>1, LoopMoves DEF LoopTargets, LoopSteps, StopSteps
<1>5. QED
  BY <1>2, <1>3, <1>4

\* The steps of a relay goroutine.
LEMMA BaseLoop ==
  ASSUME BaseInv, NEW g \in Starts, LoopNext(g) \/ Dropped(g), ~StopNext(g)
  PROVE  BaseInv'
<1> USE SetFacts
<1>1. /\ UNCHANGED <<service, contexts, handler, queued, setup, node, target>>
      /\ notifier' \in ClientType /\ process' \in {process, "panicked"}
  BY LoopPlaces
<1>2. process' \in Processes
  BY <1>1, Types DEF BaseInv, Processes
<1>3. CASE pc' = pc
  <2>1. TypeOK'
    BY <1>1, <1>2, <1>3, Types, TypesNext DEF BaseInv, service, contexts, setup
  <2>2. QED
    BY <1>1, <1>3, <2>1, BaseQuiet DEF service, contexts
<1>4. CASE pc' # pc
  <2>1. PICK step \in LoopTargets : Moved(g, step) /\ pc[g] \in LoopTargets \ {"stopCheck"}
    BY <1>4, LoopPlaces
  <2>2. /\ pc[g] \notin StartSteps \cup {"none", "done"} /\ step \notin StartSteps \cup {"none"}
        /\ step # "done" /\ g \in Goroutines
    BY <2>1 DEF StartSteps, LoopTargets
  <2>3. CallersInv' /\ StartsInv' /\ Counted' /\ wg' \in 0..MaxStarts
    BY <1>1, <2>1, <2>2, BaseMove DEF service, contexts
  <2>4. TypeOK'
    BY <1>1, <1>2, <2>1, Types, TypesNext DEF BaseInv, Moved, service, contexts, setup
  <2>5. QED
    BY <2>3, <2>4 DEF BaseInv
<1>5. QED
  BY <1>3, <1>4

\* Handlers, notifications, signals and the end of the process.
LEMMA OtherSteps ==
  ASSUME BaseInv,
         \/ UNCHANGED vars \/ ReportPayment \/ Signal \/ CloseServer \/ Exit
         \/ \E g \in Starts : DeliverRequest(g) \/ HandleRequest(g) \/ Notify(g)
  PROVE  /\ BaseInv'
         /\ UNCHANGED <<service, started, cancelled, startMutex, setup, node, pc, target>>
<1>1. UNCHANGED <<service, started, cancelled, startMutex, setup, node, pc, target>>
  BY DEF vars, ReportPayment, Signal, CloseServer, Exit, DeliverRequest, HandleRequest, Notify,
         Panic, contexts, setup
<1>2. rootDone' \in BOOLEAN
  BY Types DEF BaseInv, vars, ReportPayment, Signal, CloseServer, Exit, DeliverRequest,
               HandleRequest, Notify, Panic, contexts
<1>3. handler' \in ClientType
  BY Types DEF BaseInv, vars, clients, ReportPayment, Signal, CloseServer, Exit, DeliverRequest,
               HandleRequest, Notify, Panic, ClientType
<1>4. notifier' \in ClientType /\ queued' \in BOOLEAN
  BY Types DEF BaseInv, vars, clients, ReportPayment, Signal, CloseServer, Exit, DeliverRequest,
               HandleRequest, Notify, Panic
<1>5. process' \in Processes
  BY Types DEF BaseInv, vars, ReportPayment, Signal, CloseServer, Exit, DeliverRequest,
               HandleRequest, Notify, Panic, Processes
<1>6. TypeOK'
  BY <1>1, <1>2, <1>3, <1>4, <1>5, Types, TypesNext DEF BaseInv, service, setup
<1>7. QED
  BY <1>1, <1>6, BaseQuiet DEF service

\* BaseInv is inductive.
LEMMA BaseNext == BaseInv /\ [Next]_vars => BaseInv'
<1> SUFFICES ASSUME BaseInv, [Next]_vars PROVE BaseInv'
  OBVIOUS
<1> USE SetFacts
<1>1. \A g \in Starts : LoopNext(g) \/ Dropped(g) => BaseInv'
  BY BaseLoop, BaseStop
<1>2. \A c \in Operators : StopNext(c) => BaseInv'
  BY BaseStop
<1>3. QED
  BY <1>1, <1>2, BaseStart, BaseOperate, OtherSteps DEF Next, OperatorNext

\* BaseInv holds however many operators there are.
LEMMA BaseAlways == Spec => []BaseInv
<1>1. Init => BaseInv
  BY StopInvInit DEF StopInv, LoopsInv, BaseInv, Counted, RunningLoops
<1>2. QED
  BY <1>1, BaseNext, PTL DEF Spec

\* Every variable keeps its type, however many operators, starters and signals
\* there are and whichever backend is set up; the counter of svc.wg never leaves
\* the range of the relay goroutines it counts.
THEOREM TypeCorrect == Spec => []TypeOK
<1>1. BaseInv => TypeOK
  BY DEF BaseInv
<1>2. QED
  BY <1>1, BaseAlways, PTL

(***************************************************************************)
(* The process exits at rest                                               *)
(***************************************************************************)
\* A hub that is started once in the life of its process, on an LDK node.
StartedOnce == MaxStarts = 1 /\ Backends \subseteq {"LDK"}

\* The node of the one start runs while it is launched or the service holds it, is
\* stopping while a goroutine waits for it, and stays stopped; its relay goroutine
\* ends only once it does not run, and the process exits after that.
ExitInv ==
  /\ started = 0 <=> node[1] = "none"
  /\ started = 0 => lnClient = NoClient
  /\ node[1] = "running" => lnClient = 1 \/ \E c \in Callers : pc[c] = "launch"
  /\ node[1] = "stopping" => \E s \in Goroutines : pc[s] = "stopWait"
  /\ node[1] \in {"running", "stopping"} /\ pc[1] = "none" =>
       \E c \in Callers : pc[c] \in {"launch", "nostr"}
  /\ \A s \in Goroutines :
       /\ pc[s] \in {"stopWait", "stopClear"} => node[1] \in {"stopping", "gone"}
       /\ pc[s] = "stopWait" => target[s] = 1
  /\ pc[1] = "done" => node[1] # "running"
  /\ process = "exited" => ~Running(1)

\* With one start there is one node, one context and one relay goroutine.
LEMMA OneStart ==
  ASSUME StartedOnce, BaseInv
  PROVE  /\ Starts = {1} /\ NoClient = 0 /\ 1 \in Goroutines /\ 1 \notin Callers
         /\ lnClient \in {0, 1} /\ backend = "LDK"
         /\ \A c \in Callers : pc[c] \in StartSteps => target[c] = 1 /\ started = 1
         /\ \A c \in Callers : pc[c] \in {"launch", "nostr"} => pc[1] = "none"
         /\ started = 0 => pc[1] = "none"
         /\ started \in {0, 1}
         /\ \A c, d \in Callers : pc[c] \in StartSteps /\ pc[d] \in StartSteps => c = d
<1>1. Starts = {1}
  BY DEF StartedOnce, Starts
<1>2. started \in {0, 1} /\ lnClient \in {0, 1} /\ backend = "LDK"
  <2>1. started \in 0..MaxStarts /\ lnClient \in Starts \cup {NoClient}
    BY BaseFacts
  <2>2. backend \in Backends
    BY Types DEF BaseInv
  <2>3. QED
    BY <1>1, <2>1, <2>2 DEF StartedOnce, NoClient
<1>3. \A c \in Callers : pc[c] \in StartSteps => target[c] = 1 /\ started = 1
  BY <1>2 DEF BaseInv, StartsInv
<1>4. \A c \in Callers : pc[c] \in {"launch", "nostr"} => pc[1] = "none"
  BY <1>3 DEF BaseInv, StartsInv, StartSteps
<1>5. 1 \in Goroutines /\ 1 \notin Callers /\ NoClient = 0
  BY <1>1, SetFacts
<1>6. started = 0 => pc[1] = "none"
  BY <1>1 DEF BaseInv, StartsInv
<1>7. QED
  BY <1>1, <1>2, <1>3, <1>4, <1>5, <1>6 DEF BaseInv, CallersInv

\* The steps of the relay goroutine outside StopLNClient.
LEMMA ExitLoop ==
  ASSUME StartedOnce, BaseInv, ExitInv, NEW g \in Starts, LoopNext(g) \/ Dropped(g), ~StopNext(g)
  PROVE  ExitInv'
<1> USE SetFacts
<1>1. g = 1 /\ 1 \notin Callers /\ 1 \in Goroutines
  BY OneStart
<1>2. /\ UNCHANGED <<lnClient, started, node, target>> /\ process' \in {process, "panicked"}
      /\ pc' = pc \/ (/\ pc[1] \in LoopTargets \ {"stopCheck"} /\ process' = process
                      /\ \E step \in LoopTargets : Moved(1, step))
  BY <1>1, LoopPlaces DEF service, contexts
<1>3. CASE pc' = pc
  BY <1>2, <1>3 DEF ExitInv, Running
<1>4. CASE pc' # pc
  <2>1. PICK step \in LoopTargets : Moved(1, step)
    BY <1>2, <1>4
  <2>2. pc[1] \in LoopTargets \ {"stopCheck"} /\ process' = process /\ Running(1)
    BY <1>2, <1>4 DEF LoopTargets, Running
  <2>3. QED
    BY <1>1, <1>2, <2>1, <2>2 DEF ExitInv, Moved, LoopTargets, Running
<1>5. QED
  BY <1>3, <1>4

\* The steps of StopLNClient, by any number of goroutines at once.
LEMMA ExitStop ==
  ASSUME StartedOnce, BaseInv, ExitInv, NEW s \in Goroutines, StopNext(s)
  PROVE  ExitInv'
<1> USE SetFacts
<1>1. /\ Starts = {1} /\ NoClient = 0 /\ 1 \in Goroutines /\ 1 \notin Callers
      /\ lnClient \in {0, 1} /\ backend = "LDK"
      /\ node \in NodeType /\ target \in TargetType /\ pc \in PcType
      /\ \A c \in Callers : pc[c] \in {"launch", "nostr"} => pc[1] = "none"
      /\ started = 0 => pc[1] = "none"
  BY OneStart, BaseFacts
<1>2. CASE ShutdownPanics(s)
  BY <1>2 DEF ShutdownPanics, Panic, service, contexts, ExitInv, Running
<1>3. CASE ~ShutdownPanics(s)
  <2>1. PICK step \in StopSteps \cup {AfterStop(s)} : Moved(s, step) /\ pc[s] \in StopSteps
    BY <1>3, StopPlaces
  <2>2. UNCHANGED <<started, process>> /\ process # "exited"
    BY <1>3 DEF StopNext, FindClient, CallShutdown, NodeStopped, ClearClient, contexts, Alive
  <2>3. /\ \A c \in Callers : pc'[c] \in StartSteps <=> pc[c] \in StartSteps
        /\ \A c \in Callers : pc[c] \in StartSteps => pc'[c] = pc[c]
        /\ pc'[1] = "none" <=> pc[1] = "none"
    BY <1>1, <2>1 DEF Moved, StartSteps, StopSteps, AfterStop
  <2>4. CASE FindClient(s)
    <3>1. UNCHANGED <<lnClient, node, target>> /\ pc[s] = "stopCheck"
      BY <2>4 DEF FindClient
    <3>2. pc'[s] \in {"stopCall", "idle", "done"} /\ (pc'[s] # "stopCall" => lnClient = 0)
      BY <1>1, <2>4 DEF FindClient, Leave, AfterStop, Goto, PcType
    <3>3. s = 1 /\ lnClient = 0 => node[1] # "running"
      BY <1>1, <3>1 DEF ExitInv
    <3>4. QED
      BY <1>1, <2>1, <2>2, <2>3, <3>1, <3>2, <3>3 DEF ExitInv, Moved, StartSteps
  <2>5. CASE CallShutdown(s) /\ node[1] = "running"
    <3>1. /\ lnClient = 1 /\ lnClient' = 1 /\ NodeIs(1, "stopping") /\ Goto(s, "stopWait")
          /\ target' = [target EXCEPT ![s] = 1]
      BY <1>1, <2>5, NodeChanges DEF CallShutdown, ShutdownLdk, ShutdownOther
    <3>2. pc'[s] = "stopWait" /\ node'[1] = "stopping" /\ target'[s] = 1
          /\ \A u \in Goroutines : u # s => target'[u] = target[u]
      BY <1>1, <3>1 DEF Goto, PcType, NodeIs, TargetType
    <3>3. started # 0 /\ pc[s] = "stopCall" /\ pc[s] # "done"
      BY <1>1, <2>5 DEF ExitInv, CallShutdown
    <3>4. /\ started' # 0 /\ node'[1] # "none" /\ node'[1] # "running"
          /\ \E u \in Goroutines : pc'[u] = "stopWait"
          /\ process' # "exited"
      BY <2>2, <3>2, <3>3
    <3>5. pc'[1] = "none" => \E c \in Callers : pc'[c] \in {"launch", "nostr"}
      BY <2>3, <2>5 DEF ExitInv, StartSteps
    <3>6. \A u \in Goroutines : pc'[u] = "stopWait" => target'[u] = 1
      BY <2>1, <3>2 DEF ExitInv, Moved
    <3>7. QED
      BY <3>2, <3>4, <3>5, <3>6 DEF ExitInv
  <2>6. CASE CallShutdown(s) /\ node[1] # "running"
    <3>1. /\ lnClient = 1 /\ lnClient' = 1 /\ node' = node /\ Goto(s, "stopClear")
          /\ target' = [target EXCEPT ![s] = 1] /\ pc[s] = "stopCall"
      BY <1>1, <2>6 DEF CallShutdown, ShutdownLdk, ShutdownOther
    <3>2. pc'[s] = "stopClear" /\ \A u \in Goroutines : u # s => target'[u] = target[u]
      BY <1>1, <3>1 DEF Goto, PcType, TargetType
    <3>3. node[1] \in {"stopping", "gone"}
      BY <1>1, <3>1, <2>6 DEF NodeType, ExitInv
    <3>4. QED
      BY <1>1, <2>1, <2>2, <2>3, <3>1, <3>2, <3>3 DEF ExitInv, Moved, StartSteps
  <2>7. CASE NodeStopped(s)
    <3>1. pc[s] = "stopWait" /\ target[s] = 1
      BY <2>7 DEF NodeStopped, ExitInv
    <3>2. /\ UNCHANGED <<lnClient, target>> /\ NodeIs(1, "gone") /\ pc'[s] = "stopClear"
      BY <1>1, <2>7, <3>1, NodeChanges DEF NodeStopped, service, Goto, PcType
    <3>3. QED
      BY <1>1, <2>1, <2>2, <2>3, <3>1, <3>2 DEF ExitInv, Moved, NodeIs, StartSteps
  <2>8. CASE ClearClient(s)
    <3>1. /\ pc[s] = "stopClear" /\ UNCHANGED <<node, target>> /\ pc'[s] \in {"idle", "done"}
          /\ node[1] \in {"stopping", "gone"}
      BY <1>1, <2>8 DEF ClearClient, Leave, AfterStop, Goto, PcType, ExitInv
    <3>2. QED
      BY <1>1, <2>1, <2>2, <2>3, <3>1 DEF ExitInv, Moved, StartSteps
  <2>9. QED
    BY <1>3, <2>4, <2>5, <2>6, <2>7, <2>8 DEF StopNext
<1>4. QED
  BY <1>2, <1>3

\* The steps of the start.
LEMMA ExitStart ==
  ASSUME StartedOnce, BaseInv, ExitInv, NEW c \in Starters, BeginStart(c) \/ StartNext(c)
  PROVE  ExitInv'
<1> USE SetFacts
<1>1. /\ Starts = {1} /\ NoClient = 0 /\ 1 \in Goroutines /\ 1 \notin Callers
      /\ c \in Callers /\ c \in Goroutines /\ c # 1 /\ started \in {0, 1} /\ MaxStarts = 1
      /\ node \in NodeType /\ target \in TargetType /\ pc \in PcType
      /\ pc[c] \in StartSteps => target[c] = 1 /\ started = 1
      /\ pc[c] \in {"launch", "nostr"} => pc[1] = "none"
      /\ pc[c] \in StartSteps => \A d \in Callers : d # c => pc[d] \notin StartSteps
      /\ started = 0 => pc[1] = "none"
  BY OneStart, BaseFacts DEF StartedOnce
<1>2. CASE BeginStart(c)
  <2>1. /\ started = 0 /\ started' = 1 /\ lnClient' = lnClient /\ Moved(c, "launch")
        /\ pc[c] = "idle" /\ NodeIs(1, "running") /\ process' = process /\ process = "up"
        /\ \A s \in Goroutines : s # c => target'[s] = target[s]
    <3>1. started = 0 /\ started' = 1
      BY <1>1, <1>2 DEF BeginStart
    <3>2. Moved(c, "launch")
      BY <1>1, <1>2, CallerMoves DEF BeginStart, CallSteps
    <3>3. NodeIs(1, "running")
      BY <1>1, <1>2, <3>1, NodeChanges DEF BeginStart
    <3>4. QED
      BY <1>1, <1>2, <3>1, <3>2, <3>3 DEF BeginStart, service, TargetType
  <2>2. node'[1] = "running" /\ node[1] = "none"
    BY <1>1, <2>1 DEF NodeIs, ExitInv
  <2>3. \A s \in Goroutines : pc'[s] \notin {"stopWait", "stopClear"}
    BY <2>1, <2>2 DEF Moved, ExitInv
  <2>4. pc'[1] = "none" /\ pc'[c] = "launch"
    BY <1>1, <2>1 DEF Moved
  <2>5. QED
    BY <1>1, <2>1, <2>2, <2>3, <2>4 DEF ExitInv, Running
<1>3. CASE LaunchFails(c)
  <2>1. /\ Moved(c, "idle") /\ pc[c] = "launch" /\ NodeIs(1, "gone") /\ pc[1] = "none"
        /\ UNCHANGED <<lnClient, started, process, target>> /\ started = 1
    BY <1>1, <1>3, CallerMoves, NodeChanges DEF LaunchFails, CallSteps, StartSteps, service
  <2>2. node'[1] = "gone" /\ pc'[1] = "none"
    BY <1>1, <2>1 DEF Moved, NodeIs
  <2>3. QED
    BY <1>1, <2>1, <2>2 DEF ExitInv, Moved, Running
<1>4. CASE LaunchSucceeds(c)
  <2>1. /\ Moved(c, "nostr") /\ pc[c] = "launch" /\ lnClient' = 1 /\ pc'[1] = "none"
        /\ UNCHANGED <<started, process, node, target>> /\ started = 1
    BY <1>1, <1>4, CallerMoves DEF LaunchSucceeds, CallSteps, StartSteps, contexts, Moved
  <2>2. QED
    BY <1>1, <2>1 DEF ExitInv, Moved, Running
<1>5. CASE StartNostr(c)
  <2>1. /\ pc[c] = "nostr" /\ pc[1] = "none" /\ started = 1 /\ process # "exited"
        /\ \A u \in Goroutines : pc'[u] = IF u = 1 THEN "connect" ELSE
                                           IF u = c THEN "register" ELSE pc[u]
        /\ UNCHANGED <<lnClient, started, process, node, target>>
    BY <1>1, <1>5 DEF StartNostr, PcType, contexts, StartSteps, Alive
  <2>2. \A u \in Goroutines : pc'[u] \in {"launch", "stopWait", "stopClear"} <=>
                              pc[u] \in {"launch", "stopWait", "stopClear"}
    BY <2>1
  <2>3. QED
    BY <1>1, <2>1, <2>2 DEF ExitInv
<1>6. CASE RegisterCancel(c)
  <2>1. /\ Moved(c, "idle") /\ pc[c] = "register"
        /\ UNCHANGED <<lnClient, started, process, node, target>>
    BY <1>1, <1>6, CallerMoves DEF RegisterCancel, CallSteps
  <2>2. QED
    BY <1>1, <2>1 DEF ExitInv, Moved, Running
<1>7. QED
  BY <1>2, <1>3, <1>4, <1>5, <1>6 DEF StartNext

\* The steps of api.Stop and CreateBackup outside StopLNClient.
LEMMA ExitOperate ==
  ASSUME StartedOnce, BaseInv, ExitInv, NEW c \in Operators,
         BeginStop(c) \/ BeginBackup(c) \/ AppStopped(c) \/ Archive(c)
  PROVE  ExitInv'
<1> USE SetFacts
<1>1. /\ 1 \in Goroutines /\ 1 \notin Callers /\ c \in Callers /\ pc \in PcType
      /\ UNCHANGED <<lnClient, started, process, node, target>>
      /\ pc[c] \in {"idle", "waitApp", "archive"}
  BY OneStart, BaseFacts DEF BeginStop, BeginBackup, AppStopped, Archive, service, contexts
<1>2. PICK step \in {"stopCheck", "archive", "waitApp", "idle"} : Moved(c, step)
  BY <1>1, CallerMoves DEF BeginStop, BeginBackup, AppStopped, Archive, CallSteps, StopSteps
<1>3. QED
  BY <1>1, <1>2 DEF ExitInv, Moved, Running

\* Requests, payments, the signal and the exit.
LEMMA ExitOther ==
  ASSUME StartedOnce, BaseInv, ExitInv,
         \/ UNCHANGED vars \/ ReportPayment \/ Signal \/ CloseServer \/ Exit
         \/ \E g \in Starts : DeliverRequest(g) \/ HandleRequest(g) \/ Notify(g)
  PROVE  ExitInv'
<1>1. UNCHANGED <<lnClient, started, node, pc, target>>
  BY OtherSteps DEF service
<1>2. process' = "exited" => ~Running(1)
  <2>1. CASE Exit
    BY <2>1, OneStart, BaseFacts DEF Exit
  <2>2. CASE ~Exit
    <3>1. process' = "exited" => process = "exited"
      BY <2>2 DEF vars, ReportPayment, Signal, CloseServer, DeliverRequest, HandleRequest, Notify,
                  Panic
    <3>2. QED
      BY <3>1 DEF ExitInv
  <2>3. QED
    BY <2>1, <2>2
<1>3. QED
  BY <1>1, <1>2 DEF ExitInv, Running

\* ExitInv is inductive, next to BaseInv.
LEMMA ExitNext ==
  ASSUME StartedOnce, BaseInv, ExitInv, [Next]_vars
  PROVE  ExitInv'
<1> USE SetFacts
<1>1. \A g \in Starts : LoopNext(g) \/ Dropped(g) => ExitInv'
  BY ExitLoop, ExitStop
<1>2. \A c \in Operators : StopNext(c) => ExitInv'
  BY ExitStop
<1>3. QED
  BY <1>1, <1>2, ExitStart, ExitOperate, ExitOther DEF Next, OperatorNext

\* When a hub that was started once exits with every call of the API returned, it
\* leaves no node behind, whoever stopped it, in whatever order: the wait of main
\* for svc.wg covers the relay goroutine, which ends after the node has stopped or
\* after another stop that a call is still waiting for.
THEOREM ExitAlwaysAtRest == ASSUME StartedOnce PROVE Spec => []ExitAtRest
<1>1. Init => ExitInv
  <2> SUFFICES ASSUME Init PROVE ExitInv
    OBVIOUS
  <2>1. Starts = {1} /\ 1 \in Goroutines /\ 1 \notin Callers
    BY SetFacts DEF StartedOnce, Starts
  <2>2. QED
    BY <2>1 DEF Init, ExitInv, Running
<1>2. BaseInv /\ ExitInv /\ [Next]_vars => ExitInv'
  BY ExitNext
<1>3. BaseInv /\ ExitInv => ExitAtRest
  <2> SUFFICES ASSUME BaseInv, ExitInv, process = "exited", \A c \in Callers : pc[c] = "idle"
               PROVE  LiveNodes = {}
    BY DEF ExitAtRest
  <2>1. Starts = {1} /\ 1 \in Goroutines /\ \A s \in Goroutines : s \in Callers \/ s = 1
    BY OneStart, SetFacts
  <2>2. pc[1] \in {"none", "done"}
    BY DEF ExitInv, Running
  <2>3. node[1] # "stopping"
    BY <2>1, <2>2 DEF ExitInv
  <2>4. node[1] # "running"
    BY <2>1, <2>2 DEF ExitInv
  <2>5. QED
    BY <2>1, <2>3, <2>4 DEF LiveNodes
<1>4. QED
  BY <1>1, <1>2, <1>3, BaseAlways, PTL DEF Spec
=============================================================================
