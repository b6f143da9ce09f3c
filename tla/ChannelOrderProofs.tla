--------------------------- MODULE ChannelOrderProofs ---------------------------
(* The channel order, for every number of orders and channels: what its visits *)
(* open, what the sidebar shows, and of which channel an order speaks.          *)
EXTENDS ChannelOrder, TLAPS

(* A visit that has not started to open has not opened.                        *)
OneVisit == opens \in {0, 1} /\ (~started => opens = 0)

(* The cached list is behind the node, never ahead of it.                      *)
SeenBehind ==
  \A t \in Tx : /\ seen[t] # "none" => channel[t] # "none"
                /\ seen[t] \in HasFundingTx => channel[t] \notin NotFunded
                /\ seen[t] = "active" => channel[t] \in {"active", "inactive", "closed"}

(* What an order may not speak of: of a lightning order, what was funded       *)
(* before it, which its page noted with the invoice or which is closed since.  *)
Gone(t) == seen[t] = "none" /\ channel[t] = "closed"
Earlier == order.method = "lightning" => \A t \in Tx \ own : channel[t] \notin NotFunded
Noted == buying.requested /\ order.method = "lightning" =>
           \A t \in Tx \ own : t \in buying.prev \/ Gone(t)

(* While nothing was mixed up, every call and timer is the order's own.        *)
OwnOpening == opening => order.method = "onchain"
OwnAnswers ==
  \A t \in Tx : answer[t].state # "none" =>
    /\ order.method = "onchain" /\ t \in own
    /\ answer[t].state = "ok" => answer[t].tx = t
OwnTimers == \A t \in Tx : timer[t] > 0 => order.method = "lightning" /\ t \in own
OwnDone == order.status \in {"opening", "success"} => order.tx \in own
Owned == OwnOpening /\ OwnAnswers /\ OwnTimers /\ OwnDone
Own == ~mixed => Owned /\ Noted

OrderInv == TypeOK /\ OneVisit /\ SeenBehind /\ SuccessIsTrue /\ Earlier /\ Own

--------------------------------------------------------------------------------
(* The values that actions assign have their types.                            *)
LEMMA Values ==
  /\ NoOrder \in [method : {"none", "onchain", "lightning"}, peer : BOOLEAN,
                  status : {"none", "pay", "opening", "success"}, tx : Tx \cup {"none"}]
  /\ NoAnswer \in [state : {"none", "waiting", "ok"}, tx : Tx \cup {"none"}]
  /\ NotBuying \in [requested : BOOLEAN, prev : SUBSET Tx, tx : Tx \cup {"none"},
                    state : {"none", "pending", "active"}]
BY DEF NoOrder, NoAnswer, NotBuying

(* The list has the type of what is cached.                                    *)
LEMMA ListType ==
  ASSUME TypeOK
  PROVE  ListChannels \in [Tx -> {"none", "negotiating", "pending", "active"}]
<1>1. \A s \in Stage : Shown(s) \in {"none", "negotiating", "pending", "active"}
  BY DEF Shown, Stage
<1> QED BY <1>1 DEF ListChannels, TypeOK

(* A new transaction is one that the node has not seen.                        *)
LEMMA NewIsUnused == Unused # {} => NewTx \in Tx /\ channel[NewTx] = "none"
<1>1. Unused # {} => NewTx \in Unused
  BY DEF NewTx
<1> QED BY <1>1 DEF Unused

(* At first nothing is open, ordered or under way.                             *)
LEMMA InitOrderInv == Init => OrderInv
<1> SUFFICES ASSUME Init PROVE OrderInv
  OBVIOUS
<1>1. TypeOK
  <2>1. 0 \in 0..Orders /\ 0 \in 0..Timers
    BY OrderAssumption
  <2>2. channel \in [Tx -> Stage]
    BY <2>1 DEF Init, Stage
  <2>3. answer \in [Tx -> [state : {"none", "waiting", "ok"}, tx : Tx \cup {"none"}]]
    BY Values DEF Init
  <2>4. timer \in [Tx -> 0..Timers] /\ seen \in [Tx -> {"none", "negotiating", "pending", "active"}]
    BY <2>1 DEF Init
  <2> QED BY <2>1, <2>2, <2>3, <2>4, Values DEF Init, TypeOK
<1>2. OneVisit /\ SuccessIsTrue /\ Earlier
  BY DEF Init, NoOrder, OneVisit, SuccessIsTrue, Earlier
<1>3. SeenBehind
  BY DEF Init, HasFundingTx, SeenBehind
<1>4. Own
  BY DEF Init, NoOrder, NoAnswer, NotBuying, Own, Owned, OwnOpening, OwnAnswers, OwnTimers,
         OwnDone, Noted
<1> QED BY <1>1, <1>2, <1>3, <1>4 DEF OrderInv

--------------------------------------------------------------------------------
(* The steps of the node change its channels and the answers it owes.          *)
LEMMA NodeTypeOK ==
  ASSUME TypeOK, NodeNext \/ CloseChannel
  PROVE  TypeOK'
<1>1. CASE OpenChannel
  <2>0. opening' \in BOOLEAN /\ UNCHANGED <<started, mixed>>
    BY <1>1, Zenon DEF OpenChannel
  <2>1. CASE UNCHANGED <<channel, own, answer>>
    BY <1>1, <2>0, <2>1 DEF OpenChannel, TypeOK
  <2>2. CASE /\ Unused # {}
             /\ channel' = [channel EXCEPT ![NewTx] = "negotiating"]
             /\ own' = own \cup {NewTx}
             /\ answer' = [answer EXCEPT ![NewTx] = [state |-> "waiting", tx |-> "none"]]
    <3>1. channel' \in [Tx -> Stage] /\ own' \subseteq Tx
      BY <2>2, NewIsUnused DEF Stage, TypeOK
    <3>2. answer' \in [Tx -> [state : {"none", "waiting", "ok"}, tx : Tx \cup {"none"}]]
      BY <2>2, NewIsUnused DEF TypeOK
    <3> QED BY <1>1, <2>0, <3>1, <3>2 DEF OpenChannel, TypeOK
  <2> QED BY <1>1, <2>1, <2>2 DEF OpenChannel
<1>2. ASSUME NEW t \in Tx, NEW s \in Stage, NEW a,
             a \in [state : {"none", "waiting", "ok"}, tx : Tx \cup {"none"}],
             channel' = [channel EXCEPT ![t] = s],
             answer' = Answered(t, a), mixed' \in BOOLEAN,
             UNCHANGED <<seen, orderVars, pageVars>>
      PROVE  TypeOK'
  BY <1>2 DEF Answered, orderVars, pageVars, TypeOK
<1>3. ASSUME NEW t \in Tx, ChannelPending(t) PROVE TypeOK'
  BY <1>2, <1>3 DEF ChannelPending, Crossed, Stage, TypeOK
<1>4. ASSUME NEW t \in Tx, ChannelReady(t) \/ PeerDisconnects(t) PROVE TypeOK'
  BY <1>4 DEF ChannelReady, PeerDisconnects, Stage, orderVars, pageVars, TypeOK
<1>5. ASSUME NEW t \in Tx, ChannelClosed(t) PROVE TypeOK'
  BY <1>2, <1>5, Values DEF ChannelClosed, Stage, TypeOK
<1>6. ASSUME NEW t \in Tx, OpenTimesOut(t) PROVE TypeOK'
  BY <1>6, Values DEF OpenTimesOut, orderVars, pageVars, TypeOK
<1>7. CASE Inbound
  BY <1>7, NewIsUnused DEF Inbound, Stage, orderVars, pageVars, TypeOK
<1> QED BY <1>1, <1>3, <1>4, <1>5, <1>6, <1>7 DEF NodeNext, OpenFails, CloseChannel

(* So do those of the pages, of their caches and of their timers.              *)
LEMMA PageTypeOK ==
  ASSUME TypeOK, \/ IncreaseOutgoing \/ IncreaseIncoming \/ ReturnToOrder \/ Leave \/ Reload
                 \/ RefreshChannels \/ RefreshBalances
  PROVE  TypeOK'
<1>1. ASSUME NEW m \in {"onchain", "lightning"}, NEW p \in BOOLEAN, SetOrder(m, p) PROVE TypeOK'
  <2>1. made + 1 \in 0..Orders
    BY <1>1, OrderAssumption DEF SetOrder, TypeOK
  <2>2. own' \subseteq Tx /\ mixed' \in BOOLEAN
    BY <1>1 DEF SetOrder, Pending
  <2> QED BY <1>1, <2>1, <2>2, Values DEF SetOrder, Mount, Mounted, nodeVars, TypeOK
<1>2. CASE ReturnToOrder
  <2>1. started' \in BOOLEAN
    BY <1>2 DEF ReturnToOrder, Mount, Mounted
  <2> QED BY <1>2, <2>1, Values DEF ReturnToOrder, Mount, Mounted, nodeVars, orderVars, TypeOK
<1>3. CASE Leave
  <2>1. mixed' \in BOOLEAN
    BY <1>3 DEF Leave
  <2>2. order' \in {order, NoOrder} /\ own' \subseteq Tx
    BY <1>3 DEF Leave, TypeOK
  <2> QED BY <1>3, <2>1, <2>2, Values DEF Leave, nodeVars, TypeOK
<1>4. CASE Reload
  <2>1. timer' \in [Tx -> 0..Timers]
    BY <1>4, OrderAssumption DEF Reload
  <2>3. started' \in BOOLEAN /\ opening' \in BOOLEAN
    BY <1>4 DEF Reload, Mount, Mounted
  <2>2. answer' \in [Tx -> [state : {"none", "waiting", "ok"}, tx : Tx \cup {"none"}]]
    BY <1>4, Values DEF Reload
  <2> QED BY <1>4, <2>1, <2>2, <2>3, Values, ListType DEF Reload, Mount, Mounted, orderVars, TypeOK
<1>5. CASE RefreshChannels
  BY <1>5, ListType DEF RefreshChannels, nodeVars, orderVars, pageVars, TypeOK
<1>6. CASE RefreshBalances
  BY <1>6 DEF RefreshBalances, nodeVars, orderVars, TypeOK
<1> QED BY <1>1, <1>2, <1>3, <1>4, <1>5, <1>6 DEF IncreaseOutgoing, IncreaseIncoming

(* And what comes back to an order leaves one.                                 *)
LEMMA EffectTypeOK ==
  ASSUME TypeOK, Effects \/ TimerFires \/ \E t \in Tx : OpenAnswered(t)
  PROVE  TypeOK'
<1>0. \A s \in {"opening", "success"}, tx \in Tx \cup {"none"} :
        UpdateOrder(s, tx) =>
          /\ order' \in [method : {"none", "onchain", "lightning"}, peer : BOOLEAN,
                         status : {"none", "pay", "opening", "success"}, tx : Tx \cup {"none"}]
          /\ buying' = NotBuying /\ funds' = "gone"
  BY DEF UpdateOrder, TypeOK
<1>1. CASE StartOpening
  <2>1. started' \in BOOLEAN /\ opening' \in BOOLEAN /\ opens' \in Nat
    BY <1>1 DEF StartOpening, Opens, TypeOK
  <2> QED BY <1>1, <2>1 DEF StartOpening, Opens, nodeVars, orderVars, TypeOK
<1>7. CASE FetchNodeDetails
  BY <1>7 DEF FetchNodeDetails, nodeVars, orderVars, TypeOK
<1>2. CASE RequestInvoice
  <2>1. /\ buying' \in [requested : BOOLEAN, prev : SUBSET Tx, tx : Tx \cup {"none"},
                        state : {"none", "pending", "active"}]
        /\ mixed' \in BOOLEAN
    BY <1>2 DEF RequestInvoice, NotBuying
  <2> QED BY <1>2, <2>1 DEF RequestInvoice, nodeVars, orderVars, TypeOK
<1>3. CASE NewChannel
  <2> PICK t \in NewChannels :
        /\ timer[t] < Timers
        /\ buying' = [buying EXCEPT !.tx = t, !.state = seen[t]]
        /\ timer' = [timer EXCEPT ![t] = @ + 1]
    BY <1>3 DEF NewChannel
  <2>1. t \in Tx /\ seen[t] \in {"pending", "active"}
    BY DEF NewChannels, Funded, HasFundingTx, TypeOK
  <2>2. buying' \in [requested : BOOLEAN, prev : SUBSET Tx, tx : Tx \cup {"none"},
                     state : {"none", "pending", "active"}]
    BY <2>1 DEF TypeOK
  <2>3. timer' \in [Tx -> 0..Timers]
    BY <2>1, OrderAssumption DEF TypeOK
  <2> QED BY <1>3, <2>2, <2>3 DEF NewChannel, nodeVars, orderVars, TypeOK
<1>4. CASE ChannelOpening
  <2>1. order.tx \in Tx
    BY <1>4 DEF ChannelOpening, Active
  <2> QED BY <1>0, <1>4, <2>1, Values DEF ChannelOpening, nodeVars, TypeOK
<1>5. CASE TimerFires
  <2>1. PICK t \in Tx : /\ timer[t] > 0 /\ timer' = [timer EXCEPT ![t] = @ - 1]
                        /\ UpdateOrder("opening", t)
    BY <1>5 DEF TimerFires
  <2>2. timer' \in [Tx -> 0..Timers]
    BY <2>1, OrderAssumption DEF TypeOK
  <2> QED BY <1>0, <1>5, <2>1, <2>2, Values DEF TimerFires, nodeVars, TypeOK
<1>6. ASSUME NEW t \in Tx, OpenAnswered(t) PROVE TypeOK'
  <2>1. answer[t].tx \in Tx \cup {"none"}
    BY DEF TypeOK
  <2>2. answer' \in [Tx -> [state : {"none", "waiting", "ok"}, tx : Tx \cup {"none"}]]
    BY <1>6, Values DEF OpenAnswered, TypeOK
  <2> QED BY <1>0, <1>6, <2>1, <2>2, Values DEF OpenAnswered, TypeOK
<1> QED BY <1>1, <1>2, <1>3, <1>4, <1>5, <1>6, <1>7 DEF Effects

(* Every step keeps the types.                                                 *)
LEMMA NextTypeOK == TypeOK /\ [Next]_vars => TypeOK'
<1>1. TypeOK /\ UNCHANGED vars => TypeOK'
  BY DEF vars, nodeVars, orderVars, pageVars, TypeOK
<1> QED BY <1>1, NodeTypeOK, PageTypeOK, EffectTypeOK DEF Next, UserNext

--------------------------------------------------------------------------------
(* A visit opens once, however its page comes and goes.                        *)
LEMMA NextVisit == OneVisit /\ [Next]_vars => OneVisit'
<1> SUFFICES ASSUME OneVisit, [Next]_vars PROVE OneVisit'
  OBVIOUS
<1>1. CASE NodeNext \/ RefreshChannels \/ CloseChannel
  <2>1. UNCHANGED <<started, opens>>
    BY <1>1 DEF NodeNext, OpenChannel, Inbound, ChannelPending, ChannelReady, PeerDisconnects,
                OpenFails, ChannelClosed, OpenTimesOut, RefreshChannels, CloseChannel, pageVars
  <2> QED BY <2>1 DEF OneVisit
<1>2. CASE IncreaseOutgoing \/ IncreaseIncoming \/ ReturnToOrder \/ Reload
  <2>1. opens' = 0
    BY <1>2 DEF IncreaseOutgoing, IncreaseIncoming, SetOrder, ReturnToOrder, Reload, Mount, Mounted
  <2> QED BY <2>1 DEF OneVisit
<1>3. CASE StartOpening
  <2>1. started' = TRUE /\ opens' = opens + 1 /\ ~started
    BY <1>3 DEF StartOpening, Opens
  <2> QED BY <2>1 DEF OneVisit
<1>4. CASE \/ Leave \/ FetchNodeDetails \/ RequestInvoice \/ NewChannel \/ ChannelOpening
           \/ RefreshBalances \/ TimerFires \/ \E t \in Tx : OpenAnswered(t)
  <2>1. UNCHANGED <<started, opens>>
    BY <1>4 DEF Leave, FetchNodeDetails, RequestInvoice, NewChannel, ChannelOpening,
                RefreshBalances, TimerFires, OpenAnswered
  <2> QED BY <2>1 DEF OneVisit
<1>5. CASE UNCHANGED vars
  BY <1>5 DEF vars, pageVars, OneVisit
<1> QED BY <1>1, <1>2, <1>3, <1>4, <1>5 DEF Next, UserNext, Effects

--------------------------------------------------------------------------------
(* The stages that a channel can have next: none comes back.                   *)
Later(s) ==
  CASE s = "none"        -> Stage
    [] s = "negotiating" -> {"negotiating", "pending", "closed"}
    [] s = "pending"     -> {"pending", "active", "closed"}
    [] s = "active"      -> {"active", "inactive", "closed"}
    [] s = "inactive"    -> {"active", "inactive", "closed"}
    [] s = "closed"      -> {"closed"}

(* The node moves every channel on: it loses and finds its peer, and none is   *)
(* ever new again.                                                             *)
LEMMA StagesGoOn ==
  ASSUME TypeOK, [Next]_vars, NEW t \in Tx
  PROVE  channel'[t] \in Later(channel[t])
<1>0. channel \in [Tx -> Stage]
  BY DEF TypeOK
<1>1. CASE channel' = channel
  BY <1>0, <1>1 DEF Later, Stage
<1>2. CASE OpenChannel \/ Inbound
  <2>1. CASE Unused # {} /\ channel' = [channel EXCEPT ![NewTx] = "negotiating"]
    BY <1>0, <2>1, NewIsUnused DEF Later, Stage
  <2> QED BY <1>1, <1>2, <2>1 DEF OpenChannel, Inbound
<1>3. ASSUME NEW u \in Tx, ChannelPending(u) \/ ChannelReady(u) \/ PeerDisconnects(u)
      PROVE  channel'[t] \in Later(channel[t])
  BY <1>0, <1>3 DEF ChannelPending, ChannelReady, PeerDisconnects, Later, Stage
<1>4. ASSUME NEW u \in Tx, ChannelClosed(u), channel[u] \in Listed
      PROVE  channel'[t] \in Later(channel[t])
  BY <1>0, <1>4 DEF ChannelClosed, Later, Stage, Listed
<1>5. CASE CloseChannel \/ \E u \in Tx : OpenFails(u)
  BY <1>4, <1>5 DEF OpenFails, CloseChannel, Listed
<1>6. CASE \/ IncreaseOutgoing \/ IncreaseIncoming \/ ReturnToOrder \/ Leave \/ Reload \/ Effects
           \/ RefreshChannels \/ RefreshBalances \/ TimerFires
           \/ \E u \in Tx : OpenAnswered(u) \/ OpenTimesOut(u)
  BY <1>1, <1>6 DEF IncreaseOutgoing, IncreaseIncoming, SetOrder, ReturnToOrder, Leave, Reload,
                    Effects, FetchNodeDetails, StartOpening, Opens, RequestInvoice, NewChannel,
                    ChannelOpening, RefreshChannels, RefreshBalances, TimerFires, OpenAnswered,
                    OpenTimesOut, nodeVars
<1>7. CASE UNCHANGED vars
  BY <1>1, <1>7 DEF vars, nodeVars
<1> QED BY <1>2, <1>3, <1>5, <1>6, <1>7 DEF Next, NodeNext, UserNext

(* The list is as old as its last refresh, or is what the node says now.       *)
LEMMA SeenNext ==
  ASSUME [Next]_vars
  PROVE  seen' = seen \/ (seen' = ListChannels /\ channel' = channel)
<1>1. CASE RefreshChannels \/ Reload
  BY <1>1 DEF RefreshChannels, Reload, nodeVars
<1>2. CASE NodeNext \/ CloseChannel
  BY <1>2 DEF NodeNext, OpenChannel, Inbound, ChannelPending, ChannelReady, PeerDisconnects,
              OpenFails, ChannelClosed, OpenTimesOut, CloseChannel
<1>3. CASE \/ IncreaseOutgoing \/ IncreaseIncoming \/ ReturnToOrder \/ Leave \/ Effects
           \/ RefreshBalances \/ TimerFires \/ (\E t \in Tx : OpenAnswered(t)) \/ UNCHANGED vars
  BY <1>3 DEF IncreaseOutgoing, IncreaseIncoming, SetOrder, ReturnToOrder, Leave, Effects,
              FetchNodeDetails, StartOpening, Opens, RequestInvoice, NewChannel, ChannelOpening,
              RefreshBalances, TimerFires, OpenAnswered, vars
<1> QED BY <1>1, <1>2, <1>3 DEF Next, UserNext

(* So the list is never ahead of the node.                                     *)
LEMMA NextSeenBehind == TypeOK /\ SeenBehind /\ [Next]_vars => SeenBehind'
<1> SUFFICES ASSUME TypeOK, SeenBehind, [Next]_vars, NEW t \in Tx
             PROVE  /\ seen'[t] # "none" => channel'[t] # "none"
                    /\ seen'[t] \in HasFundingTx => channel'[t] \notin NotFunded
                    /\ seen'[t] = "active" => channel'[t] \in {"active", "inactive", "closed"}
  BY DEF SeenBehind
<1>0. channel[t] \in Stage
  BY DEF TypeOK
<1>1. channel'[t] \in Later(channel[t])
  BY StagesGoOn
<1>2. CASE seen' = seen
  BY <1>0, <1>1, <1>2 DEF SeenBehind, Later, Stage, NotFunded
<1>3. CASE seen' = ListChannels /\ channel' = channel
  BY <1>0, <1>3 DEF ListChannels, Shown, Stage, HasFundingTx, NotFunded
<1> QED BY <1>2, <1>3, SeenNext

(* A channel that is closed and not listed stays so.                           *)
LEMMA GoneStays ==
  ASSUME TypeOK, [Next]_vars, NEW t \in Tx, Gone(t)
  PROVE  Gone(t)'
<1>1. channel'[t] = "closed"
  <2>1. channel'[t] \in Later("closed")
    BY StagesGoOn DEF Gone
  <2> QED BY <2>1 DEF Later
<1>2. seen'[t] = "none"
  BY SeenNext DEF Gone, ListChannels, Shown
<1> QED BY <1>1, <1>2 DEF Gone

(* The channels an order may not speak of are told when it is made, and not    *)
(* again.                                                                      *)
LEMMA OwnNext ==
  ASSUME TypeOK, [Next]_vars
  PROVE  \/ own \subseteq own' /\ order'.method = order.method
         \/ order' = NoOrder
         \/ /\ IncreaseOutgoing \/ IncreaseIncoming
            /\ buying' = NotBuying /\ order'.status = "pay"
            /\ order'.method = "lightning" => own' = {t \in Tx : channel[t] \in NotFunded}
            /\ UNCHANGED channel
<1>1. CASE IncreaseOutgoing \/ IncreaseIncoming
  BY <1>1 DEF IncreaseOutgoing, IncreaseIncoming, SetOrder, Mount, Mounted, nodeVars
<1>2. CASE NodeNext \/ CloseChannel \/ RefreshChannels
  BY <1>2 DEF NodeNext, OpenChannel, Inbound, ChannelPending, ChannelReady, PeerDisconnects,
              OpenFails, ChannelClosed, OpenTimesOut, CloseChannel, RefreshChannels, orderVars
<1>3. CASE Leave
  BY <1>3 DEF Leave
<1>4. CASE ReturnToOrder \/ Reload \/ FetchNodeDetails \/ RefreshBalances \/ UNCHANGED vars
  BY <1>4 DEF ReturnToOrder, Reload, FetchNodeDetails, RefreshBalances, orderVars, vars
<1>5. CASE \/ Effects \/ TimerFires \/ \E t \in Tx : OpenAnswered(t)
  BY <1>5 DEF Effects, FetchNodeDetails, StartOpening, Opens, RequestInvoice, NewChannel,
              ChannelOpening, TimerFires, OpenAnswered, UpdateOrder, orderVars, TypeOK
<1> QED BY <1>1, <1>2, <1>3, <1>4, <1>5 DEF Next, UserNext

(* What was funded before a lightning order stays so, or is closed.            *)
LEMMA NextEarlier == TypeOK /\ Earlier /\ [Next]_vars => Earlier'
<1> SUFFICES ASSUME TypeOK, Earlier, [Next]_vars, order'.method = "lightning", NEW t \in Tx \ own'
             PROVE  channel'[t] \notin NotFunded
  BY DEF Earlier
<1>1. CASE own \subseteq own' /\ order'.method = order.method
  <2>1. channel[t] \in Stage /\ channel[t] \notin NotFunded
    BY <1>1 DEF Earlier, TypeOK
  <2>2. channel'[t] \in Later(channel[t])
    BY StagesGoOn
  <2> QED BY <2>1, <2>2 DEF Later, Stage, NotFunded
<1>2. CASE order' = NoOrder
  BY <1>2 DEF NoOrder
<1>3. CASE own' = {u \in Tx : channel[u] \in NotFunded} /\ UNCHANGED channel
  BY <1>3
<1> QED BY <1>1, <1>2, <1>3, OwnNext

(* Success is said of a channel that the list shows active, and so was.        *)
LEMMA NextSuccess == TypeOK /\ SeenBehind /\ SuccessIsTrue /\ [Next]_vars => SuccessIsTrue'
<1> SUFFICES ASSUME TypeOK, SeenBehind, SuccessIsTrue, [Next]_vars, order'.status = "success"
             PROVE  order'.tx \in Tx /\ channel'[order'.tx] \in {"active", "inactive", "closed"}
  BY DEF SuccessIsTrue
<1>1. CASE order' = order
  <2>1. order.tx \in Tx /\ channel[order.tx] \in {"active", "inactive", "closed"}
    BY <1>1 DEF SuccessIsTrue
  <2>2. channel'[order.tx] \in Later(channel[order.tx])
    BY <2>1, StagesGoOn
  <2> QED BY <1>1, <2>1, <2>2 DEF Later
<1>2. CASE ChannelOpening
  <2>1. order.tx \in Tx /\ seen[order.tx] = "active" /\ order'.tx = order.tx
    BY <1>2 DEF ChannelOpening, Active, UpdateOrder, TypeOK
  <2> QED BY <1>2, <2>1 DEF ChannelOpening, nodeVars, SeenBehind
<1>3. CASE \/ IncreaseOutgoing \/ IncreaseIncoming \/ Leave \/ TimerFires
           \/ \E t \in Tx : OpenAnswered(t)
  <2>1. \A s, tx : UpdateOrder(s, tx) => order'.status = s
    BY DEF UpdateOrder, TypeOK
  <2>2. CASE TimerFires \/ \E t \in Tx : OpenAnswered(t)
    BY <2>1, <2>2 DEF TimerFires, OpenAnswered
  <2>3. CASE IncreaseOutgoing \/ IncreaseIncoming
    BY <2>3 DEF IncreaseOutgoing, IncreaseIncoming, SetOrder
  <2>4. CASE Leave
    BY <1>1, <2>4 DEF Leave, NoOrder
  <2> QED BY <1>3, <2>2, <2>3, <2>4
<1>4. CASE \/ NodeNext \/ CloseChannel \/ RefreshChannels \/ RefreshBalances \/ ReturnToOrder
           \/ Reload
  BY <1>1, <1>4 DEF NodeNext, OpenChannel, Inbound, ChannelPending, ChannelReady, PeerDisconnects,
                    OpenFails, ChannelClosed, OpenTimesOut, CloseChannel, RefreshChannels,
                    RefreshBalances, ReturnToOrder, Reload, orderVars
<1>5. CASE FetchNodeDetails \/ StartOpening \/ RequestInvoice \/ NewChannel \/ UNCHANGED vars
  BY <1>1, <1>5 DEF FetchNodeDetails, StartOpening, Opens, RequestInvoice, NewChannel, orderVars, vars
<1> QED BY <1>2, <1>3, <1>4, <1>5 DEF Next, UserNext, Effects

(* The channels before the invoice are noted with it, once a mount.            *)
LEMMA BuyingNext ==
  ASSUME TypeOK, [Next]_vars
  PROVE  \/ buying' = NotBuying
         \/ buying'.requested = buying.requested /\ buying'.prev = buying.prev
         \/ RequestInvoice
<1>1. CASE NewChannel
  BY <1>1 DEF NewChannel, TypeOK
<1>2. CASE NodeNext \/ CloseChannel \/ RefreshChannels \/ RefreshBalances
  BY <1>2 DEF NodeNext, OpenChannel, Inbound, ChannelPending, ChannelReady, PeerDisconnects,
              OpenFails, ChannelClosed, OpenTimesOut, CloseChannel, RefreshChannels,
              RefreshBalances, pageVars
<1>3. CASE \/ IncreaseOutgoing \/ IncreaseIncoming \/ ReturnToOrder \/ Leave \/ Reload
           \/ ChannelOpening \/ TimerFires
  BY <1>3 DEF IncreaseOutgoing, IncreaseIncoming, SetOrder, ReturnToOrder, Leave, Reload, Mount,
              Mounted, ChannelOpening, TimerFires, UpdateOrder
<1>4. CASE FetchNodeDetails \/ StartOpening \/ (\E t \in Tx : OpenAnswered(t)) \/ UNCHANGED vars
  BY <1>4 DEF FetchNodeDetails, StartOpening, Opens, OpenAnswered, UpdateOrder, vars, pageVars
<1> QED BY <1>1, <1>2, <1>3, <1>4 DEF Next, UserNext, Effects

(* With a list that is not old, the page has noted what was funded before.     *)
LEMMA NextNoted ==
  ASSUME OrderInv, Noted \/ IncreaseOutgoing \/ IncreaseIncoming, [Next]_vars, ~mixed'
  PROVE  Noted'
<1> SUFFICES ASSUME buying'.requested, order'.method = "lightning", NEW t \in Tx \ own'
             PROVE  t \in buying'.prev \/ Gone(t)'
  BY DEF Noted
<1>0. TypeOK /\ Earlier /\ SeenBehind
  BY DEF OrderInv
<1>1. buying' # NotBuying /\ order' # NoOrder
  BY DEF NotBuying, NoOrder
<1>2. own \subseteq own' /\ order'.method = order.method
  BY <1>0, <1>1, OwnNext
<1>3. Noted
  BY <1>1 DEF IncreaseOutgoing, IncreaseIncoming, SetOrder, Mount, Mounted
<1>4. CASE buying'.requested = buying.requested /\ buying'.prev = buying.prev
  BY <1>0, <1>2, <1>3, <1>4, GoneStays DEF Noted
<1>5. CASE RequestInvoice
  <2>1. ~ListIsOld
    BY <1>5, Zenon DEF RequestInvoice
  <2>2. buying'.prev = {u \in Tx : seen[u] \in Listed}
    BY <1>5 DEF RequestInvoice, NotBuying
  <2>3. CASE seen[t] = "none"
    <3>1. channel[t] \in Stage /\ channel[t] \notin NotFunded /\ channel[t] \notin Listed
      BY <1>0, <1>2, <2>1, <2>3 DEF ListIsOld, Earlier, TypeOK
    <3>2. Gone(t)
      BY <2>3, <3>1 DEF Gone, Stage, NotFunded, Listed
    <3> QED BY <1>0, <3>2, GoneStays
  <2>4. CASE seen[t] # "none"
    BY <1>0, <2>2, <2>4 DEF Listed, TypeOK
  <2> QED BY <2>3, <2>4
<1> QED BY <1>0, <1>1, <1>4, <1>5, BuyingNext

--------------------------------------------------------------------------------
(* An order that is not mixed up hears of its own channel only.                *)
(* The node answers the call of the order about the channel it opens for it.   *)
LEMMA NodeOwned ==
  ASSUME OrderInv, Owned, NodeNext \/ CloseChannel, ~mixed'
  PROVE  Owned'
<1>0. TypeOK /\ UNCHANGED <<order, timer>> /\ own \subseteq own'
  BY DEF OrderInv, NodeNext, OpenChannel, Inbound, ChannelPending, ChannelReady, PeerDisconnects,
         OpenFails, ChannelClosed, OpenTimesOut, CloseChannel, orderVars, pageVars
<1>1. CASE OpenChannel
  <2>1. CASE UNCHANGED <<channel, own, answer>>
    BY <1>0, <1>1, <2>1 DEF OpenChannel, Owned, OwnOpening, OwnAnswers, OwnTimers, OwnDone
  <2>2. CASE /\ Unused # {}
             /\ own' = own \cup {NewTx}
             /\ answer' = [answer EXCEPT ![NewTx] = [state |-> "waiting", tx |-> "none"]]
    <3>1. ~opening' /\ order.method = "onchain"
      BY <1>1 DEF OpenChannel, Owned, OwnOpening
    <3>2. \A u \in Tx : answer'[u] = IF u = NewTx THEN [state |-> "waiting", tx |-> "none"]
                                                 ELSE answer[u]
      BY <1>0, <2>2 DEF TypeOK
    <3>3. OwnAnswers'
      BY <1>0, <2>2, <3>1, <3>2 DEF Owned, OwnAnswers
    <3> QED BY <1>0, <3>1, <3>3 DEF Owned, OwnOpening, OwnTimers, OwnDone
  <2> QED BY <1>1, <2>1, <2>2 DEF OpenChannel
<1>2. ASSUME \A u \in Tx : answer'[u].state # "none" =>
               /\ answer[u].state # "none"
               /\ answer'[u].state = "ok" => answer'[u].tx = u,
             opening' = opening
      PROVE  Owned'
  BY <1>0, <1>2 DEF Owned, OwnOpening, OwnAnswers, OwnTimers, OwnDone
<1>3. ASSUME NEW t \in Tx, ChannelPending(t) PROVE Owned'
  <2>1. Waiting \subseteq {t}
    BY <1>3, Zenon DEF ChannelPending, Crossed
  <2>2. \A u \in Tx : answer'[u] = IF u \in Waiting THEN [state |-> "ok", tx |-> t] ELSE answer[u]
    BY <1>3 DEF ChannelPending, Answered
  <2>3. \A u \in Tx : answer'[u].state # "none" =>
               /\ answer[u].state # "none"
               /\ answer'[u].state = "ok" => answer'[u].tx = u
    BY <2>1, <2>2 DEF Waiting, Owned, OwnAnswers
  <2> QED BY <1>2, <1>3, <2>3 DEF ChannelPending, pageVars
<1>4. ASSUME NEW t \in Tx, ChannelClosed(t) PROVE Owned'
  <2>1. \A u \in Tx : answer'[u] = IF u \in Waiting THEN NoAnswer ELSE answer[u]
    BY <1>4 DEF ChannelClosed, Answered
  <2>2. \A u \in Tx : answer'[u].state # "none" =>
               /\ answer[u].state # "none"
               /\ answer'[u].state = "ok" => answer'[u].tx = u
    BY <2>1 DEF NoAnswer, Owned, OwnAnswers
  <2> QED BY <1>2, <1>4, <2>2 DEF ChannelClosed, pageVars
<1>5. ASSUME NEW t \in Tx, OpenTimesOut(t) PROVE Owned'
  <2>1. \A u \in Tx : answer'[u] = IF u = t THEN NoAnswer ELSE answer[u]
    BY <1>0, <1>5 DEF OpenTimesOut, TypeOK
  <2>2. \A u \in Tx : answer'[u].state # "none" =>
               /\ answer[u].state # "none"
               /\ answer'[u].state = "ok" => answer'[u].tx = u
    BY <2>1 DEF NoAnswer, Owned, OwnAnswers
  <2> QED BY <1>2, <1>5, <2>2 DEF OpenTimesOut, pageVars
<1>6. CASE Inbound \/ \E t \in Tx : ChannelReady(t) \/ PeerDisconnects(t)
  <2>1. answer' = answer /\ opening' = opening
    BY <1>6 DEF Inbound, ChannelReady, PeerDisconnects, pageVars
  <2> QED BY <1>2, <2>1 DEF Owned, OwnAnswers
<1> QED BY <1>1, <1>3, <1>4, <1>5, <1>6 DEF NodeNext, OpenFails, CloseChannel

(* An order that is made or left with nothing under way has nothing to hear.   *)
LEMMA PageOwned ==
  ASSUME OrderInv, ~mixed',
         \/ IncreaseOutgoing \/ IncreaseIncoming
         \/ Owned /\ (ReturnToOrder \/ Leave \/ Reload \/ RefreshChannels \/ RefreshBalances)
  PROVE  Owned'
<1>0. TypeOK
  BY DEF OrderInv
<1>1. ASSUME NEW m, NEW p, SetOrder(m, p) PROVE Owned'
  <2>1. ~Pending
    BY <1>1, Zenon DEF SetOrder
  <2>2. ~opening /\ (\A t \in Tx : answer[t].state = "none") /\ \A t \in Tx : ~(timer[t] > 0)
    BY <2>1 DEF Pending
  <2>3. UNCHANGED <<opening, answer, timer>> /\ order'.status = "pay"
    BY <1>1 DEF SetOrder, nodeVars
  <2> QED BY <2>2, <2>3 DEF Owned, OwnOpening, OwnAnswers, OwnTimers, OwnDone
<1>2. ASSUME Owned, Leave PROVE Owned'
  <2>1. ~Pending
    BY <1>2, Zenon DEF Leave
  <2>2. ~opening /\ (\A t \in Tx : answer[t].state = "none") /\ \A t \in Tx : ~(timer[t] > 0)
    BY <2>1 DEF Pending
  <2>3. UNCHANGED <<opening, answer, timer>>
    BY <1>2 DEF Leave, nodeVars
  <2>4. OwnOpening' /\ OwnAnswers' /\ OwnTimers'
    BY <2>2, <2>3 DEF OwnOpening, OwnAnswers, OwnTimers
  <2>5. CASE UNCHANGED <<order, own>>
    BY <1>2, <2>4, <2>5 DEF Owned, OwnDone
  <2>6. CASE order' = NoOrder
    BY <2>4, <2>6 DEF NoOrder, Owned, OwnDone
  <2> QED BY <1>2, <2>5, <2>6 DEF Leave
<1>3. ASSUME Owned, UNCHANGED <<order, own>>,
             UNCHANGED <<answer, opening, timer>> \/
               (/\ \A t \in Tx : answer'[t].state = "none" /\ timer'[t] = 0
                /\ ~opening')
      PROVE  Owned'
  BY <1>3 DEF Owned, OwnOpening, OwnAnswers, OwnTimers, OwnDone
<1>4. ASSUME Owned, Reload PROVE Owned'
  BY <1>3, <1>4 DEF Reload, NoAnswer, orderVars
<1>5. ASSUME Owned, ReturnToOrder \/ RefreshChannels \/ RefreshBalances PROVE Owned'
  BY <1>3, <1>5 DEF ReturnToOrder, RefreshChannels, RefreshBalances, nodeVars, orderVars, pageVars
<1> QED BY <1>1, <1>2, <1>4, <1>5 DEF IncreaseOutgoing, IncreaseIncoming

(* What comes back to the order is its own, and so is what its page sends.     *)
LEMMA EffectOwned ==
  ASSUME OrderInv, Owned, Noted, Effects \/ TimerFires \/ \E t \in Tx : OpenAnswered(t)
  PROVE  Owned'
<1>0. TypeOK
  BY DEF OrderInv
<1>1. \A s, tx : UpdateOrder(s, tx) =>
        order'.method = order.method /\ order'.status = s /\ order'.tx = tx
  BY <1>0 DEF UpdateOrder, TypeOK
<1>2. CASE StartOpening
  <2>1. order.method = "onchain" /\ UNCHANGED <<order, own, answer, timer>>
    BY <1>2 DEF StartOpening, Opens, PaysBitcoin, nodeVars, orderVars
  <2> QED BY <2>1 DEF Owned, OwnOpening, OwnAnswers, OwnTimers, OwnDone
<1>3. CASE RequestInvoice \/ FetchNodeDetails
  <2>1. UNCHANGED <<order, own, answer, opening, timer>>
    BY <1>3 DEF RequestInvoice, FetchNodeDetails, nodeVars, orderVars
  <2> QED BY <2>1 DEF Owned, OwnOpening, OwnAnswers, OwnTimers, OwnDone
<1>4. CASE NewChannel
  <2> PICK t \in NewChannels : timer' = [timer EXCEPT ![t] = @ + 1]
    BY <1>4 DEF NewChannel
  <2>1. t \in Tx /\ seen[t] \in HasFundingTx /\ t \notin buying.prev
    BY DEF NewChannels, Funded
  <2>2. order.method = "lightning" /\ buying.requested
    BY <1>4 DEF NewChannel, PaysLightning
  <2>3. t \in own
    BY <2>1, <2>2 DEF Noted, Gone, HasFundingTx
  <2>4. UNCHANGED <<order, own, answer, opening>>
    BY <1>4 DEF NewChannel, nodeVars, orderVars
  <2>5. \A u \in Tx : timer'[u] > 0 => u = t \/ timer[u] > 0
    BY <1>0 DEF TypeOK
  <2> QED BY <2>2, <2>3, <2>4, <2>5 DEF Owned, OwnOpening, OwnAnswers, OwnTimers, OwnDone
<1>5. CASE ChannelOpening
  <2>1. order.status = "opening" /\ UpdateOrder("success", order.tx)
    BY <1>5 DEF ChannelOpening
  <2>2. UNCHANGED <<own, answer, opening, timer>>
    BY <1>5 DEF ChannelOpening, nodeVars
  <2> QED BY <1>1, <2>1, <2>2 DEF Owned, OwnOpening, OwnAnswers, OwnTimers, OwnDone
<1>6. CASE TimerFires
  <2>1. PICK t \in Tx : /\ timer[t] > 0 /\ timer' = [timer EXCEPT ![t] = @ - 1]
                        /\ UpdateOrder("opening", t)
    BY <1>6 DEF TimerFires
  <2>2. t \in own /\ order.method = "lightning"
    BY <2>1 DEF Owned, OwnTimers
  <2>3. \A u \in Tx : timer'[u] > 0 => timer[u] > 0
    BY <1>0, <2>1 DEF TypeOK
  <2>4. UNCHANGED <<own, answer, opening>>
    BY <1>6 DEF TimerFires, nodeVars
  <2> QED BY <1>1, <2>1, <2>2, <2>3, <2>4 DEF Owned, OwnOpening, OwnAnswers, OwnTimers, OwnDone
<1>7. ASSUME NEW t \in Tx, OpenAnswered(t) PROVE Owned'
  <2>1. \A u \in Tx : answer'[u].state # "none" => answer'[u] = answer[u]
    BY <1>0, <1>7 DEF OpenAnswered, NoAnswer, TypeOK
  <2>2. UNCHANGED <<own, opening, timer>>
    BY <1>7 DEF OpenAnswered
  <2>3. UpdateOrder("opening", t) /\ t \in own
    BY <1>7 DEF OpenAnswered, Owned, OwnAnswers
  <2> QED BY <1>1, <2>1, <2>2, <2>3 DEF Owned, OwnOpening, OwnAnswers, OwnTimers, OwnDone
<1> QED BY <1>2, <1>3, <1>4, <1>5, <1>6, <1>7 DEF Effects

(* Only an order that is made puts an end to the mix-up.                       *)
LEMMA MixedStays ==
  ASSUME [Next]_vars, ~mixed'
  PROVE  ~mixed \/ IncreaseOutgoing \/ IncreaseIncoming
<1> SUFFICES ASSUME ~(IncreaseOutgoing \/ IncreaseIncoming) PROVE ~mixed
  OBVIOUS
<1>1. \/ mixed' = mixed \/ (\E t \in Tx : mixed' = (mixed \/ Crossed(t)))
      \/ mixed' = (mixed \/ Pending) \/ mixed' = (mixed \/ ListIsOld)
  <2>1. CASE NodeNext \/ CloseChannel \/ RefreshChannels \/ RefreshBalances
    BY <2>1 DEF NodeNext, OpenChannel, Inbound, ChannelPending, ChannelReady, PeerDisconnects,
                OpenFails, ChannelClosed, OpenTimesOut, CloseChannel, RefreshChannels,
                RefreshBalances
  <2>2. CASE ReturnToOrder \/ Leave \/ Reload \/ Effects
    BY <2>2 DEF ReturnToOrder, Leave, Reload, Effects, FetchNodeDetails, StartOpening, Opens,
                RequestInvoice, NewChannel, ChannelOpening
  <2>3. CASE TimerFires \/ (\E t \in Tx : OpenAnswered(t)) \/ UNCHANGED vars
    BY <2>3 DEF TimerFires, OpenAnswered, vars
  <2> QED BY <2>1, <2>2, <2>3 DEF Next, UserNext
<1> QED BY <1>1, Zenon

(* Every step leaves an order that is not mixed up what is its own.            *)
LEMMA NextOwn == OrderInv /\ [Next]_vars => Own'
<1> SUFFICES ASSUME OrderInv, [Next]_vars, ~mixed' PROVE Owned' /\ Noted'
  BY DEF Own
<1>1. CASE IncreaseOutgoing \/ IncreaseIncoming
  BY <1>1, PageOwned, NextNoted
<1>2. CASE ~mixed
  <2>1. Owned /\ Noted
    BY <1>2 DEF OrderInv, Own
  <2>2. ASSUME UNCHANGED vars PROVE Owned'
    <3>1. UNCHANGED <<order, own, answer, timer>>
      BY <2>2 DEF vars, nodeVars, orderVars, pageVars
    <3>2. opening' = opening
      BY <2>2 DEF vars, pageVars
    <3>3. OwnOpening'
      BY <2>1, <3>1, <3>2, Zenon DEF Owned, OwnOpening
    <3>4. OwnAnswers' /\ OwnTimers' /\ OwnDone'
      BY <2>1, <3>1 DEF Owned, OwnAnswers, OwnTimers, OwnDone
    <3> QED BY <3>3, <3>4 DEF Owned
  <2>3. Owned'
    BY <2>1, <2>2, NodeOwned, PageOwned, EffectOwned DEF Next, UserNext
  <2> QED BY <2>1, <2>3, NextNoted
<1> QED BY <1>1, <1>2, MixedStays

--------------------------------------------------------------------------------
(* The invariant holds.                                                        *)
LEMMA OrderInvariant == Spec => []OrderInv
<1>1. OrderInv /\ [Next]_vars => OrderInv'
  BY NextTypeOK, NextVisit, NextSeenBehind, NextSuccess, NextEarlier, NextOwn DEF OrderInv
<1> QED BY <1>1, InitOrderInv, PTL DEF Spec

(* Type correctness: the order, the calls and the timers that outlive a page   *)
(* (ChannelOrderStore.ts, CurrentChannelOrder.tsx) keep their shape.           *)
THEOREM TypeCorrect == Spec => []TypeOK
<1>1. OrderInv => TypeOK
  BY DEF OrderInv
<1> QED BY <1>1, OrderInvariant, PTL

(* hasStartedOpenedChannel of CurrentChannelOrder.tsx keeps a visit from       *)
(* opening a second channel, whatever the polled balances do.                  *)
THEOREM OneOpen == Spec => []OneOpenPerVisit
<1>1. OrderInv => OneOpenPerVisit
  BY DEF OrderInv, OneVisit, OneOpenPerVisit
<1> QED BY <1>1, OrderInvariant, PTL

(* ChannelOpening of CurrentChannelOrder.tsx says "success" of a channel that  *)
(* was usable once, though it reads a cached list.                             *)
THEOREM SuccessHolds == Spec => []SuccessIsTrue
<1>1. OrderInv => SuccessIsTrue
  BY DEF OrderInv
<1> QED BY <1>1, OrderInvariant, PTL

(* An order speaks of a channel of its own, for every number of orders and     *)
(* channels: unless it was left with a call or timer under way, its page took  *)
(* an old list for the earlier channels, or two channels were opening at a     *)
(* time.                                                                       *)
THEOREM OwnChannelOnly == Spec => []OwnChannel
<1>1. OrderInv => OwnChannel
  BY DEF OrderInv, Own, Owned, OwnDone, OwnChannel
<1> QED BY <1>1, OrderInvariant, PTL
================================================================================
