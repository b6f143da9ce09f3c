------------------------------ MODULE ChannelOrder ------------------------------
(* The channel order of the browser: one order, kept in localStorage, that the *)
(* pages of src/frontend/src/screens/channels set, pay for, follow and remove, *)
(* and the channels of the node behind them, which they see through a cached   *)
(* list.  The user may leave the order's page at any step, and calls and       *)
(* timers that are still under way come back to whatever order is there.       *)
EXTENDS Naturals

CONSTANTS
  Tx,         \* funding transactions: each stands for the channel it funds
  Orders,     \* bound: how many orders are made
  Timers      \* bound: how many timers of one channel are under way

ASSUME OrderAssumption == "none" \notin Tx /\ Orders \in Nat /\ Timers \in Nat

VARIABLES
  channel,    \* the stage of each of the node's channels
  answer,     \* OpenChannel of the node, by the channel it opens
  seen,       \* useChannels: the cached channels
  funds,      \* the page that opens the channel: gone while the cached balance does
              \* not pay for it, shown, or ready with the details of the peer
  page,       \* the page of the order, or "elsewhere"
  order,      \* ChannelOrderStore
  made,       \* how many orders were made
  own,        \* the channels the order may speak of: of an on-chain order, those that
              \* were opened for it; of another, those not funded when it was made
  started,    \* hasStartedOpenedChannel, a variable of the module
  opens,      \* open calls of this visit
  opening,    \* an openChannel is on its way to the node
  buying,     \* the state of the page that waits for a paid channel
  timer,      \* the timers that set the order to "opening"
  mixed       \* an order was left with a call or timer, its page took an old list for
              \* the earlier channels, or the node mixed up channels

nodeVars == <<channel, answer>>
orderVars == <<order, made, own>>
pageVars == <<page, funds, started, opens, opening, buying, timer>>
vars == <<nodeVars, seen, orderVars, pageVars, mixed>>

Stage == {"none", "negotiating", "pending", "active", "inactive", "closed"}
Listed == {"negotiating", "pending", "active", "inactive"}
HasFundingTx == {"pending", "active", "inactive"}
NotFunded == {"none", "negotiating"}

NoOrder == [method |-> "none", peer |-> FALSE, status |-> "none", tx |-> "none"]
NoAnswer == [state |-> "none", tx |-> "none"]
NotBuying == [requested |-> FALSE, prev |-> {}, tx |-> "none", state |-> "none"]

TypeOK ==
  /\ channel \in [Tx -> Stage]
  /\ answer \in [Tx -> [state : {"none", "waiting", "ok"}, tx : Tx \cup {"none"}]]
  /\ seen \in [Tx -> {"none", "negotiating", "pending", "active"}]
  /\ funds \in {"gone", "shown", "ready"}
  /\ page \in {"order", "elsewhere"}
  /\ order \in [method : {"none", "onchain", "lightning"}, peer : BOOLEAN,
                status : {"none", "pay", "opening", "success"}, tx : Tx \cup {"none"}]
  /\ made \in 0..Orders
  /\ own \subseteq Tx
  /\ started \in BOOLEAN /\ opening \in BOOLEAN /\ mixed \in BOOLEAN
  /\ opens \in Nat
  /\ buying \in [requested : BOOLEAN, prev : SUBSET Tx, tx : Tx \cup {"none"},
                 state : {"none", "pending", "active"}]
  /\ timer \in [Tx -> 0..Timers]

Init ==
  /\ channel = [t \in Tx |-> "none"]
  /\ answer = [t \in Tx |-> NoAnswer]
  /\ seen = [t \in Tx |-> "none"]
  /\ funds = "gone"
  /\ page = "elsewhere"
  /\ order = NoOrder
  /\ made = 0
  /\ own = {}
  /\ started = FALSE
  /\ opens = 0
  /\ opening = FALSE
  /\ buying = NotBuying
  /\ timer = [t \in Tx |-> 0]
  /\ mixed = FALSE

--------------------------------------------------------------------------------
(* The node.                                                                   *)

(* To the browser a channel that lost its peer looks like one that is not      *)
(* ready yet: it has a funding transaction and is not active.                  *)
Shown(stage) == CASE stage = "inactive" -> "pending"
                  [] stage = "closed"   -> "none"
                  [] OTHER              -> stage
ListChannels == [t \in Tx |-> Shown(channel[t])]
Unused == {t \in Tx : channel[t] = "none"}
NewTx == CHOOSE t \in Unused : TRUE     \* a new transaction has a new name: any will do
Waiting == {t \in Tx : answer[t].state = "waiting"}

(* Every call that waits takes the first event of its kind for its own: the    *)
(* events of all channels reach it, and it does not compare their ids.  A call *)
(* that fails shows its error and leaves the order as it is: no answer.        *)
Answered(t, a) == [u \in Tx |-> IF u \in Waiting THEN a ELSE answer[u]]
Crossed(t) == Waiting \ {t} # {}

(* The peer is connected if need be and the channel negotiated, or one of the  *)
(* two fails: the error is shown and the order stays as it is.                 *)
OpenChannel ==
  /\ opening
  /\ opening' = FALSE
  /\ \/ /\ Unused # {}
        /\ channel' = [channel EXCEPT ![NewTx] = "negotiating"]
        /\ own' = own \cup {NewTx}
        /\ answer' = [answer EXCEPT ![NewTx] = [state |-> "waiting", tx |-> "none"]]
     \/ UNCHANGED <<channel, own, answer>>
  /\ UNCHANGED <<seen, order, made, page, funds, started, opens, buying, timer, mixed>>

ChannelPending(t) ==
  /\ channel[t] = "negotiating"
  /\ channel' = [channel EXCEPT ![t] = "pending"]
  /\ answer' = Answered(t, [state |-> "ok", tx |-> t])
  /\ mixed' = (mixed \/ Crossed(t))
  /\ UNCHANGED <<seen, orderVars, pageVars>>

(* Active is IsUsable of the node: a channel is it when it is confirmed and    *)
(* its peer is connected.                                                      *)
ChannelReady(t) ==
  /\ channel[t] \in {"pending", "inactive"}
  /\ channel' = [channel EXCEPT ![t] = "active"]
  /\ UNCHANGED <<answer, seen, orderVars, pageVars, mixed>>

PeerDisconnects(t) ==
  /\ channel[t] = "active"
  /\ channel' = [channel EXCEPT ![t] = "inactive"]
  /\ UNCHANGED <<answer, seen, orderVars, pageVars, mixed>>

ChannelClosed(t) ==
  /\ channel' = [channel EXCEPT ![t] = "closed"]
  /\ answer' = Answered(t, NoAnswer)
  /\ UNCHANGED <<seen, orderVars, pageVars, mixed>>

OpenFails(t) == channel[t] = "negotiating" /\ ChannelClosed(t)

OpenTimesOut(t) ==
  /\ answer[t].state = "waiting"
  /\ answer' = [answer EXCEPT ![t] = NoAnswer]
  /\ UNCHANGED <<channel, seen, orderVars, pageVars, mixed>>

(* A channel is opened to the node: by the provider whose invoice was paid, on *)
(* the page or with another wallet, or by anybody else.                        *)
Inbound ==
  /\ Unused # {}
  /\ channel' = [channel EXCEPT ![NewTx] = "negotiating"]
  /\ UNCHANGED <<answer, seen, orderVars, pageVars, mixed>>

NodeNext ==
  \/ OpenChannel \/ Inbound
  \/ \E t \in Tx : \/ ChannelPending(t) \/ ChannelReady(t) \/ PeerDisconnects(t)
                  \/ OpenFails(t) \/ OpenTimesOut(t)

--------------------------------------------------------------------------------
(* The cached answers.                                                         *)

PaysBitcoin == page = "order" /\ order.status = "pay" /\ order.method = "onchain"
PaysLightning == page = "order" /\ order.status = "pay" /\ order.method = "lightning"
Funded(list) == {t \in Tx : list[t] \in HasFundingTx}

RefreshChannels ==
  /\ seen # ListChannels
  /\ seen' = ListChannels
  /\ UNCHANGED <<nodeVars, orderVars, pageVars, mixed>>

(* The balance that pays for an order comes and goes: with deposits and their  *)
(* confirmation, with what other orders spend, and with the node's own sync.   *)
RefreshBalances ==
  /\ PaysBitcoin
  /\ funds' = IF funds = "gone" THEN "shown" ELSE "gone"
  /\ UNCHANGED <<nodeVars, seen, orderVars, page, started, opens, opening, buying, timer, mixed>>

--------------------------------------------------------------------------------
(* The pages.                                                                  *)

Pending == \/ opening
           \/ \E t \in Tx : timer[t] > 0 \/ answer[t].state # "none"

(* The mount of CurrentChannelOrder, and of the page for the order's status.   *)
Mounted(started_) ==
  /\ started' = started_
  /\ opens' = 0
  /\ buying' = NotBuying
  /\ funds' = "gone"
MountStarted == Mounted(started)
Mount == Mounted(FALSE)

(* Who pays on chain may choose a peer of his own and name none.               *)
SetOrder(method, peer) ==
  /\ page = "elsewhere" /\ made < Orders
  /\ order' = [method |-> method, peer |-> peer, status |-> "pay", tx |-> "none"]
  /\ made' = made + 1
  /\ own' = IF method = "lightning" THEN {t \in Tx : channel[t] \in NotFunded} ELSE {}
  /\ mixed' = Pending
  /\ page' = "order" /\ Mount
  /\ UNCHANGED <<nodeVars, seen, opening, timer>>
IncreaseOutgoing ==
  SetOrder("lightning", FALSE) \/ \E peer \in BOOLEAN : SetOrder("onchain", peer)
IncreaseIncoming == SetOrder("lightning", FALSE)

(* The sidebar leads back to an order that is opening or done, the browser's   *)
(* history to any.                                                             *)
ReturnToOrder ==
  /\ page = "elsewhere" /\ order # NoOrder
  /\ page' = "order" /\ Mount
  /\ UNCHANGED <<nodeVars, seen, orderVars, opening, timer, mixed>>

(* useRemoveSuccessfulChannelOrder: leaving a successful order removes it, but *)
(* not when the new page is outside of the layout that has the hook.           *)
Leave ==
  /\ page = "order"
  /\ page' = "elsewhere"
  /\ \/ UNCHANGED <<order, own>>
     \/ order.status = "success" /\ order' = NoOrder /\ own' = {}
  /\ mixed' = (mixed \/ Pending)
  /\ buying' = NotBuying
  /\ funds' = "gone"
  /\ UNCHANGED <<nodeVars, seen, made, started, opens, opening, timer>>

(* A page that is loaded anew, this one or another, keeps the order, a         *)
(* successful one too, and loses every call and timer of the browser.          *)
Reload ==
  /\ order # NoOrder
  /\ page' \in {"order", "elsewhere"} /\ Mount
  /\ opening' = FALSE
  /\ timer' = [t \in Tx |-> 0]
  /\ answer' = [t \in Tx |-> NoAnswer]
  /\ seen' = ListChannels
  /\ UNCHANGED <<channel, orderVars, mixed>>

(* fetchNodeDetails, which ends in any case, but does nothing if the order     *)
(* names no peer; with it the peers and the csrf token have come.              *)
FetchNodeDetails ==
  /\ PaysBitcoin /\ funds = "shown" /\ order.peer
  /\ funds' = "ready"
  /\ UNCHANGED <<nodeVars, seen, orderVars, page, started, opens, opening, buying, timer, mixed>>

(* The effect that opens the channel, once a visit.  Bound: one call at a time *)
(* on its way to the node.                                                     *)
Opens ==
  /\ PaysBitcoin /\ funds = "ready"
  /\ ~opening
  /\ started' = TRUE
  /\ opens' = opens + 1
  /\ opening' = TRUE
  /\ UNCHANGED <<nodeVars, seen, orderVars, page, funds, buying, timer, mixed>>
StartOpening == ~started /\ Opens

(* updateOrder merges into the order that is there now.                        *)
UpdateOrder(status, tx) ==
  /\ order' = [order EXCEPT !.status = status, !.tx = tx]
  /\ buying' = NotBuying
  /\ funds' = "gone"

(* The answer arrives at openChannel.                                          *)
OpenAnswered(t) ==
  /\ answer[t].state = "ok"
  /\ UpdateOrder("opening", answer[t].tx)
  /\ answer' = [answer EXCEPT ![t] = NoAnswer]
  /\ UNCHANGED <<channel, seen, made, own, page, started, opens, opening, timer, mixed>>

(* The invoice is requested once a mount, and the channels that are cached by  *)
(* then become the earlier ones: an old list may lack some of those.           *)
ListIsOld == \E t \in Tx \ own : seen[t] = "none" /\ channel[t] \in Listed
RequestInvoice ==
  /\ PaysLightning /\ ~buying.requested
  /\ buying' = [NotBuying EXCEPT !.requested = TRUE, !.prev = {t \in Tx : seen[t] \in Listed}]
  /\ mixed' = (mixed \/ ListIsOld)
  /\ UNCHANGED <<nodeVars, seen, orderVars, page, funds, started, opens, opening, timer>>

(* newChannel: the effect runs again whenever the cached channel has changed.  *)
NewChannelsUnfunded == {t \in Tx : seen[t] \in Listed} \ buying.prev
NewChannelsAny == Funded(seen)
NewChannels == Funded(seen) \ buying.prev
NewChannel ==
  /\ PaysLightning /\ buying.requested
  /\ \E t \in NewChannels :
       /\ buying.tx \in {"none", t}
       /\ <<buying.tx, buying.state>> # <<t, seen[t]>>
       /\ timer[t] < Timers
       /\ buying' = [buying EXCEPT !.tx = t, !.state = seen[t]]
       /\ timer' = [timer EXCEPT ![t] = @ + 1]
  /\ UNCHANGED <<nodeVars, seen, orderVars, page, funds, started, opens, opening, mixed>>

TimerFires ==
  /\ \E t \in Tx :
       /\ timer[t] > 0
       /\ timer' = [timer EXCEPT ![t] = @ - 1]
       /\ UpdateOrder("opening", t)
  /\ UNCHANGED <<nodeVars, seen, made, own, page, started, opens, opening, mixed>>

(* The page that follows the channel ends when the cached one is active.       *)
ActiveFound == Funded(seen)
Active == {t \in Tx : seen[t] = "active"}
ChannelOpening ==
  /\ page = "order" /\ order.status = "opening"
  /\ order.tx \in Active
  /\ UpdateOrder("success", order.tx)
  /\ UNCHANGED <<nodeVars, seen, made, own, page, started, opens, opening, timer, mixed>>

(* The channels page closes a channel of the cached list.                      *)
CloseChannel ==
  /\ page = "elsewhere"
  /\ \E t \in Tx : seen[t] # "none" /\ channel[t] \in Listed /\ ChannelClosed(t)

Effects == FetchNodeDetails \/ StartOpening \/ RequestInvoice \/ NewChannel \/ ChannelOpening
UserNext ==
  \/ IncreaseOutgoing \/ IncreaseIncoming \/ ReturnToOrder \/ Leave \/ Reload \/ CloseChannel
Next ==
  \/ NodeNext \/ UserNext \/ Effects \/ RefreshChannels \/ RefreshBalances
  \/ TimerFires \/ \E t \in Tx : OpenAnswered(t)

(* React runs the effects of what is shown, SWR polls the channels for a page  *)
(* that follows one, and the timer fires.                                      *)
FollowsPurchase == PaysLightning
FollowsOpening == page = "order" /\ order.status = "opening"
Follows == page = "order" /\ (order.status = "opening" \/ PaysLightning)
Poll == Follows /\ RefreshChannels
Fairness == WF_vars(Effects) /\ WF_vars(Poll) /\ WF_vars(TimerFires)
Spec == Init /\ [][Next]_vars
FairSpec == Spec /\ Fairness

--------------------------------------------------------------------------------
(* A visit of the order's page opens one channel at most, however often the    *)
(* polled balance takes the page that opens it away and brings it back, and    *)
(* whether the call fails, waits or was answered.                              *)
OneOpenPerVisit == opens <= 1

(* An order says "opening" or "success" only of a channel that was not funded  *)
(* at the node when the order was made, and if it pays on chain, of the one    *)
(* that was opened for it.  Excepted are an order that is left or replaced     *)
(* while a call or a timer is under way, a page that takes an old list for the *)
(* earlier channels, and a node that has two channels opening at a time.       *)
OwnChannel ==
  order.status \in {"opening", "success"} /\ ~mixed => order.tx \in own

(* "Your channel is open" is said of a channel that was usable once, whatever  *)
(* list it was read from and whatever call or timer comes back to the order.   *)
SuccessIsTrue ==
  order.status = "success" =>
    order.tx \in Tx /\ channel[order.tx] \in {"active", "inactive", "closed"}

(* Who stays with an order that is opening sees it succeed when the channel is *)
(* active and stays so.                                                        *)
ActiveUnseen ==
  /\ page = "order" /\ order.status = "opening"
  /\ order.tx \in Tx /\ channel[order.tx] = "active"
OpeningSucceeds == ActiveUnseen ~> ~ActiveUnseen

(* Who stays with a lightning order sees it open once a new channel is funded; *)
(* who reloads the page in between does not.                                   *)
FundedUnseen ==
  /\ PaysLightning /\ buying.requested
  /\ \E t \in Tx \ buying.prev : channel[t] \in HasFundingTx
PurchaseIsSeen == FundedUnseen ~> ~FundedUnseen

(* Who stays with an order that is to be paid on chain has the channel opened  *)
(* when the balance pays for it, in every visit anew: if the order names a     *)
(* peer.                                                                       *)
CanOpen == PaysBitcoin /\ order.peer /\ funds # "gone" /\ ~opening
FundsAreUsed == CanOpen /\ opens = 0 ~> opens > 0 \/ ~CanOpen

(* "userChannelId allows to locally keep track of the channel": the answer of  *)
(* OpenChannel is about the channel that it opened.                            *)
AnswerIsOwn ==
  \A t \in Tx : answer[t].state = "ok" => answer[t].tx = t
================================================================================
