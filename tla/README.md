# A verification development for Nostr Wallet Connect (Alby Hub)

TLA+ models of the wallet service in `src/` and of the browser application in
front of it, the TLC runs that check them on small instances, and TLAPS proofs
of what matters most. The models are translated from the Go and the TypeScript
source; `PROJECT.json` maps every definition to the
lines it stands for and lists the runs, the mutants that show each property
can fail, the hazards, the findings and the theorems.

## The system

The wallet connects a Lightning node to apps. An app sends an encrypted
request event (NIP-47) to a nostr relay, the wallet subscribes to the events
addressed to it, executes each one and publishes a response event.

| component | state | operations | interacts with |
|---|---|---|---|
| Request handling `nip47/event_handler.go`, `nip47/controllers` | rows of `request_events`, `payments`, `response_events`; `requestEvent.State` shared by the goroutines of one event | `HandleEvent`, one controller per method, `publishResponse`, `publishResponseEvent` | relay (events in, replies out), permissions, node, event publisher |
| Permissions `nip47/permissions` | rows of `app_permissions`; the `payments` rows of the budget period | `HasPermission`, `GetBudgetUsage` | read by every handler, written by the API |
| Notifications `nip47/notifications`, `nip47_service.go` | a queue of 1000 events, one notifier goroutine per subscription | `AddToQueue`, `ConsumeEvent`, `notifySubscribers` | event publisher, relay, node |
| Lifecycle `service/` | `lnClient`, `appCancelFn`, the wait group, one relay goroutine per start | `StartApp`, `StopApp`, `StopLNClient`, `Shutdown`, the relay loop, `finishRestoreNode` | everything; called by the API and by signals |
| Configuration `config/`, `service/keys` | rows of `user_configs`, some encrypted with the unlock password | `Get`, `SetUpdate`, `SetIgnore`, `ChangeUnlockPassword`, `keys.Init` | API, service, Alby account |
| API `api/` | the rows of apps; archives of the work directory | apps, start/stop, addresses, `CreateBackup`, `RestoreBackup` | service, configuration, node |
| Event publisher `events/` | listeners | `RegisterSubscriber`, `RemoveSubscriber`, `Publish` (one goroutine per listener and event) | everything |
| Alby account `alby/` | OAuth tokens in the configuration | token refresh, linking, draining the shared wallet, backups of channels | configuration, node, event publisher |
| LDK node `lnclient/ldk` | the event broadcaster's listeners | payments that wait for an event, channels, shutdown | node library, event publisher |
| HTTP front door `http/` | the session cookie | one handler per call; setup, start, unlock, logout | frontend, API |
| Frontend: front door `frontend/src` (routes, redirects, `screens/setup`, login, settings) | the route, the cached answer of `/api/info`, the setup store, `localStorage` | the wizard, login, unlock, logout, stop, change of the password, backup, restore | HTTP calls; redirects that react to the cached answer |
| Frontend: channel orders `screens/channels` | the order in `localStorage`, the cached channels and balances, timers | make, pay, follow, leave an order | HTTP calls that open and list channels |
| Frontend: connections `screens/apps` | the cached app, the form, the edit mode | create, show, edit, delete an app, wait for its first use | HTTP calls of the apps |
| Other backends, `wails/`, `lsp/` | none of their own that others rely on | translate calls | |

Hard behaviours: the relay delivers stored events again on every
subscription; every event runs in its own goroutine and multi_pay requests fork
one per payment; the process may crash between any two database statements; the
node may give up waiting for a payment that settles later; the user stops and
starts the node while events arrive. The pages act on answers that are out of
date, come late, get lost, or come back to another page than the one that asked;
redirects react to each other. The list of hazards in `PROJECT.json`
names each one with its line.

What makes the parts correct, in short:

* requests: an event is processed at most once, every payment it asks for is
  handed to the node at most once and only if permitted, the verdict given is
  true, the rows agree with the node, the state of a request is final and is
  eventually reached;
* permissions: the budget of a period is not exceeded;
* lifecycle: after a stop nothing uses the node, a start after a stop leaves one
  relay goroutine, waiting ends;
* notifications: what is queued reaches every permitted app once;
* configuration: what was written is read back, also after a change of
  password, and never under a second identity;
* restore: a crash never leaves a mixture of the old and the new files, and a restored hub comes up;
* front door: who may not enter is let out and who may is let in, redirects end,
  and no page can do to the hub what the hub's own calls would not allow;
* orders: a visit opens one channel at most, an order follows the channel that
  was opened for it, and is seen through;
* connections: a save changes what the user changed, and an app made from a link
  may do what the link asked for.

## Modules

| module | models |
|---|---|
| `Nip47Handler` | the life of a request event: `HandleEvent`, the controllers, `publishResponse`, with the database rows, the node, the user and crashes around them |
| `PayOnce` | the abstract promise: each payment of each event at most once, verdicts true and final |
| `MCNip47Handler` | the constants of the instances TLC checks |
| `Nip47HandlerProofs` | proofs of the inductive invariant and the safety theorems |
| `PaymentProofs` | the proofs that `Nip47Handler` implements `PayOnce` and keeps the budget |
| `ServiceLifecycle` | starts, stops, backups, the relay goroutines, signals and exit, sharing the fields of the service |
| `MCServiceLifecycle` | the constants of its instances |
| `ServiceLifecycleProofs` | proofs of its inductive invariants and safety theorems |
| `HubConfig` | the rows that the unlock password protects, the setup, start, stop, backup and restore calls, and the identity key |
| `HubConfigProofs` | proofs of its safety properties |
| `FrontDoor` | one browser in front of `HubConfig`: wizard, login, settings, redirects; extends `HubConfig`, whose actions are the calls its pages make |
| `MCFrontDoor` | its instance: a hub driven by the browser, or by another client of the API |
| `FrontDoorProofs` | the proof that `FrontDoor` implements `HubConfig`, which carries the theorems over |
| `ChannelOrder` | the channel order of the browser, the pages that follow it, and the node's channels behind them |
| `ChannelOrderProofs` | proofs of its safety properties |
| `Connections` | the pages of the connections over the API that keeps the apps |
| `MCConnections` | its instance, in which two fields of the permissions vary at a time |
| `ConnectionsProofs` | proofs of its safety properties |
| `RestoreFiles` | the files of a restore: `RestoreBackup`, the exit, and `finishRestoreNode` of the next start |
| `MCRestoreFiles` | the constants of its instance |
| `RestoreFilesProofs` | proof of its safety property |

### Nip47Handler

A *handler* `h` is one goroutine of `HandleEvent`; there are finitely many
(`Handlers`), which bounds the deliveries and is why the runs do not check for
deadlock: when every handler was used the model stops. `serves[h]` is its event, `at[h][Main]` its
place in the code up to the `switch` over the methods, and `at[h][k]` the place
of the goroutine that serves element `k` of a multi_pay list. Methods with one
piece of work have one slot. `verdict[h][t]` is the response a thread is about to publish and
`state[h]` the field `requestEvent.State`, shared by the threads of `h`.

| code | action |
|---|---|
| `StartSubscription`: `go HandleEvent` (any number of times per event) | `Deliver` |
| insert into `request_events` | `StoreRequest` |
| `db.First(&app)`, saving `AppId` | `FindApp` |
| shared secret, `Decrypt`, `Unmarshal`, dispatch | `OpenRequest` |
| decoding of parameters, `checkPermission` | `CheckPermission` |
| `db.Create(&payment)` | `CreatePayment` |
| `SendPaymentSync` / `SendKeysend`: the call, its return | `SendPayment`, `AwaitPayment` |
| `db.Save(&payment)` with the preimage, its error ignored | `SavePreimage` |
| the methods that only read | `AskNode` |
| `publishResponseEvent`: insert, `Publish`, update | `CreateResponseRow`, `PublishReply`, `SaveResponseRow` |
| `requestEvent.State = ...` and `db.Save(&requestEvent)` | inside the two actions before, and `SaveRequestState` |
| `wg.Wait` | `FinishEvent` |

Each database statement and each call of the node is a step of its own, so
every interleaving of statements of different goroutines is explored. The
statements may fail (`DbFaults`), the node may give up (`Timeouts`), the process
may crash and, restarting, lose all threads but no row (`MayCrash`). The user
changes permissions (`UpdateApp`, one transaction; with another renewal other rows
are before the start of the budget), they expire, and the period of an app may end (`RenewBudget`).
The two reads of `HasPermission`, the permission and the usage, are one step. Either may fail: a permission that
cannot be read is refused, while a usage that cannot be read counts as 0, since `GetBudgetUsage` ignores the
error of its query (`permissions.go:90`). Abstracted: contents, tags, amounts other than
the payments' (kept in msat, truncated to satoshis as the rows do), and logging.
`owner`, `sends` and `blind` are history variables: who inserted an event, how
often a payment was handed to the node, which apps got a payment allowed while
another one was not visible in the usage that was read (`Missed`: a payment whose row has no preimage yet, or any
payment of the period if the query failed), or were given a budget below what they had been allowed by then.

A repeated event is modelled as the code treats it: its insert fails, gorm does
not translate the error, and the handler goes on to answer an internal error
with a request id of 0, whose insert fails or not depending on whether the pooled
connection enforces foreign keys.

### ServiceLifecycle

The *n*-th start that passes its checks makes node *n*, context *n* and relay
goroutine *n*; `MaxStarts` bounds them. `Starters` are the goroutines that call
`api.Start` (one per HTTP request, forked by `startHandler`), `Operators` those
that call `api.Stop` or `CreateBackup`; a caller in both sets does one thing
after the other. `pc` is where each goroutine is, `lnClient`, `appCancelFn` and
`wg` are the fields of the service.

| code | action |
|---|---|
| `api.Start`, `StartApp` up to the launch | `BeginStart` |
| `launchLNBackend` | `LaunchSucceeds`, `LaunchFails` |
| `StartNostr` up to the fork, `svc.appCancelFn = cancelFn` | `StartNostr`, `RegisterCancel` |
| `StopLNClient`: the test, the call, its end, the assignment | `FindClient`, `CallShutdown`, `NodeStopped`, `ClearClient` |
| `api.Stop` (also after `ResetRouter` and `ChangeUnlockPassword`) | `BeginStop`, then `StopLNClient` |
| `CreateBackup`, `StopApp`, `db.Stop` and the archive | `BeginBackup`, `AppStopped`, `Archive` |
| the loop of the relay goroutine | `Connect`, `PublishInfo`, `Subscribe`, `Dropped`, `Ended`, `Retry`, then `StopLNClient` and `wg.Done` |
| `HandleEvent` with the client of the moment the event came | `DeliverRequest`, `HandleRequest` |
| the notifier with the client of the moment it was made | `ReportPayment`, `Notify` |
| `main` | `Signal`, `CloseServer`, `Exit` |

The fields are read and written by several goroutines without a lock, so every
access is a step of its own; in particular `StopLNClient` reads `svc.lnClient`
twice before it clears it. Two races that need two goroutines between two
adjacent statements are left out: both taking `ls.node` in `LDKService.Shutdown`
(lines 281 to 287), and a torn read of the interface `svc.lnClient`. Whether a
password is right, and whether sockets work, is a choice of the model. A
handler that meets an unusable client may also refuse the request before it
touches it. The nostr library is not part of `src/`: that the context of a subscription
ends with its connection, which then holds an error, is taken from how `StartNostr`
and `StartSubscription` use it. `Nip47Handler` lets one event be delivered any number of times because, after a
stop and a start, two relay goroutines subscribe to the same events.

### HubConfig

The rows of `user_configs` that are written with a password, and the calls that
write and read them. A row is a value, the password it was written with (`key`), and the
column `encrypted`, which `SetUpdate` stores only with a row that is new. `Read` and
`Written` are `get` and `SetUpdate` with that asymmetry: a value read without a
password comes back as its ciphertext, one read with a wrong one as an error. Besides the check row, the
seed, the identity and the credentials of Greenlight, one row stands for each kind: `BreezAPIKey` for those only a
setup writes (also the invite code and the mint), `LNDMacaroonHex` for those of LND and Phoenixd, which the
environment writes as well, with no password, at each start of the process. `Supplies` says whether it does.

| code | action |
|---|---|
| `NewConfig`: the rows the environment gives | `HubInit`, `ProcessRestarts` (`Supplied`) |
| `api.Setup`: the refusal, then its rows, one statement each | `AcceptSetup`, `WriteCheck`, `WriteBackend`, `WriteAPIKey`, `WriteMnemonic`, `WriteNode` |
| `startHandler`: the check, the cookie, the fork | `Start` |
| `StartApp`: the check, `launchLNBackend` with the credentials of Greenlight, `keys.Init` | `StartApp`, `LaunchFails`, `SaveCredentials`, `Launched`, `InitKeys`, `InitKeysUnread`, `InitKeysFails` |
| `unlockHandler`, `logoutHandler` | `Unlock`, `Logout` |
| `ChangeUnlockPassword` (one transaction) and the stop it asks for | `ChangePassword` |
| `stopHandler`, the end of a stop | `Stop`, `StopEnds` |
| `CreateBackup`, `RestoreBackup` with the exit and the next start | `Backup`, `Restore` |
| a process that ends and starts anew | `ProcessRestarts` |

With `DbFaults` a read may fail. Who checks the error goes on as after a refusal; who ignores it has an action or
a disjunct of its own: the hub that takes itself for one without a setup (`AcceptSetup`, `Restore`), the
credentials that are made anew (`SaveCredentials`), and `keys.Init`, which draws a new identity (`InitKeysUnread`). A
write that fails ends the process (`logger.Fatal`), which is `ProcessRestarts`.

`torn` is a history variable: the check row was written while a start, a setup, or a row
with another password was there, or a ciphertext was stored in a row that is flagged as clear text (`Misflags`, after a
failed read). `origin` says who wrote the node's row: one that both a setup and the environment wrote is `Mixed`, with the flag of the
first and the value of the last. `CheckedMeansReadable` excepts `torn` hubs and that one row, `IdentityStable` `torn` hubs, a start
whose read of the key failed, and an archive restored over a hub whose read of the check row failed. "Findings" says what happens in
each of them.

The bounds: `LN_BACKEND_TYPE` is the same at every start; an archive holds the rows of an LDK hub; the store of the
backup reminder, which is only shown, and of the cookie's secret are left out.

### FrontDoor

Extends `HubConfig` by one browser: `page` is the route, `info` the cached answer of
`/api/info`, `store` the setup store, `form` what the shown page keeps for itself. A call of
a page is the hub's own action, conjoined with what the handler does to the browser.
Handlers that go on after an `await` leave a token (`later`, `call`), since they go on even
when their page has been left. The redirects (`HomeRedirect`, `DefaultRedirect`,
`GuardRedirect`) are effects of the mounted components on the cached answer, which may be
out of date.

| code | action |
|---|---|
| `useInfo`: first fetch, poll, focus | `Refresh` |
| the redirects of `components/redirects`, and those of `Intro`, `Welcome`, `Unlock` and the restored page | `HomeRedirect`, `DefaultRedirect`, `GuardRedirect` |
| links, address bar, back button, reload | `UserGoes`, `Reload` |
| `Welcome` to `SetupFinish` | `Welcome`, `SetupAdvanced`, `SetupPassword`, `SetupNode`, `ImportMnemonic`, one action per `setup/node` form, `SendSetup`, `SendStart`, `GiveUp`, `TryAgain`, `RestoreNode` |
| `Start`, `Unlock`, `AlbyAuthRedirect` | `Login`, `UnlockPage`, `AuthCodeForm` |
| the menu of `AppLayout`, the settings | `LogoutMenu`, `Shutdown`, `ChangeUnlockPassword`, `BackupMnemonicPassword`, `BackupMnemonic`, `BackupNode` |
| what those handlers do once they are answered | `Refetched`, `Navigated` |
| the hub behind the browser | `HubWorks`, `HubStops`, `Crash` |

The abstract specification of `FrontDoor` is `HubConfig` itself: `HubSpec` lets anybody
make any call with any request, and the browser only chooses among them. `FormRows` bounds which rows of a node its
forms give; the answer to the page (`GetInfo`) is taken not to fail.

### ChannelOrder

One order in `localStorage`, the page that pays for it and follows it, and the node's
channels, each named by its funding transaction. `seen` is the cached list of channels,
`funds` is the page that opens a channel: `"gone"` while the cached balance does not cover the order, `"shown"` when
it is mounted, `"ready"` when it also has what its effect waits for (peers, the csrf token and the details of the
node, `CurrentChannelOrder.tsx:500`). The last come only for an order that names a peer (`fetchNodeDetails`, 381-383).

| code | action |
|---|---|
| `OpenChannel` of `ldk.go`: the call, the events that all waiting calls get, its timeout | `OpenChannel`, `ChannelPending`, `OpenFails`, `OpenTimesOut` |
| `ListChannels` of `ldk.go`: `active` is `IsUsable`, which comes and goes with the peer | `ChannelReady`, `PeerDisconnects` |
| a channel from elsewhere, or from the provider that was paid | `Inbound` |
| `useChannels`, `useBalances` | `RefreshChannels`, `RefreshBalances` |
| `IncreaseOutgoingCapacity`, `IncreaseIncomingCapacity`: `setOrder` | `IncreaseOutgoing`, `IncreaseIncoming` |
| going to the order, away from it (`useRemoveSuccessfulChannelOrder`), a fresh load of it or of any other page | `ReturnToOrder`, `Leave`, `Reload` |
| `PayBitcoinChannelOrder`: the details of the peer, the effect that opens, its answer | `FetchNodeDetails`, `StartOpening`, `OpenAnswered` |
| `PayLightningChannelOrder`: the invoice, the effect on a new channel, its timer | `RequestInvoice`, `NewChannel`, `TimerFires` |
| `ChannelOpening` | `ChannelOpening` |
| the channels page | `CloseChannel` |

`own` and `mixed` are history variables. `own` is kept from the node, not from the page's list: the channels that were opened for an on-chain
order, and those that were not funded at the node when a lightning order was made. `mixed` says that an order was left
with a call or a timer under way, that two channels were opening at a time, or that the page of a lightning
order took an old list for the earlier channels (`ListIsOld`): each of these lets an order speak of another
channel. `made` counts the orders.

### Connections

The apps of the database (`app`), what `useApp` has cached of them (`cache`), and a page with
its form. A call is sent, served or lost, and answered to whatever page is there by then.

| code | action |
|---|---|
| `CreateApp`, `UpdateApp`, `DeleteApp` of `api.go`, a refused or lost call | `CreateApp`, `UpdateApp`, `DeleteApp`, `CallFails` |
| a request of the app, another browser | `Use`, `Elsewhere` |
| `NewApp`: the link's methods and defaults | `NewApp` |
| `ShowApp`: from its card, or straight in the edit mode | `ShowApp`, `EditApp` |
| `Permissions`: scopes, budget, renewal, expiry | `Toggle`, `SetMax`, `SetRenewal`, `SetExpiry` (all of `EditForm`) |
| `handleSubmit`, `handleSave`, delete, edit, cancel | `HandleSubmit`, `HandleSave`, `HandleDelete`, `Edit`, `Cancel` |
| their answers, the refetch after a save | `CreateAnswered`, `SaveAnswered`, `Refetched`, `DeleteAnswered` |
| `useApp`: focus, retry, the poll of `AppCreated` and its end | `Refresh`, `Established` |

An expiry is a day and a time of it, or never; `ParseExpiresAt` is what `CreateApp` and `UpdateApp` do to it, which
is to move it to the end of its day, and every save sends it. `touched` (what the user has set since the form was filled), `excused` (since then something
changed elsewhere, or during a save) and the fields `kept` and `asked` of a call are history: `kept` is what the user left as it
is of an app that the page had as it is (`Kept`), and what the save may not change.
`PermittedMethods` is the node's map from scopes to methods and `InitialScopes` the page's
map from methods to scopes: two tables in two languages that `CreatedAsAsked` compares.

### RestoreFiles

What `Restore` of `HubConfig` takes for one step: the two directories (`work` and the
directory `restore` in it) as functions from files to what they hold, which is nothing, the hub's
own, or all or a part of what an archive has.

| code | action |
|---|---|
| `restoreBackupHandler`: the refusal of a hub that is set up (HTTP only); the call | `BeginRestore` |
| `extractZipEntry`: a file is made empty, then written; an error anywhere | `OpenFile`, `WriteFile`, `RestoreFails` |
| the answer, and the goroutine that exits five seconds later | `Restored`, `Exit` |
| `finishRestoreNode`: list, remove, list again, move | `Start`, `Remove`, `Removed`, `Move` |
| the end of it, and `NewDB` | `Opened` |
| a setup by hand, and the node it starts | `SetUp` |

Files in a directory of the archive go by the name of the directory (`Top`), which is what
`finishRestoreNode` lists, removes and moves. Any number of goroutines may restore at a time, as
in the code. `accepted` and `mixed` are history: the last restore if it was answered, and
whether it had the directory to itself. `DATABASE_URI` is taken to be `nwc.db`, its default: the
archive has the database under this name whatever it is called.

## Runs

| run | instance | shows |
|---|---|---|
| `dedup` | one event of two slots (an invoice, a keysend), two handlers, a budget of 3 sats, permissions that may expire, all faults, a failed read of the usage among them | `ProcessedAtMostOnce`, `LedgerMatchesNode`, `ExecutedMeansAnswered`, `OverBudgetOnlyWhenBlind`, `StateIsFinal` |
| `kinds` | six events: unreadable, stranger's, reading, half malformed, empty list, paying; two handlers; a budget of 3 sats; the user revokes permissions, lowers the budget and changes its renewal, budgets are renewed, the node times out | `NoSilentEnd`, `RefusedIsUnpaid`, `OverBudgetOnlyWhenBlind` |
| `answered` | two events sharing an invoice, no timeouts, faults or crashes, under fairness | `IInv`, `PaysOnce` with truthful verdicts, `Answered` |
| `overspend` | three payments of 2 sats (one of 2.999) against a budget of 5, no fault | counterexample to "maximum amount in sats that can be sent per renewal period" |
| `startstop` | two starters, one operator, two starts, LDK or a backend whose `Shutdown` may fail | `StopInv`, `OneNode`, `HeldNode`, `StopsOnlyWhenCancelled` |
| `sequential` | one caller that does everything, three starts | `BackupAtRest` |
| `onestart` | one starter, two operators, one start, a signal, under fairness | `ExitAtRest`, `StopAppReturns`, `SignalExits` |
| `setup` | two passwords (one empty), two keys; one browser, six backends, LDK preset, reloads and crashes; or a client of the API, LDK and Greenlight, an environment with a row and a database whose reads may fail; under fairness of the browser | `CheckedMeansReadable`, `IdentityStable`, `NewPasswordOpens` for the hub; `FrontTypeOK`, `LoggedOutIsOut`, `Settles`, `HubEntered` for the browser |
| `order` | two orders, with or without a peer, two channels that come and go, under fairness | `OneOpenPerVisit`, `OwnChannel`, `SuccessIsTrue`, `OpeningSucceeds`, `PurchaseIsSeen`, `FundsAreUsed` |
| `connections` | one app, two methods, two amounts, two renewals, one day to expire, two of the fields varied, under fairness | `ViewIsTrue`, `SavesWhatIsTouched`, `CreatedAsAsked`, `FirstUseIsSeen` |
| `restore` | a database and two node files, two restores, two crashes, under fairness | `RestoredWhole`, `RestoreEnds` |
| `crossed` | one order, two channels | counterexample to "userChannelId allows to locally keep track of the channel" |

Bounds. Two handlers suffice for a race about one event, since the loser of the
insert never touches the winner's rows, and for two different events to overlap in `kinds`. Two slots are the smallest multi_pay request whose goroutines share
`requestEvent`, and its two payments of 2 sats (one of 2.999) are the smallest
number of which one fits the budget and both do not. In `kinds` the two payments are of different
events; crashes, faults and expiry are left to `dedup`, budget renewals and changes of permission to `kinds`,
where the one grant the user may give revokes a permission and lowers the budget at once.
The type invariants of `Nip47Handler` and `ServiceLifecycle` are conjuncts of `IInv` and `StopInv`; that
of `RestoreFiles` is proved. What does not depend on a bound is proved below.

In `ServiceLifecycle` two starts are the smallest number for a relay goroutine
that outlives its node, two operators the smallest for stops that overlap. The
passing runs name what they exclude: `ExitAtRest` excepts a launch or a stop that the
API has in progress (`WaitShutdown` waits for relay goroutines only, so a signal
in such a moment leaves the node behind), `OneNode` and `HeldNode` hold with one stop
at a time and no signal, `BackupAtRest` with one call at a time, `StopAppReturns`
when the process was started once; "Findings" says how to see that one stop at a time and
one start are needed. A process that has exited or panicked stops, hence no check for
deadlock.

`MCFrontDoor` drives one hub in two ways. The browser meets a database that never fails and an environment that gives a
backend at most. The other client (`Api`) meets a database whose every read may fail and an environment that writes the node's row at
some starts; it asks for the two hubs of `Asked`, one whose rows meet the environment's and one whose node makes credentials of its own,
and leaves a hub that the properties except (`Excepted`). Both at once would ask the same of the pages many times over, and the
theorems have no such bound: `HubSpec` has every request, environment and failure at once. The empty password and one other are what `config.go` tells apart, and a
second key is all it takes to lose the first. Named in the model: one setup request is written at
a time, and nothing else is called in the five seconds before a restore exits; the user waits
for an answered handler before the next request (`later`); pages are loaded anew only
in the wizard; the store is dropped on pages that do not read it; the timer of 100 ms
that clears the return page fires before it is set again. The run leaves `Typed` empty: the
user follows links, the wizard and redirects; `LoggedOut` is proved with
every address typed. The settings pages are not behind
`DefaultRedirect` in `routes.tsx`, and `LoggedOutIsOut` does not speak of them; what they show
after a logout is what the API refuses to answer.

In `ChannelOrder` two orders and two channels are the smallest number for an order that meets
what another one left behind, or what was there before it. One open call is on its way at a time, a channel starts
at most two timers (one in `crossed`), and the balance is looked at only while a page does. An effect runs in the step that renders what it
hangs on; the guard on the node's details, which a mount resets, is also what keeps the effect from running before it.

In `Connections` one app keeps a million states; that calls come back for another app than the shown one is
left to the proofs, which hold for any number. In each behaviour two of the five fields (the two scopes, the amount, the renewal, the expiry)
vary, any two, and the others are as in `Usual`: what the pages and the API make of one field hangs at most on one other (a budget shown, and a
renewal set, with the scope that pays), and the proofs have all of them. Of the two methods one pays and goes by another scope's name, which is
where the tables of the two languages could disagree. Another browser gives an app what differs from `Usual` in one field
(`MCOthers`). Named in the model: the form changes while no call is under way or after
its own save was served, and a new connection is not begun during a save; `Uses = 1`, as the wait ends with the first request; one call
of the pages at a time; and the answer of a read is atomic. The pages give days in UTC. The node takes the end of the day in the zone of the date it
is given, so that a client of the API with another zone would find its expiry moved by a save of the page.

In `RestoreFiles` two node files share a directory, so that one of them may be whole and the
other not; an archive may have neither, as a backend without a storage directory makes. Two restores
are enough for one to find what the other left, or to run beside it, and two crashes for a start
that is cut short to be cut short again. The instance is the desktop's, which has the behaviours of the
server, and restores of a hub that is set up besides. A database that was cut short is refused when opened,
or counts as new when it is empty; both are in the model. The system stops when all restores were asked for.

Fairness of `RestoreFiles`: the timer of the exit fires, and a process that has ended is started
again and goes on, by the cloud it runs in or by the user, whom the page asks to. Nothing is assumed
of the unpacking.

Fairness of `ServiceLifecycle`: goroutines that can run do; connecting, subscribing and
`Shutdown` end since sockets have time limits and `LDKService.Shutdown` gives up
after 120 seconds. A context that is done is noticed before the timer of ten
seconds. Nothing makes calls, requests, payments or signals happen, nor a launch end.

Fairness (`answered`): each goroutine that can run is eventually run by the
Go scheduler, and each payment in flight is resolved since HTLCs expire. Without
faults nothing else is needed. With `DbFaults` or `MayCrash` the property fails,
as the code has no recovery of requests left `executing`: the run
says what holds when nothing fails.

Fairness of the browser (`setup`, `order`, `connections`): React runs the effects of the
page that is shown, SWR polls where the code asks it to (every three seconds, on the start,
finish and restored pages, on the page of an order, on `AppCreated`), an answer
reaches the page if it is polled again and again, and timers fire. Nothing is assumed of
the user, of the node or of other calls.

## Proofs

The theorems about requests hold for every value of the constants that satisfies
`ConstantsAssumption` (the model values are distinct, bodies name existing slots
and work, permissions are records): any number of apps, events, slots,
payments and deliveries (events and slots finitely many), faults on or off.

`ProcessedAtMostOnce` is not inductive: it says nothing of who may send. `IInv`
adds

* `Assigned`: a thread that runs has an event, and the thread of a slot one that
  was read and whose sender is an app;
* `OneOwner`: an event has at most one owner, and only the owner goes past the
  insert; this is where the unique index enters;
* `NotYet`: before its thread is past the step that does it, a slot has no row and no payment;
* `Ledger`: the count of payments, the node and the row agree;
* `Knows`: what a thread may assume of its slot at each step;
* `RepliesNotYet`: a reply of a slot comes from its owner's thread, past publishing.

`Nip47HandlerProofs` proves `Init => IInv` and that each action preserves it. A
step of a thread changes only its own cells (`Moves`, `Cells`); `LocalCore` and
`MainCore` show once that the rest of the invariant survives such a step. From it:
`TypeCorrect`, `AtMostOnce`, `LedgerCorrect`, `RefusedUnpaid`, and, with
`RecordReady`, `FinalState` (an action property). `PaymentProofs` maps
`attempt` and `replies` to the variables of `PayOnce` and proves `Implements`.

`ExecutedAnswered` says that a request is `executed` only when a thread of its owner has recorded a reply and tried to
publish it, and that a `confirmed` reply is out. No single row knows this: several threads of the owner share `requestEvent.State`, and each saves what is in it, not what it
did itself. `Answering` carries the fact along the way it takes:

* `Unsaved`: a thread whose insert failed (`save_failed`) is no owner of its event, so the state it sets reaches no row;
* `MainAnswers`: `HandleEvent` itself answers only for the owner or after such a failure;
* `Recorded`: a thread that is past `Publish` with the row `confirmed` has a reply that is out;
* `ExecutedRecorded`: a state of `executed`, in memory or in a row, was set by a thread of the owner
  that had tried to publish.

`NoRequestForgotten` (`NoSilentEnd`) assumes that no statement fails, and TLC shows that it must: a
failed `db.Save(&requestEvent)` is not repeated. `Served` says what each thread of the owner leaves behind: a thread
that is done has left a final state, but for `HandleEvent` over an empty list, which no thread serves.

### Budgets

`BudgetHolds` proves `OverBudgetOnlyWhenBlind`: until an app is `blind`, what was paid for it since the start of
the period is within its budget. That is a statement about settled payments, and the usage of
`GetBudgetUsage` is a statement about rows with a preimage; neither bounds the other by itself. `BudgetInv` counts
what *stands*: each payment that was allowed and has not failed, from the check on. For an app that is not
`blind` nothing was `Missed` when it was allowed one more (a query that failed misses all there is), so the sum of what stands is
the usage then read, plus the new amount, which `HasPermission` compared with the budget. Every other step takes payments away,
moves them into the past (rows only, which is why what is before its row stays in the sum) or leaves the sum alone.
A user who changes the budget is compared with it in the same step.

The sums are `Total(S)`, a fold over a finite set. Since no theorem with an operator parameter can be used,
what a sum over a set with one more element is (`TotalOf`), that it is a natural number (`TotalNat`) and
grows with the set (`TotalGrows`) is proved by the smallest counterexample (`Smallest`, from the well-foundedness of
the strict subset relation): `SumsAgree` and `SumsExist` show that exactly one function fits the fold's recursion.

### One node at a time

`ServiceLifecycleProofs` proves `OneNode`, `HeldNode` and `StopsOnlyWhenCancelled` for any
number of starts and of goroutines that start, under `OneOperator`: one goroutine stops
and backs up, and no signal comes ("Findings" says what two of them do).
`OneNode` is not inductive: that a start finds no client says nothing of a node that is
still running somewhere. `StopInv` adds

* `CallersInv`: the mutex of `api.Start` is held while a start is in progress, by one caller;
* `StartsInv`: the relay goroutine of that start does not exist before its time, and
  nobody can cancel it; later starts have not begun;
* `LoopsInv`: `wg` counts the relay goroutines, and of the cancelled ones at most one
  runs, while the operator waits for it in `StopApp`;
* `NodesInv`: the client of the service is a running node unless the one goroutine in
  `StopLNClient` has reached it, and then it is that goroutine's.

From `CallersInv` and `LoopsInv` the lemma `OneStopper` follows: no two goroutines are in `StopLNClient` at
once, so its two reads of `svc.lnClient` and the assignment see the same client. The
actions of `StopLNClient` are proved with `StopMoves` and `LeaveMoves`, the starts
with `StarterMoves`, and the steps of the relay goroutine with `LoopInv`.

### Types, backups and the exit

Three more theorems, each under what TLC showed it to need.

`TypeCorrect` has no hypotheses. What is not obvious in it is `wg`: that `Done` is never called once too often, however many
stops and signals meet. `BaseInv` is the part of `StopInv` that survives several operators (`CallersInv`, `StartsInv`, and
`Counted`, that `wg` is the number of relay goroutines); `Recount` follows the count through each step.

`BackupAlwaysAtRest` proves `BackupAtRest` for one caller, on LDK, for any number of starts: relay
goroutines of earlier starts may be anywhere. `RestInv` says that the client that is set belongs to a relay goroutine that has
not ended and whose cancel function is the one registered, so that `StopApp` reaches it, and that nothing runs during the archive.
With two callers a backup may come between `launchLNBackend` and `svc.appCancelFn = cancelFn`, find no function to
call, and archive beside a running node; with another backend a `Shutdown` that failed leaves the client behind.

`ExitAlwaysAtRest` proves `ExitAtRest` for a hub that is started once in the life of its process, on LDK, for any number of
operators and with signals. Several stops may overlap here, so `StopInv` is of no use; `ExitInv` follows the one node:
while it runs the service holds it or a launch is in progress, while it stops a goroutine waits for it, once stopped it stays so, and its relay goroutine ends
only after it. With two starts the property fails (a stop and a start later the
relay goroutine of the first node clears the client of the second), and so it does with a backend whose `Shutdown` may fail.

### The hub's rows and the pages in front of them

`HubConfigProofs` proves `CheckedMeansReadable`, `IdentityStable` and `NewPasswordOpens` for every set
of passwords, keys and backends, every environment, and reads that fail. None is inductive: that the check row opens says nothing of the
seed's row. `HubInv` adds `RowShape` (a row that is absent has no flag, and what the environment alone has written is clear
text, `Signed`), `SetupShape` (what a setup in progress still has to write is not there: `SetUpdate` would
keep the flag of an older row) and `OnePassword`: unless `torn`, every row but a `Mixed` one is `Sound`, that is
encrypted with the password of the check row or clear text, the setup in progress has that password too, and a start past its
check holds one that reads it. `WrittenSound` is where the asymmetry of `SetUpdate` enters, `SuppliedShape` and `RestartShape` what a start of the
process writes over all this.

`FrontDoorProofs` proves `ImplementsHub`, that every step of `FrontDoor` is a step of `HubNext` or leaves
the hub alone (`NextIsHub`, from `Requests`: the store is always a request the hub may be sent),
and from it the hub's theorems for the two together. `LoggedOut` needs `DoorInv`:
`OnlyAfterSetup` (a session, a running hub or a cached answer that says so comes after a setup) and `LogoutFetches`
(while no session is there but the cached answer has one, a refetch is on its
way). `FrontTypeCorrect` rests on `Caches` and `Pages`.

### Connections and orders

`ConnectionsProofs` has two invariants. `ConnInv` says that the form differs from the cached app only in what
the user has touched (`FormAgrees`), that this is carried over to the call (`SaveAgrees`), that
a form from a link has that link's scopes (`FormAsAsked`, `CallAsAsked`), and that the apps, the form of a
shown app and a save expire at the end of a day (`AppsRounded`, `FormRounded`, `SaveRounded`): this is why a save, which rounds
the expiry again, does not move it (`ParseTwice`). `Saves` and `Created` follow. `EditInv` is for `ShowsTruth`: the page shows the cached app, or it is being edited, or it was
just saved and has what the hub has (`FormIsTrue`); it needs that a call knows whether its page
is there still (`MountedHere`), that what was sent is what the page shows (`SendsForm`), and that
an answer shown again is the same (`CacheIsView`).

`ChannelOrderProofs` proves `OrderInv`: the list of channels is behind the node and never ahead (`SeenBehind`), what a
lightning order may not speak of was funded (`Earlier`) and is among what its page noted with the invoice, unless it was closed since
(`Noted`), and while nothing is mixed up every call, answer and timer under way is the order's own
(`Owned`). `OwnChannelOnly`, `OneOpen` and `SuccessHolds` follow; the last has no exception, since whatever channel an order
speaks of, its success was read from a list.

### Restored files

`RestoreFilesProofs` proves `RestoredWhole` for every set of files and archives, every `Top`, and any
number of restores and crashes. It speaks of a hub that is up, and says nothing of the start before;
`IInv` adds

* `Unpacks` and `Answers`: a restore that has the directory to itself leaves there what it has written so
  far, and all of the archive when it is answered;
* `InOnePlace`: after the exit, each name of the archive is in the restore directory as a
  whole, or in the work directory as a whole and no longer in the other. A crash changes nothing
  of this, so the next start may begin anew;
* `Loops`: a name that is to be removed is still in the restore directory, and what is still
  to be moved is all that is there. This is why a start may remove before it moves: it lists the restore
  directory, not the work directory that its error message names (`service.go:171-173`).

### What is assumed

Each module names its assumption on constants, and TLC evaluates them all: `ConstantsAssumption`
(`Nip47Handler`), `ConfigAssumption` (the model values differ, LDK is a backend, the empty password is one), `DoorAssumption`
(the six backends, pages behind the guard are none of the others, the forms give rows of a node), `OrderAssumption`,
`ConnectionsAssumption` ("none" is no app, there is a method, 0 is an amount, "never" is no day), `OthersAssumption` (what another browser
gives an app was written by `UpdateApp`: it has a renewal and expires at the end of a day), `RestoreAssumption`
(every archive has the database, under a name of its own), and those of
`ServiceLifecycle`. `ConstantsAssumption` has the events and slots finite, as sums over them must be.
Hypotheses of single theorems, which hold of the runs that check the property: `~DbFaults` (`NoRequestForgotten`), `OneOperator` (one
goroutine stops or backs up, no signal), `OneCaller` (one goroutine calls the API, no signal), `StartedOnce` (one start), and
`Backends \subseteq {"LDK"}`, the backend that the hub embeds and whose `Shutdown` always ends with no node.

### What is only model-checked

Every invariant and every action property of the passing runs, and the refinement, is a theorem. What stays with TLC
are the liveness properties: `Answered`, `StopAppReturns`, `SignalExits`, `Settles`, `HubEntered`,
`OpeningSucceeds`, `PurchaseIsSeen`, `FundsAreUsed`, `FirstUseIsSeen` and `RestoreEnds`. Liveness under
fairness rests on ENABLED, which is out of the prover's reach, as are induction over data and recursive operators.

## Findings

* `overspend`: the budget is checked against rows with a preimage only, so
  concurrent payments exceed it. `OverBudgetOnlyWhenBlind` bounds the damage:
  only payments in flight, or whose outcome was not recorded, are missed (and the user may
  set a budget below what was paid), or all of them when the query of the usage fails.
* `crossed`: `OpenChannel` of LDK takes the first pending or closed channel for its
  own, so of two channels that open at a time one call is answered with the other's
  funding transaction, or with its failure. `OwnChannel` says what holds otherwise.

Seen while modelling, with the models as they are:

* a repeated event is answered with an internal error: the branch that drops it is dead,
  since gorm does not translate the error (`StoreRequest` of `Nip47Handler`);
* with `Operators = {o1, o2}` in `MCStartStop.cfg` `OneNode` fails: a second `api.Stop` clears `svc.lnClient` while
  the first one still stops the node, and a start then runs a second node on the same directory;
* with `MaxStarts = 2` in `MCOneStart.cfg` `StopAppReturns` fails: after a stop and a start the old relay goroutine
  is never cancelled, and `StopApp`, hence `CreateBackup`, waits for it forever;
* with two callers in `MCSequential.cfg` `BackupAtRest` fails, and with `MaxStarts = 2` in `MCOneStart.cfg` `ExitAtRest`:
  "Types, backups and the exit" says how;
* `api.Stop` leaves the relay goroutine, the handlers and the notifiers running with a client that is
  nil or has no node: `PublishInfo`, `HandleRequest` and `Notify` may panic;
* "Try again" of `SetupFinish.tsx:73` cannot succeed once the setup was written: the hub
  refuses another one (`SendSetup`), and a hub that crashed within its setup stays without a backend;
* a crash between two moves of `finishRestoreNode` (`service.go:190`) is survived (`RestoredWhole`), but a restore that
  failed halfway leaves its files behind (`backup.go:204`): the next archive is unpacked over them, and the next start moves
  them in, even over a hub that was set up since. With the premise `~mixed` dropped `RestoredWhole` fails;
* the error of the usage's query is ignored (`permissions.go:90`): while it fails every payment is checked against a usage
  of 0 (`CheckPermission` with `read` false);
* the check row is read with its error ignored (`GetInfo`, `api.go:577`): a hub that is set up can be set up or restored
  again while the read fails (`AcceptSetup`, `Restore`), after which a second password was written over rows of the first (`torn`). A
  hub that was set up without a password and then again with one has a check row that is not flagged as encrypted, which no password opens;
* `keys.Init` ignores the error of its read (`keys.go:27`): a start whose read of the key fails draws a new identity
  (`InitKeysUnread`), and all connected apps are lost with the old one. Without that exception `IdentityStable` fails;
* `config.go:143-147` updates a row's value and leaves its `encrypted` column. With `LNDMacaroonHex` given by the environment first and by a setup
  later, the ciphertext is flagged as clear text and goes to the node as it is. In the other order the clear text is flagged as encrypted: it
  cannot be decrypted, so that the node does not launch and `ChangeUnlockPassword`, which reads every encrypted row, is refused for ever.
  Without `Mixed` `CheckedMeansReadable` fails;
* the page of a lightning order takes the cached list for the earlier channels (`CurrentChannelOrder.tsx:538-547`): if the list is old,
  a channel that was funded before the order is taken for the bought one (572), and the order ends with a success that is
  not its own. Without `ListIsOld` in `mixed` `OwnChannel` fails;
* an on-chain order of a peer whose key was left empty never opens, whatever the balance: `fetchNodeDetails` returns before it says that the details have
  come (381-383), and the effect waits for them (500). `FundsAreUsed` excepts it (`order.peer`);
* a successful order that is loaded anew on another page stays: the hook's path is the new page's from the start
  (`useRemoveSuccessfulChannelOrder.ts:7-12`), and the sidebar goes on to show it (`SidebarHint.tsx:37`), until the order's page is visited and left;
* `README.md:264` and 265 give `never` and `pay_invoice` as the defaults of a link; `NewApp.tsx` takes `monthly` and
  all methods of the wallet (`NewApp`, `Asked`).

## Plan

Done: requests (`Nip47Handler`, `PayOnce`), lifecycle (`ServiceLifecycle`), the configuration and the front door
(`HubConfig`, `FrontDoor`), orders (`ChannelOrder`), connections (`Connections`), restored files
(`RestoreFiles`), each with its proofs. What would come next, in this order:

1. `Notifications`: publisher, bounded queue, notifiers of successive subscriptions.
2. `LdkBroadcaster`: the broadcaster's channels and `SendPaymentSync` listening for its payment.
3. `AlbyOAuth`: tokens, linking, the fee of draining the shared wallet.
4. Safety invariants behind the liveness properties (what a state that waits may rely on), and their proofs.

## Not modelled, and why

* How `CreateBackup` writes its archive (`RestoreFiles` begins with archives that exist, whole or cut short); a file
  outside the archive's names, which no restore touches. Notifications are best effort; the event publisher has no state but its listeners.
* The broadcaster of `ldk_event_broadcaster.go`: the models let every listener get every event, which is what it is for.
* The Alby account beyond whether it is connected, LSP orders and esplora: calls to services whose
  behaviour is not in the repository.
* The other backends and `wails/`: translations of single calls. The desktop build has no session, so
  `LoggedOutIsOut` says nothing of it.
* Of the frontend: peers (`ConnectPeer` is one call, its failure is `OpenChannel`'s), on-chain addresses, sending and
  receiving, the migration of Alby funds, the checklist and the layout: forms around one call each.
* Migrations (one-time SQL), the ciphers (library calls), logging and the profiler.
