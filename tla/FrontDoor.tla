------------------------------- MODULE FrontDoor -------------------------------
(* One browser in front of the hub of HubConfig: the setup wizard, the login   *)
(* and unlock pages, the settings that reach the rows and the node, and the    *)
(* redirects that decide, from the cached answer of /api/info, which page is   *)
(* shown (src/frontend/src).  Every call a page makes is the hub's own action. *)
EXTENDS HubConfig

CONSTANTS
  Inner,      \* the pages behind DefaultRedirect
  Typed,      \* bound: the routes the user may type, or reach with the back button
  FormRows,   \* bound: which of the rows of a node the forms of the wizard give
  Faults      \* bound: "reload" of the page, "crash" of the hub, as far as a run admits them

VARIABLES
  page,       \* the route that is shown
  next,       \* where the password page leads: its search parameters
  from,       \* the history entry before the page that finishes the setup
  form,       \* the local state of the page
  store,      \* SetupStore: the setup request the wizard is filling in
  call,       \* finishSetup, which goes on when its page has been left
  later,      \* what a handler still does after the answer it awaits
  info,       \* useInfo: the cached answer, or NoInfo
  returnTo,   \* the page in localStorage that a login returns to
  alby        \* an Alby account is connected

browserVars == <<page, next, from, form, store, call, later, info, returnTo, alby>>
vars == <<hubVars, browserVars>>

PhraseBackends == {"LDK", "GREENLIGHT", "BREEZ"}     \* hasMnemonic
WizardForms == {"ldk", "lnd", "greenlight", "breez", "phoenix", "cashu", "preset"}
SetupPages == {"password", "advanced", "import", "node", "restore", "finish"} \cup WizardForms
Settings == {"settings", "changePassword", "keyBackup", "nodeBackup"}
Outer == {"/", "intro", "welcome", "start", "unlock", "alby", "onboarding", "restored", "backupDone"}
           \cup SetupPages \cup Settings
Page == Outer \cup Inner

ASSUME DoorAssumption ==
  /\ Backend = {"LDK", "LND", "GREENLIGHT", "BREEZ", "PHOENIX", "CASHU"}
  /\ "home" \in Inner /\ Inner \cap Outer = {}
  /\ Typed \subseteq Page /\ FormRows \subseteq Given

NoInfo == [completed |-> FALSE, running |-> FALSE, unlocked |-> FALSE,
           alby |-> FALSE, loaded |-> FALSE]
Answered == [completed |-> SetupCompleted, running |-> running, unlocked |-> session,
             alby |-> alby, loaded |-> TRUE]
NoCall == [sent |-> FALSE, password |-> Empty, shown |-> FALSE]

FrontTypeOK ==
  /\ TypeOK
  /\ page \in Page /\ next \in {"node", "import", "ldk", "preset"} /\ from \in Page
  /\ form \in {"idle", "busy", "failed", "refused", "shown"}
  /\ store \in Request
  /\ call \in [sent : BOOLEAN, password : Password, shown : BOOLEAN]
  /\ later \in {"none", "refetch", "navigate", "refetch only"}
  /\ info \in [completed : BOOLEAN, running : BOOLEAN, unlocked : BOOLEAN, alby : BOOLEAN,
               loaded : BOOLEAN]
  /\ returnTo \in Inner \cup {"none"}
  /\ alby \in BOOLEAN

BrowserInit ==
  /\ page = "/" /\ next = "node" /\ from = "/" /\ form = "idle"
  /\ store = NoSetup
  /\ call = NoCall
  /\ later = "none"
  /\ info = NoInfo
  /\ returnTo = "none" /\ alby = FALSE
Init == HubInit /\ BrowserInit

(* A page is mounted; the import page forgets an earlier phrase when it is, so *)
(* that one pressed back for is not kept.  Bound: the store is dropped where    *)
(* nothing reads it any more, outside the wizard of a hub that is set up.      *)
Show(p, s) ==
  /\ page' = p
  /\ form' = "idle"
  /\ store' = IF info.completed /\ p \notin SetupPages THEN NoSetup
              ELSE IF p = "import" THEN [s EXCEPT !.mnemonic = "none"] ELSE s
  /\ from' = IF p = "finish" THEN page ELSE "/"
  /\ call' = [call EXCEPT !.shown = FALSE]
Goto(p) == Show(p, store)

--------------------------------------------------------------------------------
(* The redirects.  Each is an effect of a mounted component on the info it has *)
(* rendered.                                                                   *)

Inside == info.running /\ info.unlocked /\ info.alby
Loaded == info.loaded

HomeLeaves == Loaded /\ page = "/"
DefaultLeaves == Loaded /\ page \in Inner /\ ~Inside
OnboardingLeaves == Loaded /\ page = "onboarding" /\ ~Inside
SetupLeaves == Loaded /\ page \in SetupPages \cup {"restored"} /\ info.completed /\ info.running
StartLeaves == Loaded /\ page = "start" /\ ~(info.completed /\ ~info.running)
UnlockLeaves == Loaded /\ page = "unlock" /\ ~info.running
WelcomeLeaves == Loaded /\ page \in {"intro", "welcome"} /\ info.completed
RestoredLeaves == Loaded /\ page = "restored" /\ info.completed

Redirecting == \/ HomeLeaves \/ DefaultLeaves \/ OnboardingLeaves \/ SetupLeaves
               \/ StartLeaves \/ UnlockLeaves \/ WelcomeLeaves \/ RestoredLeaves

HomeTargetUnset ==
  CASE info.completed /\ info.running /\ Inside -> returnTo
    [] info.completed /\ info.running /\ info.unlocked /\ ~info.alby -> "alby"
    [] info.completed /\ info.running /\ ~info.unlocked -> "unlock"
    [] info.completed /\ ~info.running -> "start"
    [] ~info.completed -> "intro"
HomeTargetSkipsIntro ==
  CASE Inside -> IF returnTo = "none" THEN "home" ELSE returnTo
    [] info.running /\ info.unlocked /\ ~info.alby -> "alby"
    [] info.running /\ ~info.unlocked -> "unlock"
    [] ~info.running -> "start"
HomeTarget ==
  CASE info.completed /\ info.running /\ Inside -> IF returnTo = "none" THEN "home" ELSE returnTo
    [] info.completed /\ info.running /\ info.unlocked /\ ~info.alby -> "alby"
    [] info.completed /\ info.running /\ ~info.unlocked -> "unlock"
    [] info.completed /\ ~info.running -> "start"
    [] ~info.completed -> "intro"

(* A login returns to the page that was asked for.  Bound: the timer that then  *)
(* removes it from localStorage, 100 ms later, fires before it is set again.   *)
HomeRedirect ==
  /\ HomeLeaves
  /\ Goto(HomeTarget)
  /\ returnTo' = IF HomeTarget \in Inner THEN "none" ELSE returnTo
  /\ UNCHANGED <<hubVars, next, later, info, alby>>

DefaultRedirect ==
  /\ DefaultLeaves
  /\ returnTo' = page
  /\ Goto("/")
  /\ UNCHANGED <<hubVars, next, later, info, alby>>

GuardRedirect ==
  /\ OnboardingLeaves \/ SetupLeaves \/ StartLeaves \/ UnlockLeaves \/ WelcomeLeaves \/ RestoredLeaves
  /\ Goto("/")
  /\ UNCHANGED <<hubVars, next, later, info, returnTo, alby>>

Redirect == HomeRedirect \/ DefaultRedirect \/ GuardRedirect

(* The first fetch, a poll every three seconds, or a focus of the window.      *)
(* Bound: the hub's reads for this answer do not fail.                         *)
PollingOnce == ~Loaded
Polling == ~Loaded \/ page \in {"start", "finish", "restored"}
Refresh ==
  /\ info # Answered
  /\ info' = Answered
  /\ UNCHANGED <<hubVars, page, next, from, form, store, call, later, returnTo, alby>>
Poll == Polling /\ Refresh

--------------------------------------------------------------------------------
(* The wizard.  The user acts on a page whose effects have run.                *)
Settled == Loaded /\ ~Redirecting

Wizard(p, s) == Show(p, s) /\ UNCHANGED <<hubVars, next, later, info, returnTo, alby>>

(* The router is a hash router: a link, the back button or the address bar     *)
(* shows another page and keeps the store.                                     *)
Links ==
  CASE page = "intro" -> {"welcome"}
    [] page = "welcome" -> {"advanced"}
    [] page \in Inner \cup Settings -> Inner \cup Settings \cup {"onboarding"}
    [] OTHER -> {}

UserGoes ==
  /\ Settled
  /\ \E p \in (Links \cup Typed) \ {page} : Goto(p)
  /\ next' = "node"
  /\ UNCHANGED <<hubVars, later, info, returnTo, alby>>

(* Bound: the page is loaded again only on the wizard's pages and at rest.     *)
Reload ==
  /\ "reload" \in Faults
  /\ Settled /\ page \in SetupPages /\ later = "none"
  /\ store # NoSetup
  /\ store' = NoSetup
  /\ form' = "idle"
  /\ call' = [call EXCEPT !.shown = FALSE]
  /\ info' = NoInfo
  /\ UNCHANGED <<hubVars, page, next, from, later, returnTo, alby>>

(* Before the setup info.backendType is that of the environment.               *)
Welcome ==
  /\ Settled /\ page = "welcome"
  /\ next' = IF preset = "none" THEN "ldk" ELSE "preset"
  /\ Goto("password")
  /\ UNCHANGED <<hubVars, later, info, returnTo, alby>>

SetupAdvanced ==
  /\ Settled /\ page = "advanced"
  /\ \/ next' = "import" /\ Goto("password")
     \/ next' = "node" /\ Goto("password")
     \/ UNCHANGED next /\ Goto("restore")
  /\ UNCHANGED <<hubVars, later, info, returnTo, alby>>

(* The password goes into the store with each key; the form is submitted with  *)
(* the same one, not empty, in both fields.                                    *)
SetupPassword ==
  /\ Settled /\ page = "password"
  /\ \E pw \in Password \ {Empty} : Show(next, [store EXCEPT !.password = pw])
  /\ next' = "node"
  /\ UNCHANGED <<hubVars, later, info, returnTo, alby>>

(* The page asks each backend for what it needs.                               *)
FormOf(b) ==
  CASE b = "LDK" -> "ldk" [] b = "LND" -> "lnd" [] b = "GREENLIGHT" -> "greenlight"
    [] b = "BREEZ" -> "breez" [] b = "PHOENIX" -> "phoenix" [] b = "CASHU" -> "cashu"

SetupNode ==
  /\ Settled /\ page = "node"
  /\ \E b \in IF store.mnemonic = "none" THEN Backend ELSE PhraseBackends :
       Goto(FormOf(b))
  /\ UNCHANGED <<hubVars, next, later, info, returnTo, alby>>

ImportMnemonic ==
  /\ Settled /\ page = "import"
  /\ Wizard("node", [store EXCEPT !.mnemonic = "imported"])

(* The credentials of a node that exists are all there is to ask; a wallet     *)
(* that is made from a phrase needs one, even when one was imported before.    *)
(* The store keeps what an earlier form put there.                             *)
ConnectsTo(b, given) ==
  /\ Settled /\ page = FormOf(b)
  /\ Wizard("finish", [store EXCEPT !.backend = b, !.given = @ \cup (given \cap FormRows)])
MakesWallet(b, given) ==
  /\ Settled /\ page = FormOf(b)
  /\ Wizard("import", [store EXCEPT !.backend = b, !.given = @ \cup (given \cap FormRows)])

LNDForm == ConnectsTo("LND", {"LNDMacaroonHex"})
PhoenixdForm == ConnectsTo("PHOENIX", {"LNDMacaroonHex"})
CashuForm == \E given \in SUBSET {"BreezAPIKey"} : ConnectsTo("CASHU", given)
GreenlightForm == MakesWallet("GREENLIGHT", {"BreezAPIKey"})
BreezForm == MakesWallet("BREEZ", {"BreezAPIKey"})

(* Two pages that ask for nothing and go on by themselves.                     *)
LDKForm ==
  /\ Settled /\ page = "ldk"
  /\ Wizard("finish", [store EXCEPT !.backend = "LDK",
                                    !.mnemonic = IF @ = "none" THEN "generated" ELSE @])

PresetNodeForm ==
  /\ Settled /\ page = "preset" /\ preset # "none"
  /\ Wizard("finish", [store EXCEPT !.mnemonic = IF preset \in PhraseBackends
                                                 THEN "generated" ELSE @])

(* finishSetup is called once by each mounted SetupFinish; a refusal shows the *)
(* error.  Bound: one call at a time.                                          *)
SendSetup ==
  /\ page = "finish" /\ form = "idle" /\ ~call.sent
  /\ \/ /\ AcceptSetup(store)
        /\ call' = [sent |-> TRUE, password |-> store.password, shown |-> TRUE]
        /\ form' = "busy"
     \/ /\ SetupCompleted \/ DbFaults
        /\ form' = "refused"
        /\ UNCHANGED <<hubVars, call>>
  /\ UNCHANGED <<page, next, from, store, later, info, returnTo, alby>>

(* The setup is answered and the start is sent.                                *)
SendStart ==
  /\ call.sent /\ setup = NoSetup
  /\ call' = NoCall
  /\ \/ Start(call.password) /\ UNCHANGED form
     \/ /\ ~Accepts(call.password) \/ DbFaults
        /\ form' = IF call.shown THEN "failed" ELSE form
        /\ UNCHANGED hubVars
  /\ UNCHANGED <<page, next, from, store, later, info, returnTo, alby>>

(* Three minutes without a redirect: the start and the finish page give up,    *)
(* the start page also on an error.                                            *)
GiveUp ==
  /\ page \in {"start", "finish"} /\ form = "busy"
  /\ form' = IF page = "finish" THEN "failed" ELSE "idle"
  /\ UNCHANGED <<hubVars, page, next, from, store, call, later, info, returnTo, alby>>

(* "Try again" is the back button.                                             *)
TryAgain ==
  /\ Settled /\ page = "finish" /\ form \in {"failed", "refused"}
  /\ Wizard(from, store)

RestoreNode ==
  /\ Settled /\ page = "restore"
  /\ Restore
  /\ Goto("restored")
  /\ alby' \in BOOLEAN
  /\ UNCHANGED <<next, later, info, returnTo>>

WizardNext ==
  \/ UserGoes \/ Reload \/ Welcome \/ SetupAdvanced \/ SetupPassword \/ SetupNode \/ ImportMnemonic
  \/ LNDForm \/ PhoenixdForm \/ CashuForm \/ GreenlightForm \/ BreezForm \/ LDKForm
  \/ PresetNodeForm
  \/ SendSetup \/ SendStart \/ GiveUp \/ TryAgain \/ RestoreNode

--------------------------------------------------------------------------------
(* Login, logout and settings.  A handler that was answered goes on when its   *)
(* page has been left.  Bound: the user waits for it before the next request.  *)
Asks == Settled /\ later = "none"

Login ==
  /\ Asks /\ page = "start" /\ form = "idle"
  /\ \E pw \in Password : Start(pw)
  /\ form' = "busy"
  /\ UNCHANGED <<page, next, from, store, call, later, info, returnTo, alby>>

UnlockPage ==
  /\ Asks /\ page = "unlock"
  /\ \E pw \in Password \ {Empty} : Unlock(pw)
  /\ later' = "refetch"
  /\ UNCHANGED <<page, next, from, form, store, call, info, returnTo, alby>>

AuthCodeForm ==
  /\ Asks /\ page = "alby"
  /\ alby' = TRUE
  /\ later' = "refetch"
  /\ UNCHANGED <<hubVars, page, next, from, form, store, call, info, returnTo>>

LogoutUnfetched ==
  /\ Asks /\ page \in Inner \cup Settings
  /\ Logout
  /\ later' = "navigate"
  /\ UNCHANGED <<page, next, from, form, store, call, info, returnTo, alby>>
LogoutMenu ==
  /\ Asks /\ page \in Inner \cup Settings
  /\ Logout
  /\ later' = "refetch"
  /\ UNCHANGED <<page, next, from, form, store, call, info, returnTo, alby>>

Shutdown ==
  /\ Asks /\ page \in Settings
  /\ Stop
  /\ later' = "refetch"
  /\ UNCHANGED <<page, next, from, form, store, call, info, returnTo, alby>>

ChangeUnlockPassword ==
  /\ Asks /\ page = "changePassword"
  /\ \E cur, new \in Password : ChangePassword(cur, new)
  /\ later' = "refetch only"
  /\ UNCHANGED <<page, next, from, form, store, call, info, returnTo, alby>>

(* The phrase is decrypted in the browser.                                     *)
BackupMnemonicPassword ==
  /\ Asks /\ page = "keyBackup" /\ form = "idle" /\ session
  /\ row["Mnemonic"].value # "none" /\ row["Mnemonic"].key # Empty
  /\ form' = "shown"
  /\ UNCHANGED <<hubVars, page, next, from, store, call, later, info, returnTo, alby>>

(* The reminder that this call puts off is only shown: it is not modelled.      *)
BackupMnemonic ==
  /\ Asks /\ page = "keyBackup" /\ form = "shown" /\ session
  /\ later' = "refetch"
  /\ UNCHANGED <<hubVars, page, next, from, form, store, call, info, returnTo, alby>>

BackupNode ==
  /\ Asks /\ page = "nodeBackup"
  /\ \E pw \in Password : Backup(pw)
  /\ Goto("backupDone")
  /\ UNCHANGED <<next, later, info, returnTo, alby>>

Refetched ==
  /\ later \in {"refetch", "refetch only"} /\ ~stopping
  /\ info' = Answered
  /\ later' = IF later = "refetch" THEN "navigate" ELSE "none"
  /\ UNCHANGED <<hubVars, page, next, from, form, store, call, returnTo, alby>>

Navigated ==
  /\ later = "navigate"
  /\ later' = "none"
  /\ Goto("/")
  /\ UNCHANGED <<hubVars, next, info, returnTo, alby>>

SessionNext ==
  \/ Login \/ UnlockPage \/ AuthCodeForm \/ LogoutMenu \/ Shutdown \/ ChangeUnlockPassword
  \/ BackupMnemonicPassword \/ BackupMnemonic \/ BackupNode \/ Refetched \/ Navigated

--------------------------------------------------------------------------------
(* The hub's own steps: the answer to a failed stop or of a process that ends  *)
(* (keys.Init may end it) is an error, after which a handler does nothing more.*)
HubWorks ==
  /\ SetupNext \/ StartNext
  /\ UNCHANGED browserVars

HubStops ==
  /\ StopEnds
  /\ later' = IF running' THEN "none" ELSE later
  /\ UNCHANGED <<page, next, from, form, store, call, info, returnTo, alby>>

Crash ==
  /\ "crash" \in Faults
  /\ ProcessRestarts
  /\ later' = IF stopping THEN "none" ELSE later
  /\ call' = NoCall
  /\ form' = IF call.shown THEN "failed" ELSE form
  /\ UNCHANGED <<page, next, from, store, info, returnTo, alby>>

Next == \/ Redirect \/ Refresh \/ WizardNext \/ SessionNext
        \/ HubWorks \/ HubStops \/ Crash

(* React runs the effects of a page that is shown, and SWR polls; what the     *)
(* user and the hub do is assumed of nobody.                                   *)
Fairness == WF_vars(Redirect) /\ WF_vars(Poll)
Spec == Init /\ [][Next]_vars
FairSpec == Spec /\ Fairness

--------------------------------------------------------------------------------
(* Once a logout is answered and fetched again, no page behind the guard is    *)
(* shown: the redirects see the session that is gone, whatever page the user   *)
(* went to while the handler was waiting.                                      *)
LoggedOutIsOut == ~session /\ later = "none" /\ Settled => page \notin Inner

(* The redirects agree on where the user belongs: they never send him round in *)
(* a circle, even on a cached answer that is out of date.                      *)
Settles == Redirecting ~> ~Redirecting

(* A hub that runs does not leave its user at the login or at the end of the   *)
(* wizard: the poll sees it, and the guard of the page goes on.                *)
HubEntered == running /\ page \in {"start", "finish"} ~> ~running \/ page \notin {"start", "finish"}

================================================================================
