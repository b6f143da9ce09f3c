---------------------------- MODULE FrontDoorProofs ----------------------------
(* The browser only ever does to the hub what the hub's own calls do: what was *)
(* proved of the hub holds of the two together, whatever page the user is on.  *)
EXTENDS FrontDoor, HubConfigProofs

(* No redirect and no poll touches the hub.                                    *)
LEMMA RedirectsOnlyShow == Redirect \/ Refresh => UNCHANGED hubVars
BY DEF Redirect, HomeRedirect, DefaultRedirect, GuardRedirect, Refresh

(* Every page of the wizard is a call of the hub or none.                      *)
LEMMA WizardIsHub == WizardNext /\ store \in Request /\ call.password \in Password => [HubNext]_hubVars
<1> SUFFICES ASSUME WizardNext, store \in Request, call.password \in Password
             PROVE  [HubNext]_hubVars
  OBVIOUS
<1>1. CASE \/ UserGoes \/ Reload \/ Welcome \/ SetupAdvanced \/ SetupPassword \/ SetupNode
           \/ ImportMnemonic \/ LNDForm \/ PhoenixdForm \/ CashuForm \/ GreenlightForm
           \/ BreezForm \/ LDKForm \/ PresetNodeForm \/ GiveUp \/ TryAgain
  BY <1>1 DEF UserGoes, Reload, Welcome, SetupAdvanced, SetupPassword, SetupNode, ImportMnemonic,
              LNDForm, PhoenixdForm, CashuForm, GreenlightForm, BreezForm, ConnectsTo,
              MakesWallet, LDKForm, PresetNodeForm, GiveUp, TryAgain, Wizard
<1>2. CASE SendSetup
  <2>1. AcceptSetup(store) \/ UNCHANGED hubVars
    BY <1>2 DEF SendSetup
  <2> QED BY <2>1 DEF HubNext, HubStep
<1>3. CASE SendStart
  <2>1. Start(call.password) \/ UNCHANGED hubVars
    BY <1>3 DEF SendStart
  <2> QED BY <2>1 DEF HubNext, HubStep
<1>4. CASE RestoreNode
  BY <1>4 DEF RestoreNode, HubNext, HubStep
<1> QED BY <1>1, <1>2, <1>3, <1>4 DEF WizardNext

(* So is every page of a session.                                              *)
LEMMA SessionIsHub == SessionNext => [HubNext]_hubVars
<1> SUFFICES ASSUME SessionNext PROVE [HubNext]_hubVars
  OBVIOUS
<1>1. CASE Login \/ UnlockPage \/ BackupNode
  BY <1>1 DEF Login, UnlockPage, BackupNode, HubNext, HubStep
<1>2. CASE LogoutMenu \/ Shutdown
  BY <1>2 DEF LogoutMenu, Shutdown, HubNext, HubStep
<1>3. CASE ChangeUnlockPassword
  BY <1>3 DEF ChangeUnlockPassword, HubNext, HubStep
<1>4. CASE AuthCodeForm \/ BackupMnemonicPassword \/ BackupMnemonic \/ Refetched \/ Navigated
  BY <1>4 DEF AuthCodeForm, BackupMnemonicPassword, BackupMnemonic, Refetched, Navigated
<1> QED BY <1>1, <1>2, <1>3, <1>4 DEF SessionNext

(* What the wizard and finishSetup hold is a setup request.                    *)
Requests == store \in Request /\ call.password \in Password

(* A page that is shown changes nothing of the request but its phrase.         *)
LEMMA ShowKeepsRequests ==
  ASSUME Requests, NEW p, NEW s \in Request, Show(p, s)
  PROVE  store' \in Request /\ call'.password \in Password
<1>1. NoSetup \in Request
  BY ConfigAssumption DEF NoSetup, Request, SetupAt, Phrase
<1>2. [s EXCEPT !.mnemonic = "none"] \in Request
  BY DEF Request, SetupAt, Phrase
<1> QED BY <1>1, <1>2 DEF Show, Requests

LEMMA NextRequests == Requests /\ [Next]_vars => Requests'
<1> SUFFICES ASSUME Requests, [Next]_vars PROVE Requests'
  OBVIOUS
<1>1. CASE \/ HomeRedirect \/ DefaultRedirect \/ GuardRedirect \/ UserGoes \/ Welcome
           \/ SetupAdvanced \/ SetupNode \/ TryAgain \/ RestoreNode \/ BackupNode \/ Navigated
  <2>1. \E p : Show(p, store)
    BY <1>1 DEF HomeRedirect, DefaultRedirect, GuardRedirect, UserGoes, Welcome, SetupAdvanced,
                SetupNode, TryAgain, RestoreNode, BackupNode, Navigated, Goto, Wizard
  <2> QED BY <2>1, ShowKeepsRequests DEF Requests
<1>2. CASE \/ SetupPassword \/ ImportMnemonic \/ LNDForm \/ PhoenixdForm \/ CashuForm
           \/ GreenlightForm \/ BreezForm \/ LDKForm \/ PresetNodeForm
  <2>1. \E p : \E s \in Request : Show(p, s)
    <3>1. CASE SetupPassword
      <4>1. \A pw \in Password : [store EXCEPT !.password = pw] \in Request
        BY DEF Requests, Request, SetupAt
      <4> QED BY <3>1, <4>1 DEF SetupPassword
    <3>2. CASE ImportMnemonic
      <4>1. [store EXCEPT !.mnemonic = "imported"] \in Request
        BY DEF Requests, Request, SetupAt, Phrase
      <4> QED BY <3>2, <4>1 DEF ImportMnemonic, Wizard
    <3>3. CASE LNDForm \/ PhoenixdForm \/ CashuForm \/ GreenlightForm \/ BreezForm
      <4>1. \A b \in Backend : \A given :
              [store EXCEPT !.backend = b, !.given = @ \cup (given \cap FormRows)] \in Request
        BY DoorAssumption DEF Requests, Request, SetupAt
      <4>2. \E b \in Backend : \E given : ConnectsTo(b, given) \/ MakesWallet(b, given)
        BY <3>3, DoorAssumption
        DEF LNDForm, PhoenixdForm, CashuForm, GreenlightForm, BreezForm
      <4> QED BY <4>1, <4>2 DEF ConnectsTo, MakesWallet, Wizard
    <3>4. CASE LDKForm
      <4>1. [store EXCEPT !.backend = "LDK",
                          !.mnemonic = IF @ = "none" THEN "generated" ELSE @] \in Request
        BY DoorAssumption DEF Requests, Request, SetupAt, Phrase
      <4> QED BY <3>4, <4>1 DEF LDKForm, Wizard
    <3>5. CASE PresetNodeForm
      <4>1. [store EXCEPT !.mnemonic = IF preset \in PhraseBackends
                                       THEN "generated" ELSE @] \in Request
        BY DEF Requests, Request, SetupAt, Phrase
      <4> QED BY <3>5, <4>1 DEF PresetNodeForm, Wizard
    <3> QED BY <1>2, <3>1, <3>2, <3>3, <3>4, <3>5
  <2> QED BY <2>1, ShowKeepsRequests DEF Requests
<1>3. CASE SendSetup
  BY <1>3 DEF SendSetup, Requests, Request, SetupAt
<1>4. CASE SendStart \/ Crash
  BY <1>4, ConfigAssumption DEF SendStart, Crash, Requests, NoCall
<1>5. CASE Reload
  BY <1>5, ConfigAssumption DEF Reload, Requests, NoSetup, Request, SetupAt, Phrase
<1>6. CASE \/ Refresh \/ GiveUp \/ Login \/ UnlockPage \/ AuthCodeForm \/ LogoutMenu \/ Shutdown
           \/ ChangeUnlockPassword \/ BackupMnemonicPassword \/ BackupMnemonic \/ Refetched
           \/ HubWorks \/ HubStops \/ UNCHANGED vars
  BY <1>6 DEF Refresh, GiveUp, Login, UnlockPage, AuthCodeForm, LogoutMenu, Shutdown,
              ChangeUnlockPassword, BackupMnemonicPassword, BackupMnemonic, Refetched,
              HubWorks, HubStops, Requests, browserVars, vars
<1> QED
  BY <1>1, <1>2, <1>3, <1>4, <1>5, <1>6 DEF Next, Redirect, WizardNext, SessionNext

(* At first the wizard holds an empty request.                                 *)
LEMMA InitRequests == Init => Requests
<1>1. NoSetup \in Request
  BY ConfigAssumption DEF NoSetup, Request, SetupAt, Phrase
<1> QED BY <1>1, ConfigAssumption DEF Init, BrowserInit, Requests, NoCall

(* What the wizard holds stays a request.                                      *)
LEMMA RequestsHold == Spec => []Requests
BY InitRequests, NextRequests, PTL DEF Spec

(* A step of the two is a step of the hub or none.                             *)
LEMMA NextIsHub == Requests /\ [Next]_vars => [HubNext]_hubVars
<1> SUFFICES ASSUME Requests, [Next]_vars PROVE [HubNext]_hubVars
  OBVIOUS
<1>1. CASE Redirect \/ Refresh
  BY <1>1, RedirectsOnlyShow
<1>2. CASE WizardNext
  BY <1>2, WizardIsHub DEF Requests
<1>3. CASE SessionNext
  BY <1>3, SessionIsHub
<1>4. CASE HubWorks \/ HubStops \/ Crash
  BY <1>4 DEF HubWorks, HubStops, Crash, HubNext, HubStep
<1>5. CASE UNCHANGED vars
  BY <1>5 DEF vars
<1> QED BY <1>1, <1>2, <1>3, <1>4, <1>5 DEF Next

--------------------------------------------------------------------------------
(* Every step of the browser in front of the hub is a step of the hub or of no *)
(* concern to it: FrontDoor implements HubConfig, with the hub's variables     *)
(* mapped to themselves.                                                       *)
THEOREM ImplementsHub == Spec => HubSpec
<1>1. Init => HubInit
  BY DEF Init
<1> QED BY <1>1, NextIsHub, RequestsHold, PTL DEF Spec, HubSpec

(* With a browser in front, a password that the hub accepts still reads every  *)
(* row of it.                                                                  *)
THEOREM FrontDoorReadable == Spec => []CheckedMeansReadable
BY ImplementsHub, Readable, PTL

(* And nothing that any page does replaces the identity of the wallet.         *)
THEOREM FrontDoorIdentity == Spec => IdentityStable
BY ImplementsHub, Identity, PTL

(* A change of the password on its page (ChangeUnlockPassword.tsx) opens the   *)
(* hub to the new password and to no other.                                    *)
THEOREM FrontDoorNewPassword == Spec => NewPasswordOpens
BY ImplementsHub, NewPassword, PTL

--------------------------------------------------------------------------------
(* What the browser remembers of the hub and of its call has their shape.      *)
Caches ==
  /\ call \in [sent : BOOLEAN, password : Password, shown : BOOLEAN]
  /\ info \in [completed : BOOLEAN, running : BOOLEAN, unlocked : BOOLEAN, alby : BOOLEAN,
               loaded : BOOLEAN]
  /\ alby \in BOOLEAN

(* A page that is shown leaves what was sent.                                  *)
LEMMA ShowKeepsCall ==
  ASSUME Caches, NEW p, NEW s, Show(p, s)
  PROVE  /\ call' \in [sent : BOOLEAN, password : Password, shown : BOOLEAN]
         /\ call'.sent = call.sent
BY DEF Caches, Show

(* What the hub answers about itself is remembered as it was answered.         *)
LEMMA AnswerIsCached ==
  ASSUME TypeOK, Caches
  PROVE  Answered \in [completed : BOOLEAN, running : BOOLEAN, unlocked : BOOLEAN,
                       alby : BOOLEAN, loaded : BOOLEAN]
BY DEF Answered, SetupCompleted, Caches, TypeOK

(* At first the browser knows nothing and has sent nothing.                    *)
LEMMA InitCaches == Init => Caches
<1> SUFFICES ASSUME Init PROVE Caches
  OBVIOUS
<1>1. call \in [sent : BOOLEAN, password : Password, shown : BOOLEAN]
  BY ConfigAssumption DEF Init, BrowserInit, NoCall
<1>2. info \in [completed : BOOLEAN, running : BOOLEAN, unlocked : BOOLEAN, alby : BOOLEAN,
          loaded : BOOLEAN] /\ alby \in BOOLEAN
  BY DEF Init, BrowserInit, NoInfo
<1> QED BY <1>1, <1>2 DEF Caches

(* No step puts anything else there.                                           *)
LEMMA NextCaches == TypeOK /\ Requests /\ Caches /\ [Next]_vars => Caches'
<1> SUFFICES ASSUME TypeOK, Requests, Caches, [Next]_vars PROVE Caches'
  OBVIOUS
<1>1. CASE \/ HomeRedirect \/ DefaultRedirect \/ GuardRedirect \/ UserGoes \/ Welcome
           \/ SetupAdvanced \/ SetupPassword \/ SetupNode \/ ImportMnemonic \/ LNDForm
           \/ PhoenixdForm \/ CashuForm \/ GreenlightForm \/ BreezForm \/ LDKForm
           \/ PresetNodeForm \/ TryAgain \/ RestoreNode \/ BackupNode \/ Navigated
  <2>1. \E p, s : Show(p, s)
    BY <1>1 DEF HomeRedirect, DefaultRedirect, GuardRedirect, UserGoes, Welcome, SetupAdvanced,
                SetupPassword, SetupNode, ImportMnemonic, LNDForm, PhoenixdForm, CashuForm,
                GreenlightForm, BreezForm, ConnectsTo, MakesWallet, LDKForm, PresetNodeForm,
                TryAgain, RestoreNode, BackupNode, Navigated, Wizard, Goto
  <2>2. info' = info /\ (alby' = alby \/ alby' \in BOOLEAN)
    BY <1>1 DEF HomeRedirect, DefaultRedirect, GuardRedirect, UserGoes, Welcome, SetupAdvanced,
                SetupPassword, SetupNode, ImportMnemonic, LNDForm, PhoenixdForm, CashuForm,
                GreenlightForm, BreezForm, ConnectsTo, MakesWallet, LDKForm, PresetNodeForm,
                TryAgain, RestoreNode, BackupNode, Navigated, Wizard
  <2> QED BY <2>1, <2>2, ShowKeepsCall DEF Caches
<1>2. CASE Refresh \/ Refetched
  BY <1>2, AnswerIsCached DEF Refresh, Refetched, Caches
<1>3. CASE Reload
  BY <1>3 DEF Reload, NoInfo, Caches
<1>4. CASE SendSetup
  <2>1. store.password \in Password
    BY DEF Requests, Request, SetupAt
  <2>2. \/ call' = [sent |-> TRUE, password |-> store.password, shown |-> TRUE]
        \/ call' = call
    BY <1>4 DEF SendSetup
  <2>3. info' = info /\ alby' = alby
    BY <1>4 DEF SendSetup
  <2>4. [sent |-> TRUE, password |-> store.password, shown |-> TRUE]
          \in [sent : BOOLEAN, password : Password, shown : BOOLEAN]
    BY <2>1
  <2>5. call' \in [sent : BOOLEAN, password : Password, shown : BOOLEAN]
    BY <2>2, <2>4 DEF Caches
  <2> QED BY <2>3, <2>5 DEF Caches
<1>5. CASE SendStart \/ Crash
  <2>1. call' = NoCall /\ info' = info /\ alby' = alby
    BY <1>5 DEF SendStart, Crash
  <2> QED BY <2>1, ConfigAssumption DEF NoCall, Caches
<1>6. CASE \/ GiveUp \/ Login \/ UnlockPage \/ AuthCodeForm \/ LogoutMenu \/ Shutdown
           \/ ChangeUnlockPassword \/ BackupMnemonicPassword \/ BackupMnemonic
           \/ HubWorks \/ HubStops \/ UNCHANGED vars
  BY <1>6 DEF GiveUp, Login, UnlockPage, AuthCodeForm, LogoutMenu, Shutdown,
              ChangeUnlockPassword, BackupMnemonicPassword, BackupMnemonic,
              HubWorks, HubStops, Caches, browserVars, vars
<1> QED
  BY <1>1, <1>2, <1>3, <1>4, <1>5, <1>6 DEF Next, Redirect, WizardNext, SessionNext

(* Every route that is shown is one of the router.                             *)

Pages ==
  /\ page \in Page /\ next \in {"node", "import", "ldk", "preset"} /\ from \in Page
  /\ form \in {"idle", "busy", "failed", "refused", "shown"}
  /\ later \in {"none", "refetch", "navigate", "refetch only"}
  /\ returnTo \in Inner \cup {"none"}

(* A page is shown with the one before it, and idle.                           *)
LEMMA ShowsPages ==
  ASSUME Pages, NEW p \in Page, NEW s, Show(p, s)
  PROVE  page' \in Page /\ from' \in Page /\ form' = "idle"
<1>1. "/" \in Page
  BY DEF Page, Outer
<1> QED BY <1>1 DEF Show, Pages

(* The home page leads to a page, whatever is cached.                          *)
LEMMA HomeLeads == ASSUME Pages, Caches PROVE HomeTarget \in Page
<1>1. {"/", "home", "alby", "unlock", "start", "intro"} \cup Inner \subseteq Page
  BY DoorAssumption DEF Page, Outer
<1>2. \/ info.completed /\ info.running /\ Inside
      \/ info.completed /\ info.running /\ info.unlocked /\ ~info.alby
      \/ info.completed /\ info.running /\ ~info.unlocked
      \/ info.completed /\ ~info.running
      \/ ~info.completed
  BY Zenon DEF Inside
<1> QED BY <1>1, <1>2 DEF HomeTarget, Pages

(* Every link, redirect and handler leads to a page.                           *)
LEMMA NextPages == Pages /\ Caches /\ [Next]_vars => Pages'
<1> SUFFICES ASSUME Pages, Caches, [Next]_vars PROVE Pages'
  OBVIOUS
<1>0. /\ {"/", "intro", "welcome", "start", "unlock", "alby", "onboarding", "restored",
           "backupDone"} \cup SetupPages \cup Settings \cup Inner \cup Typed \subseteq Page
      /\ {"password", "import", "node", "restore", "finish"} \cup WizardForms \subseteq SetupPages
  BY DoorAssumption DEF Page, Outer, SetupPages
<1>1. ASSUME NEW p \in Page, NEW s, Show(p, s),
             next' \in {"node", "import", "ldk", "preset"},
             later' \in {"none", "refetch", "navigate", "refetch only"},
             returnTo' \in Inner \cup {"none"}
      PROVE  Pages'
  BY <1>1, ShowsPages DEF Pages
<1>2. CASE Redirect
  <2>1. CASE HomeRedirect
    <3>1. Show(HomeTarget, store) /\ returnTo' \in Inner \cup {"none"} /\ UNCHANGED <<next, later>>
      BY <2>1 DEF HomeRedirect, Goto, Pages
    <3> QED BY <3>1, <1>1, HomeLeads DEF Pages
  <2>2. CASE DefaultRedirect
    <3>1. Show("/", store) /\ returnTo' \in Inner /\ UNCHANGED <<next, later>>
      BY <2>2 DEF DefaultRedirect, DefaultLeaves, Goto
    <3> QED BY <3>1, <1>0, <1>1 DEF Pages
  <2>3. CASE GuardRedirect
    <3>1. Show("/", store) /\ UNCHANGED <<next, later, returnTo>>
      BY <2>3 DEF GuardRedirect, Goto
    <3> QED BY <3>1, <1>0, <1>1 DEF Pages
  <2> QED BY <1>2, <2>1, <2>2, <2>3 DEF Redirect
<1>3. CASE UserGoes
  <2>1. Links \subseteq Page
    <3>1. CASE page \in {"intro", "welcome"}
      <4>1. {"welcome", "advanced"} \subseteq Page
        BY DEF Page, Outer, SetupPages
      <4>2. page \notin Inner \cup Settings
        BY <3>1, DoorAssumption DEF Outer, Settings
      <4> QED BY <3>1, <4>1, <4>2 DEF Links
    <3>2. CASE page \in Inner \cup Settings /\ page \notin {"intro", "welcome"}
      BY <1>0, <3>2 DEF Links
    <3>3. CASE page \notin Inner \cup Settings \cup {"intro", "welcome"}
      BY <3>3 DEF Links
    <3> QED BY <3>1, <3>2, <3>3
  <2>2. \E p \in Page : Show(p, store)
    BY <1>0, <1>3, <2>1 DEF UserGoes, Goto
  <2>3. next' = "node" /\ UNCHANGED <<later, returnTo>>
    BY <1>3 DEF UserGoes
  <2> QED BY <2>2, <2>3, <1>1 DEF Pages
<1>4. CASE Welcome \/ SetupAdvanced \/ SetupPassword
  <2>1. \E p \in Page : \E s : Show(p, s)
    BY <1>0, <1>4 DEF Welcome, SetupAdvanced, SetupPassword, Goto, Pages, WizardForms
  <2>2. next' \in {"node", "import", "ldk", "preset"} /\ UNCHANGED <<later, returnTo>>
    BY <1>4 DEF Welcome, SetupAdvanced, SetupPassword, Pages
  <2> QED BY <2>1, <2>2, <1>1 DEF Pages
<1>5. CASE \/ SetupNode \/ ImportMnemonic \/ LNDForm \/ PhoenixdForm \/ CashuForm \/ GreenlightForm
           \/ BreezForm \/ LDKForm \/ PresetNodeForm \/ TryAgain
  <2>1. \A b \in Backend : FormOf(b) \in Page
    BY <1>0, DoorAssumption DEF FormOf, WizardForms
  <2>2. CASE SetupNode
    <3>1. \E b \in Backend : Show(FormOf(b), store)
      BY <2>2, DoorAssumption DEF SetupNode, Goto, PhraseBackends
    <3> QED BY <2>1, <2>2, <3>1, <1>1 DEF SetupNode, Pages
  <2>3. CASE TryAgain
    BY <2>3, <1>1 DEF TryAgain, Wizard, Pages
  <2>4. CASE \/ ImportMnemonic \/ LNDForm \/ PhoenixdForm \/ CashuForm \/ GreenlightForm
             \/ BreezForm \/ LDKForm \/ PresetNodeForm
    <3>1. \E p \in {"node", "finish", "import"} : \E s : Wizard(p, s)
      BY <2>4 DEF ImportMnemonic, LNDForm, PhoenixdForm, CashuForm, GreenlightForm, BreezForm,
                  ConnectsTo, MakesWallet, LDKForm, PresetNodeForm
    <3> QED BY <3>1, <1>0, <1>1 DEF Wizard, Pages
  <2> QED BY <1>5, <2>2, <2>3, <2>4
<1>6. CASE RestoreNode \/ BackupNode \/ Navigated
  <2>1. \E p \in {"restored", "backupDone", "/"} : Show(p, store)
    BY <1>6 DEF RestoreNode, BackupNode, Navigated, Goto
  <2>2. UNCHANGED <<next, returnTo>> /\ later' \in {later, "none"}
    BY <1>6 DEF RestoreNode, BackupNode, Navigated
  <2> QED BY <2>1, <2>2, <1>0, <1>1 DEF Pages
<1>7. CASE \/ Refresh \/ Reload \/ SendSetup \/ SendStart \/ GiveUp \/ Login \/ UnlockPage
           \/ AuthCodeForm \/ LogoutMenu \/ Shutdown \/ ChangeUnlockPassword
           \/ BackupMnemonicPassword \/ BackupMnemonic \/ Refetched \/ HubWorks \/ HubStops \/ Crash
           \/ UNCHANGED vars
  <2>1. UNCHANGED <<page, next, from, returnTo>>
    BY <1>7 DEF Refresh, Reload, SendSetup, SendStart, GiveUp, Login, UnlockPage, AuthCodeForm,
                LogoutMenu, Shutdown, ChangeUnlockPassword, BackupMnemonicPassword,
                BackupMnemonic, Refetched, HubWorks, HubStops, Crash, browserVars, vars
  <2>2. form' \in {form, "idle", "busy", "failed", "refused", "shown"}
    BY <1>7 DEF Refresh, Reload, SendSetup, SendStart, GiveUp, Login, UnlockPage, AuthCodeForm,
                LogoutMenu, Shutdown, ChangeUnlockPassword, BackupMnemonicPassword,
                BackupMnemonic, Refetched, HubWorks, HubStops, Crash, browserVars, vars
  <2>3. later' \in {later, "none", "refetch", "navigate", "refetch only"}
    BY <1>7 DEF Refresh, Reload, SendSetup, SendStart, GiveUp, Login, UnlockPage, AuthCodeForm,
                LogoutMenu, Shutdown, ChangeUnlockPassword, BackupMnemonicPassword,
                BackupMnemonic, Refetched, HubWorks, HubStops, Crash, browserVars, vars
  <2> QED BY <2>1, <2>2, <2>3 DEF Pages
<1> QED
  BY <1>2, <1>3, <1>4, <1>5, <1>6, <1>7 DEF Next, WizardNext, SessionNext

(* Type correctness of the browser and its hub: the pages, the forms and the   *)
(* caches hold what routes.tsx and the handlers put there.                     *)
THEOREM FrontTypeCorrect == Spec => []FrontTypeOK
<1>1. Init => Pages
  BY DEF Init, BrowserInit, Pages, Page, Outer
<1>2. TypeOK /\ Requests /\ Caches /\ Pages /\ [Next]_vars => Caches' /\ Pages'
  BY NextCaches, NextPages
<1>3. TypeOK /\ Requests /\ Caches /\ Pages => FrontTypeOK
  BY DEF FrontTypeOK, Requests, Caches, Pages
<1>4. HubInv => TypeOK
  BY DEF HubInv
<1> QED BY InitCaches, <1>1, <1>2, <1>3, <1>4, ImplementsHub, HubInvariant, RequestsHold, PTL DEF Spec

--------------------------------------------------------------------------------
(* Who is logged out.  Nothing is answered "unlocked" or "running" by a hub    *)
(* without a password; and a session that is gone, but was answered as there,  *)
(* is one whose logout still has to fetch.                                     *)

OnlyAfterSetup ==
  ~SetupCompleted =>
    /\ ~session /\ ~running /\ starting = NoStart
    /\ ~info.completed /\ ~info.running
    /\ call.sent => setup.stage = "check"

Shown == info.unlocked /\ info.running

LogoutFetches ==
  /\ Shown /\ ~session => later = "refetch"
  /\ stopping => later \in {"refetch", "refetch only"} /\ (Shown => session)
  /\ info.running => info.completed

DoorInv == OnlyAfterSetup /\ LogoutFetches

(* A hub that is set up stays so.                                              *)
LEMMA StaysSetUp == HubInv /\ [HubNext]_hubVars /\ SetupCompleted => SetupCompleted'
<1> SUFFICES ASSUME HubInv, [HubNext]_hubVars, SetupCompleted PROVE SetupCompleted'
  OBVIOUS
<1> USE ConfigAssumption DEF SetupCompleted, Check, Key, Given
<1>0. \A k \in Key : row[k] \in Row /\ row \in [Key -> Row]
  BY DEF HubInv, TypeOK
<1>1. CASE SetupNext \/ StartNext
  <2>1. CASE SetupNext
    BY <1>0, <2>1 DEF SetupNext, WriteCheck, WriteBackend, WriteAPIKey, WriteMnemonic, WriteNode, Written
  <2>2. CASE StartNext
    BY <1>0, <2>2 DEF StartNext, StartApp, LaunchFails, SaveCredentials, Launched, InitKeys, InitKeysUnread
  <2> QED BY <1>1, <2>1, <2>2
<1>2. ASSUME NEW cur \in Password, NEW new \in Password, ChangePassword(cur, new)
      PROVE  SetupCompleted'
  BY <1>0, <1>2 DEF ChangePassword, Rewritten, Written, Read
<1>3. CASE Restore
  <2>1. PICK pw \in Password : row'["UnlockPasswordCheck"] = Written(Absent, "check", pw)
    BY <1>3, RestoreShape
  <2> QED BY <2>1 DEF Written
<1>4. ASSUME NEW pw \in Password, Start(pw) \/ Unlock(pw) \/ Backup(pw) PROVE SetupCompleted'
  BY <1>0, <1>4, RestartShape DEF Start, Unlock, Backup, HubInv
<1>5. ASSUME NEW req \in Request, AcceptSetup(req) PROVE SetupCompleted'
  BY <1>5 DEF AcceptSetup
<1>6. CASE InitKeysFails \/ ProcessRestarts
  BY <1>0, <1>6, RestartShape DEF InitKeysFails, HubInv
<1>7. CASE Logout \/ Stop \/ StopEnds \/ UNCHANGED hubVars
  BY <1>7 DEF Logout, Stop, StopEnds, hubVars
<1> QED BY <1>1, <1>2, <1>3, <1>4, <1>5, <1>6, <1>7 DEF HubNext, HubStep

(* Before the setup there is neither a session nor a start.                    *)
LEMMA NextOnlyAfterSetup ==
  HubInv /\ [HubNext]_hubVars /\ Requests /\ Caches /\ DoorInv /\ [Next]_vars => OnlyAfterSetup'
<1> SUFFICES ASSUME HubInv, [HubNext]_hubVars, Requests, Caches, DoorInv, [Next]_vars,
                    ~SetupCompleted'
             PROVE  /\ ~session' /\ ~running' /\ starting' = NoStart
                    /\ ~info'.completed /\ ~info'.running
                    /\ call'.sent => setup'.stage = "check"
  BY DEF OnlyAfterSetup, NoStart
<1>s. \A p, s : Show(p, s) => call'.sent = call.sent
  BY ShowKeepsCall
<1>0. /\ ~SetupCompleted
      /\ ~session /\ ~running /\ starting = NoStart
      /\ ~info.completed /\ ~info.running
      /\ call.sent => setup.stage = "check"
  BY StaysSetUp DEF DoorInv, OnlyAfterSetup
<1>1. CASE Redirect
  BY <1>0, <1>s, <1>1 DEF Redirect, HomeRedirect, DefaultRedirect, GuardRedirect, Goto, hubVars
<1>2. CASE Refresh
  BY <1>0, <1>2 DEF Refresh, Answered, hubVars
<1>3. CASE \/ UserGoes \/ Welcome \/ SetupAdvanced \/ SetupPassword \/ SetupNode \/ ImportMnemonic
           \/ LNDForm \/ PhoenixdForm \/ CashuForm \/ GreenlightForm \/ BreezForm \/ LDKForm
           \/ PresetNodeForm \/ TryAgain
  <2>1. UNCHANGED <<hubVars, info>> /\ \E p, s : Show(p, s)
    BY <1>3 DEF UserGoes, Welcome, SetupAdvanced, SetupPassword, SetupNode, ImportMnemonic, LNDForm,
                PhoenixdForm, CashuForm, GreenlightForm, BreezForm, ConnectsTo, MakesWallet, LDKForm,
                PresetNodeForm, TryAgain, Wizard, Goto
  <2> QED BY <1>0, <1>s, <2>1 DEF hubVars
<1>4. CASE Reload \/ GiveUp
  BY <1>0, <1>4 DEF Reload, GiveUp, NoInfo, hubVars, Caches
<1>5. CASE SendSetup
  <2>1. [store EXCEPT !.stage = "check"].stage = "check"
    BY DEF Requests, Request, SetupAt
  <2>2. \/ setup' = [store EXCEPT !.stage = "check"]
        \/ setup' = setup /\ call' = call
    BY <1>5 DEF SendSetup, AcceptSetup, hubVars
  <2>3. info' = info /\ session' = session /\ running' = running /\ starting' = starting
    BY <1>5 DEF SendSetup, AcceptSetup, hubVars
  <2> QED BY <1>0, <2>1, <2>2, <2>3
<1>6. CASE SendStart
  BY <1>0, <1>6 DEF SendStart, NoSetup
<1>7. CASE RestoreNode
  <2>1. PICK pw \in Password : row'["UnlockPasswordCheck"] = Written(Absent, "check", pw)
    BY <1>7, RestoreShape DEF RestoreNode
  <2> QED BY <2>1 DEF SetupCompleted, Check, Written
<1>8. CASE Login \/ UnlockPage
  BY <1>0, <1>8 DEF Login, UnlockPage, Asks, Settled, Redirecting, StartLeaves, UnlockLeaves
<1>9. CASE Shutdown \/ BackupMnemonic \/ BackupMnemonicPassword \/ BackupNode
           \/ ChangeUnlockPassword
  BY <1>0, <1>9 DEF Shutdown, Stop, BackupMnemonic, BackupMnemonicPassword, BackupNode, Backup,
                    ChangeUnlockPassword, ChangePassword
<1>10. CASE AuthCodeForm \/ LogoutMenu \/ Navigated
  BY <1>0, <1>s, <1>10 DEF AuthCodeForm, LogoutMenu, Logout, Navigated, Goto, hubVars
<1>11. CASE Refetched
  BY <1>0, <1>11 DEF Refetched, Answered, hubVars
<1>12. CASE HubWorks
  <2>1. CASE WriteCheck
    <3>1. row \in [Key -> Row] /\ "UnlockPasswordCheck" \in Key
      BY DEF HubInv, TypeOK, Key
    <3> QED BY <2>1, <3>1 DEF WriteCheck, Written, SetupCompleted, Check
  <2>2. CASE WriteBackend \/ WriteAPIKey \/ WriteMnemonic \/ WriteNode
    BY <1>0, <1>12, <2>2 DEF HubWorks, WriteBackend, WriteAPIKey, WriteMnemonic, WriteNode,
                             browserVars
  <2>3. CASE StartNext
    BY <1>0, <1>12, <2>3 DEF HubWorks, StartNext, StartApp, LaunchFails, SaveCredentials, Launched,
                             InitKeys, InitKeysUnread, NoStart, browserVars
  <2> QED BY <1>12, <2>1, <2>2, <2>3 DEF HubWorks, SetupNext
<1>13. CASE HubStops \/ Crash
  <2>1. CASE HubStops
    <3>1. UNCHANGED <<session, starting, info, call, setup>>
      BY <2>1 DEF HubStops, StopEnds
    <3>2. running' = FALSE \/ running' = running
      BY <2>1 DEF HubStops, StopEnds
    <3>3. ~running'
      BY <1>0, <3>2, Zenon
    <3> QED BY <1>0, <3>1, <3>3
  <2>2. CASE Crash
    BY <1>0, <2>2 DEF Crash, ProcessRestarts, NoCall
  <2> QED BY <1>13, <2>1, <2>2
<1>14. CASE UNCHANGED vars
  BY <1>0, <1>14 DEF vars, hubVars, browserVars
<1> QED
  BY <1>1, <1>2, <1>3, <1>4, <1>5, <1>6, <1>7, <1>8, <1>9, <1>10, <1>11, <1>12, <1>13, <1>14
  DEF Next, WizardNext, SessionNext

(* Every step that ends a session, or an answer about it, leaves the fetch.    *)
LEMMA NextLogoutFetches == TypeOK /\ Caches /\ DoorInv /\ [Next]_vars => LogoutFetches'
<1> SUFFICES ASSUME TypeOK, Caches, DoorInv, [Next]_vars PROVE LogoutFetches'
  OBVIOUS
<1>0. LogoutFetches /\ OnlyAfterSetup
  BY DEF DoorInv
<1>1. ASSUME UNCHANGED <<info, stopping, later>>, session' = session \/ session' = TRUE
      PROVE  LogoutFetches'
  BY <1>0, <1>1, Zenon DEF LogoutFetches, Shown
<1>2. CASE \/ Redirect \/ UserGoes \/ Welcome \/ SetupAdvanced \/ SetupPassword \/ SetupNode
           \/ ImportMnemonic \/ LNDForm \/ PhoenixdForm \/ CashuForm \/ GreenlightForm \/ BreezForm
           \/ LDKForm \/ PresetNodeForm \/ GiveUp \/ TryAgain \/ BackupMnemonicPassword
           \/ UNCHANGED vars
  <2>1. UNCHANGED <<info, stopping, later, session>>
    BY <1>2 DEF Redirect, HomeRedirect, DefaultRedirect, GuardRedirect, UserGoes, Welcome,
                SetupAdvanced, SetupPassword, SetupNode, ImportMnemonic, LNDForm, PhoenixdForm,
                CashuForm, GreenlightForm, BreezForm, ConnectsTo, MakesWallet, LDKForm,
                PresetNodeForm, GiveUp, TryAgain, BackupMnemonicPassword, Wizard, vars, hubVars,
                browserVars
  <2> QED BY <2>1, <1>1
<1>3. CASE SendSetup \/ SendStart
  <2>1. UNCHANGED <<info, stopping, later>> /\ (session' = session \/ session' = TRUE)
    BY <1>3 DEF SendSetup, AcceptSetup, SendStart, Start, hubVars
  <2> QED BY <2>1, <1>1
<1>4. CASE HubWorks
  <2>1. UNCHANGED <<info, stopping, later, session>>
    BY <1>4 DEF HubWorks, SetupNext, WriteCheck, WriteBackend, WriteAPIKey, WriteMnemonic, WriteNode,
                StartNext, StartApp, LaunchFails, SaveCredentials, Launched, InitKeys, InitKeysUnread,
                browserVars
  <2> QED BY <2>1, <1>1
<1>5. CASE Login
  <2>1. UNCHANGED <<info, stopping, later>> /\ session' = TRUE
    BY <1>5 DEF Login, Start
  <2> QED BY <2>1, <1>1
<1>6. CASE Refresh \/ Refetched
  <2>1. /\ Answered.unlocked = session
        /\ Answered.running => Answered.completed
    BY <1>0 DEF Answered, OnlyAfterSetup
  <2>2. info' = Answered /\ session' = session /\ stopping' = stopping
    BY <1>6 DEF Refresh, Refetched, hubVars
  <2>3. later' = later \/ ~stopping
    BY <1>6 DEF Refresh, Refetched
  <2> QED BY <1>0, <2>1, <2>2, <2>3, Zenon DEF LogoutFetches, Shown
<1>7. CASE Reload
  <2>1. /\ info'.unlocked = FALSE /\ info'.running = FALSE
        /\ UNCHANGED <<stopping, later, session>>
    BY <1>7 DEF Reload, NoInfo, hubVars
  <2> QED BY <1>0, <2>1, Zenon DEF LogoutFetches, Shown
<1>8. CASE RestoreNode
  <2>1. Loaded /\ ~(info.completed /\ info.running)
    BY <1>8 DEF RestoreNode, Settled, Redirecting, SetupLeaves, SetupPages
  <2>2. stopping' = FALSE /\ UNCHANGED info
    BY <1>8 DEF RestoreNode, Restore
  <2>3. ~info.running
    BY <1>0, <2>1 DEF LogoutFetches
  <2> QED BY <1>0, <2>2, <2>3, Zenon DEF LogoutFetches, Shown
<1>9. CASE UnlockPage \/ AuthCodeForm
  <2>1. /\ later = "none" /\ later' = "refetch" /\ UNCHANGED <<info, stopping>>
        /\ session' = session \/ session' = TRUE
    BY <1>9 DEF UnlockPage, Unlock, AuthCodeForm, Asks, hubVars
  <2> QED BY <1>0, <2>1, Zenon DEF LogoutFetches, Shown
<1>10. CASE LogoutMenu
  <2>1. later = "none" /\ later' = "refetch" /\ UNCHANGED <<info, stopping>> /\ session' = FALSE
    BY <1>10 DEF LogoutMenu, Logout, Asks
  <2>2. ~stopping
    BY <1>0, <2>1 DEF LogoutFetches
  <2> QED BY <1>0, <2>1, <2>2, Zenon DEF LogoutFetches, Shown
<1>11. CASE Shutdown \/ ChangeUnlockPassword
  <2>1. /\ later = "none" /\ later' \in {"refetch", "refetch only"}
        /\ stopping' = TRUE /\ UNCHANGED <<info, session>>
    BY <1>11 DEF Shutdown, Stop, ChangeUnlockPassword, ChangePassword, Asks
  <2>2. Shown => session
    BY <1>0, <2>1 DEF LogoutFetches
  <2> QED BY <1>0, <2>1, <2>2, Zenon DEF LogoutFetches, Shown
<1>12. CASE BackupMnemonic
  <2>1. later = "none" /\ later' = "refetch" /\ UNCHANGED <<info, session, stopping>>
    BY <1>12 DEF BackupMnemonic, Asks, hubVars
  <2> QED BY <1>0, <2>1, Zenon DEF LogoutFetches, Shown
<1>13. CASE BackupNode
  <2>1. stopping' = FALSE /\ UNCHANGED <<info, session, later>>
    BY <1>13 DEF BackupNode, Backup, ProcessRestarts
  <2> QED BY <1>0, <2>1, Zenon DEF LogoutFetches, Shown
<1>14. CASE Navigated
  <2>1. later = "navigate" /\ UNCHANGED <<info, session, stopping>>
    BY <1>14 DEF Navigated, hubVars
  <2>2. ~stopping /\ (Shown => session)
    BY <1>0, <2>1 DEF LogoutFetches
  <2> QED BY <1>0, <2>1, <2>2, Zenon DEF LogoutFetches, Shown
<1>15. CASE HubStops \/ Crash
  <2>1. /\ stopping' = FALSE /\ UNCHANGED <<info, session>>
        /\ later' = later \/ (stopping /\ later' = "none")
    BY <1>15 DEF HubStops, StopEnds, Crash, ProcessRestarts
  <2> QED BY <1>0, <2>1, Zenon DEF LogoutFetches, Shown
<1> QED
  BY <1>2, <1>3, <1>4, <1>5, <1>6, <1>7, <1>8, <1>9, <1>10, <1>11, <1>12, <1>13, <1>14, <1>15
  DEF Next, WizardNext, SessionNext

(* Once a logout was answered and fetched, DefaultRedirect.tsx shows no page   *)
(* behind it: for every set of pages, typed addresses, reloads and crashes.    *)
THEOREM LoggedOut == Spec => []LoggedOutIsOut
<1>1. Init => DoorInv
  BY DEF Init, BrowserInit, HubInit, NoInfo, NoCall, DoorInv, OnlyAfterSetup, LogoutFetches, Shown
<1>2. HubInv /\ Requests /\ Caches /\ DoorInv /\ [Next]_vars => Caches' /\ DoorInv'
  <2> SUFFICES ASSUME HubInv, Requests, Caches, DoorInv, [Next]_vars PROVE Caches' /\ DoorInv'
    OBVIOUS
  <2>1. TypeOK /\ [HubNext]_hubVars
    BY NextIsHub DEF HubInv
  <2> QED BY <2>1, NextCaches, NextOnlyAfterSetup, NextLogoutFetches DEF DoorInv
<1>3. DoorInv => LoggedOutIsOut
  BY DEF DoorInv, LogoutFetches, Shown, LoggedOutIsOut, Settled, Redirecting, DefaultLeaves, Inside
<1> QED BY InitCaches, <1>1, <1>2, <1>3, ImplementsHub, HubInvariant, RequestsHold, PTL DEF Spec
================================================================================
