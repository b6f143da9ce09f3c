------------------------------ MODULE Connections ------------------------------
(* The connection pages of the browser (src/frontend/src/screens/apps) over    *)
(* the API that keeps the apps and their permissions (api.go, db_service.go):  *)
(* a new connection from a link, the page that waits for its first use, and    *)
(* the page that shows an app, edits it and deletes it.  The app's own         *)
(* requests and other browsers change the app behind the cached answer, and    *)
(* calls come back to whatever page is there.                                  *)
EXTENDS Integers

CONSTANTS
  App,        \* public keys of apps
  Methods,    \* the NIP-47 methods of the wallet
  Notifies,   \* the wallet has types of notifications
  Amounts,    \* budgets; 0 is none
  Renewals,   \* when a budget starts anew
  Days,       \* the days (of UTC) on which an app may expire
  Others,     \* bound: the permissions that other browsers give an app
  Uses        \* bound: requests of an app that are told apart

PayMethods == {"pay_invoice", "pay_keysend", "multi_pay_invoice", "multi_pay_keysend"}

ASSUME ConnectionsAssumption ==
  /\ "none" \notin App
  /\ Methods # {} /\ "notifications" \notin Methods
  /\ Notifies \in BOOLEAN
  /\ Amounts \subseteq Nat /\ 0 \in Amounts
  /\ {"monthly", "never"} \subseteq Renewals /\ "" \notin Renewals
  /\ "never" \notin Days
  /\ Uses \in Nat

VARIABLES
  app,        \* the apps of the database; one without scopes does not exist
  cache,      \* useApp: the cached answers
  page,       \* the page that is shown
  shown,      \* the app it is about
  link,       \* the methods the link to the new connection names, has it an expiry
  form,       \* the permissions of the page, as the user has set them
  editing,    \* editMode
  error,      \* the last refresh of the app failed
  touched,    \* what the user has set since the form was last filled
  excused,    \* since then the app was changed elsewhere, or the form during a save
  call        \* the call of a page that is under way

formVars == <<form, editing, error, touched, excused>>
pageVars == <<page, shown, link>>
vars == <<app, cache, pageVars, formVars, call>>

--------------------------------------------------------------------------------
(* Scopes and methods.                                                         *)

(* The node's own: which scope a method needs, which methods a scope permits,  *)
(* and which scopes the wallet has.                                            *)
RequestMethodToScope(m) == IF m \in PayMethods THEN "pay_invoice" ELSE m
ScopeToRequestMethods(s) == IF s = "pay_invoice" THEN PayMethods ELSE {s}
PermittedMethods(scopes) == Methods \cap UNION {ScopeToRequestMethods(s) : s \in scopes}
Notifications == IF Notifies THEN {"notifications"} ELSE {}
Scopes == {RequestMethodToScope(m) : m \in Methods} \cup Notifications

(* What NewApp makes of the methods a link asks for, or of all of them; what   *)
(* it does for the types of notifications comes to their being there or not.   *)
Asked(methods) == IF methods = {} THEN Methods ELSE methods
InitialScopesSingle(methods) ==
  (Asked(methods) \ PayMethods) \cup Notifications
    \cup {s \in {"pay_invoice"} : Asked(methods) \cap {"pay_invoice", "pay_keysend"} # {}}
InitialScopes(methods) ==
  (Asked(methods) \ PayMethods) \cup Notifications
    \cup {s \in {"pay_invoice"} : Asked(methods) \cap PayMethods # {}}

Pays(p) == "pay_invoice" \in p.scopes

(* When an app expires: never, or at a time of a day.  The node moves it to    *)
(* the end of the day it is given for; the pages give it in UTC.               *)
EndOfDay == "23:59:59"
Never == [day |-> "never", time |-> EndOfDay]
Expiries == {Never} \cup [day : Days, time : {"12:00:00", EndOfDay}]
ParseExpiresAt(e) == IF e = Never THEN Never ELSE [e EXCEPT !.time = EndOfDay]
Parsed(p) == [p EXCEPT !.expires = ParseExpiresAt(p.expires)]

Permissions ==
  [scopes : SUBSET Scopes, max : Amounts, renewal : Renewals \cup {""}, expires : Expiries]
NoPermissions == [scopes |-> {}, max |-> 0, renewal |-> "", expires |-> Never]
NoLink == [methods |-> {}, dated |-> FALSE]
NoCall == [kind |-> "none", state |-> "none", app |-> "none", mounted |-> FALSE,
           form |-> NoPermissions, kept |-> {}, asked |-> {}]

(* GetApp: the budget is that of the row that allows payments.                 *)
View(p) == IF Pays(p) THEN p ELSE [p EXCEPT !.max = 0, !.renewal = ""]
GetApp(a) == [perms |-> View(app[a].perms), uses |-> app[a].uses]

NoApp == [perms |-> NoPermissions, uses |-> 0]
Exists(a) == app[a].perms.scopes # {}
Loaded(a) == cache[a].perms.scopes # {}

Record == [perms : Permissions, uses : 0..Uses]
Fields == Scopes \cup {"max", "renewal", "expires"}
ASSUME OthersAssumption == \A p \in Others : p \in Permissions /\ p.renewal # "" /\ p = Parsed(p)

Call == [kind : {"none", "create", "save", "refetch", "delete"},
         state : {"none", "sent", "ok", "failed"}, app : App \cup {"none"}, mounted : BOOLEAN,
         form : Permissions, kept : SUBSET Fields, asked : SUBSET Methods]

TypeOK ==
  /\ app \in [App -> Record] /\ cache \in [App -> Record]
  /\ page \in {"list", "new", "created", "app"}
  /\ shown \in App \cup {"none"} /\ (page \in {"created", "app"} => shown \in App)
  /\ link \in [methods : SUBSET Methods, dated : BOOLEAN]
  /\ form \in Permissions /\ touched \subseteq Fields
  /\ editing \in BOOLEAN /\ error \in BOOLEAN /\ excused \in BOOLEAN
  /\ call \in Call
  /\ call.kind \in {"save", "refetch", "delete"} => call.app \in App
  /\ call.kind = "create" /\ call.state = "ok" => call.app \in App

Init ==
  /\ app = [a \in App |-> NoApp]
  /\ cache = [a \in App |-> NoApp]
  /\ page = "list" /\ shown = "none" /\ link = NoLink
  /\ form = NoPermissions
  /\ editing = FALSE /\ error = FALSE /\ touched = {} /\ excused = FALSE
  /\ call = NoCall

--------------------------------------------------------------------------------
(* The database, behind the API.                                               *)

(* A call is served, and its answer may still be lost; or it never arrives.    *)
ServedUnnamed(a, states) ==
  \E s \in states : call' = [NoCall EXCEPT !.kind = call.kind, !.state = s, !.app = call.app,
                                            !.mounted = call.mounted]
Served(a, states) ==
  \E s \in states : call' = [NoCall EXCEPT !.kind = call.kind, !.state = s, !.app = a,
                                            !.mounted = call.mounted]

CreateApp ==
  /\ call.kind = "create" /\ call.state = "sent" /\ call.form.scopes # {}
  /\ \E a \in App :
       /\ ~Exists(a)
       /\ app' = [app EXCEPT ![a] = [perms |-> Parsed(call.form), uses |-> 0]]
       /\ Served(a, {"ok", "failed"})
  /\ UNCHANGED <<cache, pageVars, formVars>>

(* All rows of the app get the budget and the expiry, new scopes a row, old    *)
(* ones lose theirs.                                                           *)
UpdateApp ==
  /\ call.kind = "save" /\ call.state = "sent"
  /\ Exists(call.app) /\ call.form.scopes # {}
  /\ app' = [app EXCEPT ![call.app].perms = Parsed(call.form)]
  /\ Served(call.app, {"ok", "failed"})
  /\ UNCHANGED <<cache, pageVars, formVars>>

DeleteApp ==
  /\ call.kind = "delete" /\ call.state = "sent" /\ Exists(call.app)
  /\ app' = [app EXCEPT ![call.app] = NoApp]
  /\ Served(call.app, {"ok", "failed"})
  /\ UNCHANGED <<cache, pageVars, formVars>>

(* The call is lost on its way, or refused: no scopes, no such app, or a key   *)
(* that already has one.                                                       *)
CallFails ==
  /\ call.state = "sent"
  /\ Served(call.app, {"failed"})
  /\ UNCHANGED <<app, cache, pageVars, formVars>>

(* A request of the app is stored: the app's lastEventAt.                      *)
Use ==
  /\ \E a \in App : /\ Exists(a) /\ app[a].uses < Uses
                    /\ app' = [app EXCEPT ![a].uses = @ + 1]
  /\ UNCHANGED <<cache, pageVars, formVars, call>>

(* Another browser makes, changes or deletes an app.                           *)
Elsewhere ==
  /\ \E a \in App, p \in Others :
       /\ p # app[a].perms /\ (p.scopes # {} \/ Exists(a))
       /\ app' = [app EXCEPT ![a] = IF p.scopes = {} THEN NoApp ELSE [@ EXCEPT !.perms = p]]
       /\ excused' = (excused \/ (page = "app" /\ shown = a))
       /\ call' = [call EXCEPT !.kept = IF call.app = a THEN {} ELSE @]
  /\ UNCHANGED <<cache, pageVars, form, editing, error, touched>>

--------------------------------------------------------------------------------
(* The form.                                                                   *)

Fill(p) ==
  /\ form' = p
  /\ touched' = {}
  /\ excused' = FALSE

CanEdit ==
  \/ page = "new" /\ link.methods = {}
  \/ page = "app" /\ Loaded(shown) /\ ~error /\ editing

(* The expiry of a new connection is the user's to set unless the link did.    *)
CanSetExpiry == IF page = "new" THEN ~link.dated ELSE CanEdit

Saving == call.kind \in {"save", "refetch"} /\ call.mounted

(* Bound: the form is changed while no call is under way, or during a save of  *)
(* its own that was served.                                                    *)
Change(p, what) ==
  /\ call = NoCall \/ (Saving /\ call.state # "sent")
  /\ form' = p
  /\ touched' = IF page = "app" THEN touched \cup what ELSE {}
  /\ excused' = (excused \/ Saving)
  /\ UNCHANGED <<app, cache, pageVars, editing, error, call>>

(* handleScopeChange: a budget that is added renews monthly.                   *)
ToggleMonthly(s) ==
  IF s \in form.scopes
  THEN Change([form EXCEPT !.scopes = @ \ {s}], {s})
  ELSE Change([form EXCEPT !.scopes = @ \cup {s}, !.renewal = "monthly"], {s})
Toggle(s) ==
  IF s \in form.scopes
  THEN Change([form EXCEPT !.scopes = @ \ {s}], {s})
  ELSE IF s = "pay_invoice"
  THEN Change([form EXCEPT !.scopes = @ \cup {s}, !.renewal = "monthly"], {s, "renewal"})
  ELSE Change([form EXCEPT !.scopes = @ \cup {s}], {s})
SetMax(m) == Pays(form) /\ Change([form EXCEPT !.max = m], {"max"})
SetRenewal(r) == Change([form EXCEPT !.renewal = r], {"renewal"})

(* handleDaysChange: never, or at the end of a day from now.                   *)
SetExpiry(e) == Change([form EXCEPT !.expires = e], {"expires"})

EditForm ==
  \/ /\ CanEdit
     /\ \/ \E s \in Scopes : Toggle(s)
        \/ \E m \in Amounts : SetMax(m)
        \/ \E r \in Renewals : SetRenewal(r)
  \/ /\ CanSetExpiry
     /\ \E e \in Expiries : e.time = EndOfDay /\ SetExpiry(e)

--------------------------------------------------------------------------------
(* The pages.                                                                  *)

Mount(to, a) ==
  /\ page' = to
  /\ shown' = a
  /\ error' = FALSE
  /\ call' = [call EXCEPT !.mounted = FALSE]

(* A link to a new connection; what it leaves out has a default.  Bound: not   *)
(* during a save, of which this page is told nothing.                          *)
NewApp ==
  /\ page = "list" /\ call.kind \notin {"save", "refetch"}
  /\ \E methods \in SUBSET Methods, renewal \in Renewals, max \in Amounts,
        expires \in Expiries :
       /\ link' = [methods |-> methods, dated |-> expires # Never]
       /\ Fill([scopes |-> InitialScopes(methods), max |-> max, expires |-> expires,
                renewal |-> renewal])
  /\ editing' = FALSE
  /\ Mount("new", "none")
  /\ UNCHANGED <<app, cache>>

(* The cards of the list lead to an app; "Set Budget", and the pencil of the   *)
(* Alby account, straight into the edit mode.                                  *)
OpenApp(edit) ==
  /\ page = "list"
  /\ \E a \in App :
       /\ Exists(a) \/ Loaded(a)
       /\ Mount("app", a)
       /\ Fill(cache[a].perms)
       /\ editing' = edit
  /\ UNCHANGED <<app, cache, link>>

ShowApp == OpenApp(FALSE)
EditApp == OpenApp(TRUE)

LeaveTo(to, a) ==
  /\ Mount(to, a)
  /\ link' = NoLink
  /\ Fill(NoPermissions)
  /\ editing' = FALSE

Leave ==
  /\ page # "list"
  /\ LeaveTo("list", "none")
  /\ UNCHANGED <<app, cache>>

(* What the user has left as it is in the app, if the page has the app so.     *)
Kept == IF page = "app" /\ cache[shown].perms = View(app[shown].perms) THEN Fields \ touched ELSE {}

(* Bound: one call of the pages at a time.                                     *)
Send(kind, p) ==
  /\ call = NoCall
  /\ call' = [kind |-> kind, state |-> "sent", app |-> shown, mounted |-> TRUE, form |-> p,
              kept |-> Kept, asked |-> link.methods]
  /\ UNCHANGED <<app, cache, pageVars, formVars>>

HandleSubmit == page = "new" /\ Send("create", form)
HandleSave == page = "app" /\ CanEdit /\ Send("save", form)
HandleDelete == page = "app" /\ Loaded(shown) /\ ~error /\ Send("delete", NoPermissions)

Edit ==
  /\ page = "app" /\ Loaded(shown) /\ ~error /\ ~editing
  /\ editing' = TRUE
  /\ UNCHANGED <<app, cache, pageVars, form, error, touched, excused, call>>

Cancel ==
  /\ page = "app" /\ CanEdit
  /\ Fill(cache[shown].perms)
  /\ editing' = FALSE
  /\ UNCHANGED <<app, cache, pageVars, error, call>>

--------------------------------------------------------------------------------
(* The answers.                                                                *)

(* An answer that differs from the cached one fills the form; the answer for   *)
(* an app that is gone is an error, which the page shows in place of the app.  *)
FetchedUnfilled(a) ==
  /\ cache' = [cache EXCEPT ![a] = GetApp(a)]
  /\ UNCHANGED <<form, touched, excused>>
Fetched(a) ==
  /\ cache' = [cache EXCEPT ![a] = GetApp(a)]
  /\ IF page = "app" /\ cache[a] # GetApp(a)
     THEN Fill(View(app[a].perms))
     ELSE UNCHANGED <<form, touched, excused>>
FetchSucceeds(a) == Exists(a) /\ Fetched(a) /\ error' = FALSE
FetchFails ==
  /\ error' = (page = "app")
  /\ UNCHANGED <<cache, form, touched, excused>>

(* useApp, when the page gets the focus, and again after an error; or polled.  *)
Refresh ==
  /\ page \in {"app", "created"}
  /\ FetchSucceeds(shown) \/ FetchFails
  /\ UNCHANGED <<app, pageVars, editing, call>>

Answered(kind) == call.kind = kind /\ call.state \in {"ok", "failed"}
Done == call' = NoCall

(* The answer that an app was made leads to the page that waits for it, or out *)
(* to the link's return_to, from whatever page is there by then.               *)
CreateAnswered ==
  /\ Answered("create")
  /\ IF call.state = "ok"
     THEN /\ \/ page' = "created" /\ shown' = call.app
             \/ page' = "list" /\ shown' = "none"
          /\ link' = NoLink
          /\ Fill(NoPermissions)
          /\ editing' = FALSE /\ error' = FALSE
          /\ call' = NoCall
     ELSE Done /\ UNCHANGED <<pageVars, formVars>>
  /\ UNCHANGED <<app, cache>>

SaveAnswered ==
  /\ Answered("save")
  /\ IF call.state = "ok" THEN call' = [call EXCEPT !.kind = "refetch", !.state = "none"] ELSE Done
  /\ UNCHANGED <<app, cache, pageVars, formVars>>

(* The page refetches the app it has saved, and then leaves the edit mode.     *)
Refetched ==
  /\ call.kind = "refetch"
  /\ IF page = "app" /\ shown = call.app
     THEN FetchSucceeds(shown) \/ FetchFails
     ELSE UNCHANGED <<cache, form, error, touched, excused>>
  /\ editing' = (editing /\ ~call.mounted)
  /\ Done
  /\ UNCHANGED <<app, pageVars>>

DeleteAnswered ==
  /\ Answered("delete")
  /\ IF call.state = "ok"
     THEN /\ page' = "list" /\ shown' = "none" /\ link' = NoLink
          /\ Fill(NoPermissions)
          /\ editing' = FALSE /\ error' = FALSE
          /\ call' = NoCall
     ELSE Done /\ UNCHANGED <<pageVars, formVars>>
  /\ UNCHANGED <<app, cache>>

(* AppCreated: the app's first request ends the wait.                          *)
Established ==
  /\ page = "created" /\ cache[shown].uses > 0
  /\ LeaveTo("list", "none")
  /\ UNCHANGED <<app, cache>>

ServerNext == CreateApp \/ UpdateApp \/ DeleteApp \/ CallFails \/ Use \/ Elsewhere
UserNext ==
  \/ NewApp \/ ShowApp \/ EditApp \/ Leave \/ EditForm \/ Edit \/ Cancel
  \/ HandleSubmit \/ HandleSave \/ HandleDelete
AnswerNext ==
  \/ CreateAnswered \/ SaveAnswered \/ Refetched \/ DeleteAnswered \/ Refresh \/ Established
Next == ServerNext \/ UserNext \/ AnswerNext

(* AppCreated polls every 3 s, and an answer that reaches it is not always a   *)
(* failure.                                                                    *)
PolledNever == FALSE
Polled == page = "created"
Poll == Polled /\ Refresh /\ cache' # cache
Fairness == WF_vars(Poll) /\ WF_vars(Established)
Spec == Init /\ [][Next]_vars
FairSpec == Spec /\ Fairness

--------------------------------------------------------------------------------
(* Out of the edit mode the page shows what it last got of the app: whatever   *)
(* was edited before and then cancelled, saved or failed to be saved does not  *)
(* stay on it.  Excepted are an app that was changed elsewhere and a form that *)
(* was changed during the save.  (The budget counts with the payments.)        *)
ViewIsTrue ==
  page = "app" /\ Loaded(shown) /\ ~editing /\ ~error /\ ~excused =>
    View(form) = cache[shown].perms

(* A save changes in the app what the user changed on the page and nothing     *)
(* else, if the page had the app as it is; with calls that fail, answers that  *)
(* are lost and refreshes that fill the form anew in between.                  *)
SavesWhatIsTouched ==
  [][call.kind = "save" /\ call'.state # call.state /\ app' # app =>
       LET old == app[call.app].perms
           new == app'[call.app].perms
       IN /\ \A s \in Scopes \cap call.kept : s \in old.scopes <=> s \in new.scopes
          /\ "max" \in call.kept /\ Pays(old) => new.max = old.max
          /\ "renewal" \in call.kept /\ Pays(old) => new.renewal = old.renewal
          /\ "expires" \in call.kept => new.expires = old.expires]_vars

(* An app that is made from a link that names methods may call all of those    *)
(* and, besides, only what shares a scope with one of them: the page and the   *)
(* node split methods into scopes alike.                                       *)
CreatedAsAsked ==
  [][call.kind = "create" /\ call'.state # call.state /\ app' # app /\ call.asked # {} =>
       LET permitted == PermittedMethods(app'[call'.app].perms.scopes)
       IN /\ call.asked \subseteq permitted
          /\ \A m \in permitted : \E n \in call.asked : RequestMethodToScope(m) = RequestMethodToScope(n)]_vars

(* Who waits for the first request of a new app is told of it.                 *)
UsedUnseen == page = "created" /\ app[shown].uses > 0
FirstUseIsSeen == UsedUnseen ~> ~UsedUnseen

================================================================================
