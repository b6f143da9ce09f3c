--------------------------- MODULE ConnectionsProofs ---------------------------
(* What holds of the connection pages for every set of apps, methods, budgets, *)
(* renewals and expiries.  The argument: outside what the user has touched,    *)
(* the form agrees with the cached app it was filled from, and so does a save  *)
(* that was sent with the app itself, as long as nobody else has changed that; *)
(* and what the node and the app's page hold expires at the end of a day, so   *)
(* that a save does not move it.                                               *)
EXTENDS Connections, TLAPS

Agree(p, q, what) ==
  /\ \A s \in Scopes \ what : s \in p.scopes <=> s \in q.scopes
  /\ "max" \notin what => p.max = q.max
  /\ "renewal" \notin what => p.renewal = q.renewal
  /\ "expires" \notin what => p.expires = q.expires

Rounded(p) == ParseExpiresAt(p.expires) = p.expires
AppsRounded == \A a \in App : Rounded(app[a].perms) /\ Rounded(cache[a].perms)
FormRounded == page = "app" => Rounded(form)
SaveRounded == call.kind = "save" => Rounded(call.form)

FormAgrees == page = "app" => Agree(form, cache[shown].perms, touched)
SaveAgrees ==
  call.kind = "save" /\ call.state = "sent" =>
    Agree(call.form, View(app[call.app].perms), Fields \ call.kept)
FormAsAsked == page = "new" /\ link.methods # {} => form.scopes = InitialScopes(link.methods)
CallAsAsked ==
  call.kind = "create" /\ call.state = "sent" /\ call.asked # {} =>
    call.form.scopes = InitialScopes(call.asked)

ConnInv ==
  /\ TypeOK /\ FormAgrees /\ SaveAgrees /\ FormAsAsked /\ CallAsAsked
  /\ AppsRounded /\ FormRounded /\ SaveRounded

--------------------------------------------------------------------------------
(* The scopes a link asks for are scopes of the wallet.                        *)
LEMMA InitialScopesType ==
  ASSUME NEW methods \in SUBSET Methods
  PROVE  InitialScopes(methods) \subseteq Scopes
<1>1. Asked(methods) \subseteq Methods
  BY DEF Asked
<1>2. \A m \in Methods \ PayMethods : m \in Scopes
  BY DEF Scopes, RequestMethodToScope
<1>3. Asked(methods) \cap PayMethods # {} => "pay_invoice" \in Scopes
  BY <1>1 DEF Scopes, RequestMethodToScope
<1> QED BY <1>1, <1>2, <1>3 DEF InitialScopes, Scopes

(* An expiry is moved to the end of its day, and from there no more.           *)
LEMMA ParseTwice ==
  ASSUME NEW e \in Expiries
  PROVE  /\ ParseExpiresAt(e) \in Expiries
         /\ ParseExpiresAt(ParseExpiresAt(e)) = ParseExpiresAt(e)
         /\ e.time = EndOfDay => ParseExpiresAt(e) = e
<1>1. CASE e = Never
  BY <1>1 DEF ParseExpiresAt
<1>2. CASE e # Never
  <2> DEFINE at == [e EXCEPT !.time = EndOfDay]
  <2>1. PICK d \in Days, t \in {"12:00:00", EndOfDay} : e = [day |-> d, time |-> t]
    BY <1>2 DEF Expiries
  <2>2. at = [day |-> d, time |-> EndOfDay]
    BY <2>1
  <2>3. at \in Expiries /\ [at EXCEPT !.time = EndOfDay] = at
    BY <2>2 DEF Expiries
  <2>4. e.time = EndOfDay => at = e
    BY <2>1, <2>2
  <2> HIDE DEF at
  <2>5. ParseExpiresAt(e) = at
    BY <1>2 DEF ParseExpiresAt, at
  <2>6. ParseExpiresAt(at) = at
    BY <2>3 DEF ParseExpiresAt
  <2> QED BY <2>3, <2>4, <2>5, <2>6
<1> QED BY <1>1, <1>2

(* What the node makes of the permissions of a call.                           *)
LEMMA ParsedType ==
  ASSUME NEW p \in Permissions
  PROVE  /\ Parsed(p) \in Permissions /\ Rounded(Parsed(p))
         /\ Parsed(p).scopes = p.scopes /\ Parsed(p).max = p.max
         /\ Parsed(p).renewal = p.renewal
         /\ Rounded(p) => Parsed(p) = p
<1>1. p.expires \in Expiries
  BY DEF Permissions
<1>2. /\ ParseExpiresAt(p.expires) \in Expiries
      /\ ParseExpiresAt(ParseExpiresAt(p.expires)) = ParseExpiresAt(p.expires)
  BY <1>1, ParseTwice
<1> QED BY <1>1, <1>2 DEF Parsed, Rounded, Permissions

(* What the API shows of an app's permissions are permissions.                 *)
LEMMA ViewType ==
  ASSUME NEW p \in Permissions
  PROVE  /\ View(p) \in Permissions /\ (Pays(p) => View(p) = p)
         /\ View(p).scopes = p.scopes /\ View(p).expires = p.expires
BY ConnectionsAssumption DEF View, Permissions

(* One request more is still within the bound.                                 *)
LEMMA NextUse ==
  ASSUME NEW n \in 0..Uses, n < Uses
  PROVE  n + 1 \in 0..Uses
<1>1. Uses \in Nat
  BY ConnectionsAssumption
<1> QED BY <1>1

(* The records that stand for nothing have their types.                        *)
LEMMA Constants ==
  /\ NoPermissions \in Permissions /\ NoApp \in Record /\ NoCall \in Call
  /\ NoLink \in [methods : SUBSET Methods, dated : BOOLEAN]
  /\ "monthly" \in Renewals /\ 0 \in 0..Uses /\ NoCall.kind = "none"
  /\ NoCall.form = NoPermissions /\ Rounded(NoPermissions)
<1>1. NoPermissions \in Permissions
  BY ConnectionsAssumption DEF NoPermissions, Permissions, Expiries
<1>2. 0 \in 0..Uses
  <2>1. Uses \in Nat
    BY ConnectionsAssumption
  <2> QED BY <2>1
<1>4. NoApp \in Record
  BY <1>1, <1>2 DEF NoApp, Record
<1>3. NoCall \in Call /\ NoCall.kind = "none" /\ NoCall.form = NoPermissions
  BY <1>1 DEF NoCall, Call
<1>6. Rounded(NoPermissions)
  BY DEF Rounded, NoPermissions, ParseExpiresAt
<1>5. "monthly" \in Renewals
  BY ConnectionsAssumption
<1> QED BY <1>1, <1>2, <1>3, <1>4, <1>5, <1>6 DEF NoLink

(* What GetApp answers is what the cache may hold.                             *)
LEMMA GetAppType ==
  ASSUME NEW a \in App, app \in [App -> Record]
  PROVE  GetApp(a) \in Record /\ GetApp(a).perms = View(app[a].perms)
<1>1. app[a].perms \in Permissions /\ app[a].uses \in 0..Uses
  BY DEF Record
<1> QED BY <1>1, ViewType DEF GetApp, Record

(* A call that was served is a call.                                           *)
LEMMA ServedType ==
  ASSUME TypeOK, NEW a \in App \cup {"none"}, NEW states \in SUBSET {"ok", "failed"},
         Served(a, states)
  PROVE  /\ call' \in Call
         /\ call'.kind = call.kind /\ call'.app = a /\ call'.state \in states
         /\ call'.asked = {} /\ call'.form = NoPermissions
<1>1. PICK s \in states : call' = [NoCall EXCEPT !.kind = call.kind, !.state = s, !.app = a,
                                                 !.mounted = call.mounted]
  BY DEF Served
<1>2. NoCall \in Call /\ call \in Call
  BY Constants DEF TypeOK
<1>3. NoCall.asked = {} /\ NoCall.form = NoPermissions
  BY DEF NoCall
<1> QED BY <1>1, <1>2, <1>3 DEF Call

--------------------------------------------------------------------------------
(* At first nothing is shown, filled or sent.                                  *)
LEMMA InitConnInv == Init => ConnInv
<1> SUFFICES ASSUME Init PROVE ConnInv
  OBVIOUS
<1>1. TypeOK
  BY Constants DEF Init, TypeOK, NoCall
<1>2. AppsRounded /\ FormRounded /\ SaveRounded
  BY Constants DEF Init, AppsRounded, FormRounded, SaveRounded, NoApp
<1> QED BY <1>1, <1>2 DEF Init, ConnInv, FormAgrees, SaveAgrees, FormAsAsked, CallAsAsked, NoCall

(* The steps that fill the form.                                               *)
LEMMA FetchedType ==
  ASSUME TypeOK, NEW a \in App, a = shown, FetchSucceeds(a) \/ FetchFails
  PROVE  /\ cache' \in [App -> Record]
         /\ form' \in Permissions /\ touched' \subseteq Fields
         /\ error' \in BOOLEAN /\ excused' \in BOOLEAN
<1>1. GetApp(a) \in Record /\ app[a].perms \in Permissions
  BY GetAppType DEF TypeOK, Record
<1>2. View(app[a].perms) \in Permissions
  BY <1>1, ViewType
<1> QED BY <1>1, <1>2 DEF FetchSucceeds, FetchFails, Fetched, Fill, TypeOK

(* A form that was just filled agrees with the cached app, and one that was    *)
(* not is as it was.                                                           *)
LEMMA FetchedAgrees ==
  ASSUME ConnInv, page = "app", page' = page, shown' = shown, FetchSucceeds(shown) \/ FetchFails
  PROVE  FormAgrees'
<1>1. shown \in App /\ TypeOK /\ Agree(form, cache[shown].perms, touched)
  BY DEF ConnInv, FormAgrees, TypeOK
<1>2. CASE FetchFails
  BY <1>1, <1>2 DEF FetchFails, FormAgrees
<1>3. CASE FetchSucceeds(shown)
  <2>1. cache'[shown] = GetApp(shown) /\ cache'[shown].perms = View(app[shown].perms)
    BY <1>1, <1>3, GetAppType DEF FetchSucceeds, Fetched, TypeOK
  <2>2. CASE cache[shown] # GetApp(shown)
    <3>1. form' = View(app[shown].perms)
      BY <1>3, <2>2 DEF FetchSucceeds, Fetched, Fill
    <3> QED BY <2>1, <3>1 DEF FormAgrees, Agree
  <2>3. CASE cache[shown] = GetApp(shown)
    BY <1>1, <1>3, <2>1, <2>3 DEF FetchSucceeds, Fetched, FormAgrees
  <2> QED BY <2>2, <2>3
<1> QED BY <1>2, <1>3
--------------------------------------------------------------------------------
(* Every action, answer and change elsewhere keeps the types.                  *)
LEMMA NextTypeOK == TypeOK /\ [Next]_vars => TypeOK'
<1> SUFFICES ASSUME TypeOK, [Next]_vars PROVE TypeOK'
  OBVIOUS
<1> USE Constants
<1>0. \A a \in App : app[a] \in Record /\ cache[a] \in Record /\ app[a].perms \in Permissions
                     /\ cache[a].perms \in Permissions
  BY DEF TypeOK, Record
<1>1. CASE CreateApp
  <2>1. PICK a \in App : app' = [app EXCEPT ![a] = [perms |-> Parsed(call.form), uses |-> 0]]
                        /\ Served(a, {"ok", "failed"})
    BY <1>1 DEF CreateApp
  <2>2. [perms |-> Parsed(call.form), uses |-> 0] \in Record
    BY ParsedType DEF TypeOK, Call, Record
  <2>3. call' \in Call /\ call'.app = a
    BY <2>1, ServedType
  <2> QED BY <1>1, <2>1, <2>2, <2>3 DEF CreateApp, TypeOK, pageVars, formVars
<1>2. CASE UpdateApp
  <2>1. call.app \in App /\ call.kind = "save"
    BY <1>2 DEF UpdateApp, TypeOK
  <2>2. [app[call.app] EXCEPT !.perms = Parsed(call.form)] \in Record
    BY <1>0, <2>1, ParsedType DEF TypeOK, Call, Record
  <2>3. app' = [app EXCEPT ![call.app] = [app[call.app] EXCEPT !.perms = Parsed(call.form)]]
    BY <1>2 DEF UpdateApp
  <2>4. call' \in Call /\ call'.app = call.app
    BY <1>2, <2>1, ServedType DEF UpdateApp
  <2>5. app' \in [App -> Record]
    BY <2>2, <2>3 DEF TypeOK
  <2> QED BY <1>2, <2>1, <2>4, <2>5 DEF UpdateApp, TypeOK, pageVars, formVars
<1>3. CASE DeleteApp
  <2>1. call.app \in App
    BY <1>3 DEF DeleteApp, TypeOK
  <2>2. call' \in Call /\ call'.app = call.app
    BY <1>3, <2>1, ServedType DEF DeleteApp
  <2> QED BY <1>3, <2>1, <2>2 DEF DeleteApp, TypeOK, pageVars, formVars
<1>4. CASE CallFails
  <2>1. call.app \in App \cup {"none"} /\ Served(call.app, {"failed"})
    BY <1>4 DEF CallFails, TypeOK, Call
  <2>2. {"failed"} \in SUBSET {"ok", "failed"}
    OBVIOUS
  <2>3. call' \in Call /\ call'.app = call.app /\ call'.kind = call.kind /\ call'.state \in {"failed"}
    BY <2>1, <2>2, ServedType
  <2> QED BY <1>4, <2>3 DEF CallFails, TypeOK, pageVars, formVars
<1>5. CASE Use
  <2>1. PICK a \in App : app[a].uses < Uses /\ app' = [app EXCEPT ![a].uses = @ + 1]
    BY <1>5 DEF Use
  <2>2. app[a].uses + 1 \in 0..Uses
    <3>1. Uses \in Nat /\ app[a].uses \in 0..Uses
      BY <1>0, ConnectionsAssumption DEF Record
    <3>2. app[a].uses < Uses
      BY <2>1
    <3> QED BY <3>1, <3>2, NextUse
  <2>4. [app[a] EXCEPT !.uses = @ + 1] \in Record
    BY <1>0, <2>2 DEF Record
  <2>3. app' \in [App -> Record]
    BY <2>1, <2>4 DEF TypeOK
  <2> QED BY <1>5, <2>3 DEF Use, TypeOK, pageVars, formVars
<1>6. CASE Elsewhere
  <2>1. PICK a \in App, p \in Permissions :
          /\ app' = [app EXCEPT ![a] = IF p.scopes = {} THEN NoApp ELSE [@ EXCEPT !.perms = p]]
          /\ excused' = (excused \/ (page = "app" /\ shown = a))
          /\ call' = [call EXCEPT !.kept = IF call.app = a THEN {} ELSE @]
    BY <1>6, OthersAssumption DEF Elsewhere
  <2>2. [app[a] EXCEPT !.perms = p] \in Record
    BY <1>0 DEF Record
  <2>3. app' \in [App -> Record]
    BY <2>1, <2>2 DEF TypeOK
  <2>4. (IF call.app = a THEN {} ELSE call.kept) \in SUBSET Fields
    BY DEF TypeOK, Call
  <2>5. call' \in Call /\ call'.app = call.app /\ call'.kind = call.kind /\ call'.state = call.state
    BY <2>1, <2>4 DEF TypeOK, Call
  <2>6. excused' \in BOOLEAN
    BY <2>1 DEF TypeOK
  <2> QED BY <1>6, <2>3, <2>5, <2>6 DEF Elsewhere, TypeOK, pageVars
<1>7. CASE NewApp
  <2>1. call' \in Call /\ call'.app = call.app /\ call'.kind = call.kind /\ call'.state = call.state
    BY <1>7 DEF NewApp, Mount, TypeOK, Call
  <2>2. PICK methods \in SUBSET Methods, renewal \in Renewals, max \in Amounts,
               expires \in Expiries :
          /\ link' = [methods |-> methods, dated |-> expires # Never]
          /\ Fill([scopes |-> InitialScopes(methods), max |-> max, expires |-> expires,
                   renewal |-> renewal])
    BY <1>7 DEF NewApp
  <2>3. form' \in Permissions
    BY <2>2, InitialScopesType DEF Fill, Permissions
  <2> QED BY <1>7, <2>1, <2>2, <2>3 DEF NewApp, Mount, Fill, TypeOK
<1>8. CASE ShowApp \/ EditApp
  <2>1. call' \in Call /\ call'.app = call.app /\ call'.kind = call.kind /\ call'.state = call.state
    BY <1>8 DEF ShowApp, EditApp, OpenApp, Mount, TypeOK, Call
  <2> QED BY <1>0, <1>8, <2>1 DEF ShowApp, EditApp, OpenApp, Mount, Fill, TypeOK
<1>9. CASE Leave
  <2>1. call' \in Call /\ call'.app = call.app /\ call'.kind = call.kind /\ call'.state = call.state
    BY <1>9 DEF Leave, LeaveTo, Mount, TypeOK, Call
  <2> QED BY <1>9, <2>1 DEF Leave, LeaveTo, Mount, Fill, TypeOK
<1>10. ASSUME NEW p \in Permissions, NEW what \in SUBSET Fields, Change(p, what) PROVE TypeOK'
  <2>1. excused' \in BOOLEAN /\ touched' \subseteq Fields
    BY <1>10 DEF Change, TypeOK, Saving
  <2> QED BY <1>10, <2>1 DEF Change, TypeOK, pageVars
<1>11. CASE EditForm
  <2>1. ASSUME NEW s \in Scopes, Toggle(s) PROVE TypeOK'
    <3>1. /\ [form EXCEPT !.scopes = @ \ {s}] \in Permissions
          /\ [form EXCEPT !.scopes = @ \cup {s}] \in Permissions
          /\ [form EXCEPT !.scopes = @ \cup {s}, !.renewal = "monthly"] \in Permissions
      BY DEF TypeOK, Permissions
    <3>2. {s} \in SUBSET Fields /\ {s, "renewal"} \in SUBSET Fields
      BY DEF Fields
    <3> QED BY <1>10, <2>1, <3>1, <3>2 DEF Toggle
  <2>2. ASSUME NEW m \in Amounts, SetMax(m) PROVE TypeOK'
    BY <1>10, <2>2 DEF SetMax, TypeOK, Permissions, Fields
  <2>3. ASSUME NEW r \in Renewals, SetRenewal(r) PROVE TypeOK'
    BY <1>10, <2>3 DEF SetRenewal, TypeOK, Permissions, Fields
  <2>4. ASSUME NEW e \in Expiries, SetExpiry(e) PROVE TypeOK'
    BY <1>10, <2>4 DEF SetExpiry, TypeOK, Permissions, Fields
  <2> QED BY <1>11, <2>1, <2>2, <2>3, <2>4 DEF EditForm
<1>12. CASE Edit
  BY <1>12 DEF Edit, TypeOK, pageVars
<1>13. CASE Cancel
  BY <1>0, <1>13 DEF Cancel, Fill, TypeOK, pageVars
<1>14. ASSUME NEW kind \in {"create", "save", "delete"}, NEW p \in Permissions, Send(kind, p),
              kind \in {"save", "delete"} => page = "app"
       PROVE TypeOK'
  <2>1. Kept \in SUBSET Fields
    BY DEF Kept
  <2>2. call' \in Call
    BY <1>14, <2>1 DEF Send, TypeOK, Call
  <2>3. call'.kind = kind /\ call'.state = "sent" /\ call'.app = shown
    BY <1>14 DEF Send
  <2> QED BY <1>14, <2>2, <2>3 DEF Send, TypeOK, pageVars, formVars
<1>15. CASE HandleSubmit \/ HandleSave \/ HandleDelete
  BY <1>14, <1>15 DEF HandleSubmit, HandleSave, HandleDelete, TypeOK
<1>16. CASE CreateAnswered
  <2>1. CASE call.state = "ok"
    BY <1>16, <2>1 DEF CreateAnswered, Answered, Fill, TypeOK
  <2>2. CASE call.state # "ok"
    BY <1>16, <2>2 DEF CreateAnswered, Done, TypeOK, pageVars, formVars
  <2> QED BY <2>1, <2>2
<1>17. CASE SaveAnswered
  <2>1. call' \in Call /\ (call'.kind = "refetch" => call'.app \in App)
          /\ call'.kind \in {"refetch", "none"}
    BY <1>17 DEF SaveAnswered, Answered, Done, TypeOK, Call, NoCall
  <2> QED BY <1>17, <2>1 DEF SaveAnswered, TypeOK, pageVars, formVars
<1>18. CASE Refetched
  <2>1. /\ cache' \in [App -> Record] /\ form' \in Permissions /\ touched' \subseteq Fields
        /\ error' \in BOOLEAN /\ excused' \in BOOLEAN
    BY <1>18, FetchedType DEF Refetched, TypeOK
  <2>2. editing' \in BOOLEAN
    BY <1>18 DEF Refetched, TypeOK
  <2> QED BY <1>18, <2>1, <2>2 DEF Refetched, Done, TypeOK, pageVars, NoCall
<1>19. CASE DeleteAnswered
  <2>1. CASE call.state = "ok"
    BY <1>19, <2>1 DEF DeleteAnswered, Answered, Fill, TypeOK
  <2>2. CASE call.state # "ok"
    BY <1>19, <2>2 DEF DeleteAnswered, Done, TypeOK, pageVars, formVars
  <2> QED BY <2>1, <2>2
<1>20. CASE Refresh
  <2>1. /\ cache' \in [App -> Record] /\ form' \in Permissions /\ touched' \subseteq Fields
        /\ error' \in BOOLEAN /\ excused' \in BOOLEAN
    BY <1>20, FetchedType DEF Refresh, TypeOK
  <2> QED BY <1>20, <2>1 DEF Refresh, TypeOK, pageVars
<1>21. CASE Established
  <2>1. call' \in Call /\ call'.app = call.app /\ call'.kind = call.kind /\ call'.state = call.state
    BY <1>21 DEF Established, LeaveTo, Mount, TypeOK, Call
  <2> QED BY <1>21, <2>1 DEF Established, LeaveTo, Mount, Fill, TypeOK
<1>22. CASE UNCHANGED vars
  BY <1>22 DEF vars, pageVars, formVars, TypeOK
<1> QED
  BY <1>1, <1>2, <1>3, <1>4, <1>5, <1>6, <1>7, <1>8, <1>9, <1>11, <1>12, <1>13, <1>15, <1>16,
     <1>17, <1>18, <1>19, <1>20, <1>21, <1>22
  DEF Next, ServerNext, UserNext, AnswerNext
--------------------------------------------------------------------------------
(* The rest of the invariant.  Two shapes of step: one that leaves the form,   *)
(* the page and its app alone, and one that fills the form or leaves the page. *)
LEMMA NextFormAgrees == ConnInv /\ [Next]_vars => FormAgrees'
<1> SUFFICES ASSUME ConnInv, [Next]_vars PROVE FormAgrees'
  OBVIOUS
<1>0. TypeOK /\ FormAgrees
  BY DEF ConnInv
<1>1. ASSUME UNCHANGED <<cache, page, shown, form, touched>> PROVE FormAgrees'
  BY <1>0, <1>1 DEF FormAgrees
<1>2. CASE ServerNext \/ UNCHANGED vars
  BY <1>1, <1>2 DEF ServerNext, CreateApp, UpdateApp, DeleteApp, CallFails, Use, Elsewhere,
                    vars, pageVars, formVars
<1>3. CASE NewApp
  BY <1>3 DEF NewApp, Mount, FormAgrees
<1>4. CASE ShowApp \/ EditApp
  BY <1>4 DEF ShowApp, EditApp, OpenApp, Mount, Fill, FormAgrees, Agree
<1>5. CASE Leave \/ Established
  BY <1>5 DEF Leave, Established, LeaveTo, Mount, FormAgrees
<1>6. CASE EditForm
  <2>0. ASSUME NEW p \in Permissions, NEW what, Change(p, what), Agree(p, form, what)
        PROVE  FormAgrees'
    BY <1>0, <2>0 DEF Change, FormAgrees, Agree, pageVars
  <2>1. ASSUME NEW s \in Scopes, Toggle(s) PROVE FormAgrees'
    <3> DEFINE without == [form EXCEPT !.scopes = @ \ {s}]
               with == [form EXCEPT !.scopes = @ \cup {s}]
               monthly == [form EXCEPT !.scopes = @ \cup {s}, !.renewal = "monthly"]
    <3>1. without \in Permissions /\ with \in Permissions /\ monthly \in Permissions
      BY <1>0, Constants DEF TypeOK, Permissions
    <3>2. /\ Agree(without, form, {s}) /\ Agree(with, form, {s})
          /\ Agree(monthly, form, {s, "renewal"})
      BY <1>0 DEF Agree, TypeOK, Permissions
    <3> HIDE DEF without, with, monthly
    <3>3. Change(without, {s}) \/ Change(with, {s}) \/ Change(monthly, {s, "renewal"})
      BY <2>1 DEF Toggle, without, with, monthly
    <3> QED BY <2>0, <3>1, <3>2, <3>3
  <2>2. ASSUME NEW m \in Amounts, SetMax(m) PROVE FormAgrees'
    BY <1>0, <2>0, <2>2 DEF SetMax, Agree, TypeOK, Permissions
  <2>3. ASSUME NEW r \in Renewals, SetRenewal(r) PROVE FormAgrees'
    BY <1>0, <2>0, <2>3 DEF SetRenewal, Agree, TypeOK, Permissions
  <2>4. ASSUME NEW e \in Expiries, SetExpiry(e) PROVE FormAgrees'
    BY <1>0, <2>0, <2>4 DEF SetExpiry, Agree, TypeOK, Permissions
  <2> QED BY <1>6, <2>1, <2>2, <2>3, <2>4 DEF EditForm
<1>7. CASE Edit
  BY <1>1, <1>7 DEF Edit, pageVars
<1>8. CASE Cancel
  BY <1>8 DEF Cancel, Fill, FormAgrees, Agree, pageVars
<1>9. CASE HandleSubmit \/ HandleSave \/ HandleDelete
  BY <1>1, <1>9 DEF HandleSubmit, HandleSave, HandleDelete, Send, pageVars, formVars
<1>10. CASE CreateAnswered \/ DeleteAnswered
  <2>1. CASE call.state = "ok"
    BY <1>10, <2>1 DEF CreateAnswered, DeleteAnswered, FormAgrees
  <2>2. CASE call.state # "ok"
    BY <1>1, <1>10, <2>2 DEF CreateAnswered, DeleteAnswered, pageVars, formVars
  <2> QED BY <2>1, <2>2
<1>11. CASE SaveAnswered
  BY <1>1, <1>11 DEF SaveAnswered, pageVars, formVars
<1>12. CASE Refetched
  <2>1. CASE page = "app" /\ shown = call.app
    BY <1>12, <2>1, FetchedAgrees DEF Refetched, pageVars
  <2>2. CASE ~(page = "app" /\ shown = call.app)
    BY <1>1, <1>12, <2>2 DEF Refetched, pageVars
  <2> QED BY <2>1, <2>2
<1>13. CASE Refresh
  <2>1. CASE page = "app"
    BY <1>13, <2>1, FetchedAgrees DEF Refresh, pageVars
  <2>2. CASE page = "created"
    BY <1>13, <2>2 DEF Refresh, pageVars, FormAgrees
  <2> QED BY <1>13, <2>1, <2>2 DEF Refresh
<1> QED
  BY <1>2, <1>3, <1>4, <1>5, <1>6, <1>7, <1>8, <1>9, <1>10, <1>11, <1>12, <1>13
  DEF Next, UserNext, AnswerNext

(* Where every field may differ nothing has to agree.                          *)
LEMMA AgreeOnNothing == \A p, q : Agree(p, q, Fields \ {})
BY DEF Agree, Fields

(* A call is sent, changed elsewhere, or no longer on its way.                 *)
LEMMA NextSaveAgrees == ConnInv /\ [Next]_vars => SaveAgrees'
<1> SUFFICES ASSUME ConnInv, [Next]_vars PROVE SaveAgrees'
  OBVIOUS
<1>0. TypeOK /\ FormAgrees /\ SaveAgrees
  BY DEF ConnInv
<1>1. ASSUME call'.state # "sent" \/ call'.kind # "save" PROVE SaveAgrees'
  BY <1>1 DEF SaveAgrees
<1>2. ASSUME app' = app, call'.kind = call.kind, call'.state = call.state, call'.app = call.app,
             call'.form = call.form, call'.kept = call.kept
      PROVE  SaveAgrees'
  BY <1>0, <1>2 DEF SaveAgrees
<1>3. CASE CreateApp \/ UpdateApp \/ DeleteApp \/ CallFails
  BY <1>1, <1>3 DEF CreateApp, UpdateApp, DeleteApp, CallFails, Served, NoCall
<1>4. CASE Use
  <2>1. PICK a \in App : app' = [app EXCEPT ![a].uses = @ + 1]
    BY <1>4 DEF Use
  <2>2. \A b \in App : app'[b].perms = app[b].perms
    BY <1>0, <2>1 DEF TypeOK, Record
  <2>3. call' = call
    BY <1>4 DEF Use
  <2>4. call.kind = "save" => call.app \in App
    BY <1>0 DEF TypeOK
  <2> QED BY <1>0, <2>2, <2>3, <2>4 DEF SaveAgrees
<1>5. CASE Elsewhere
  <2>1. PICK a \in App, p \in Permissions :
          /\ app' = [app EXCEPT ![a] = IF p.scopes = {} THEN NoApp ELSE [@ EXCEPT !.perms = p]]
          /\ call' = [call EXCEPT !.kept = IF call.app = a THEN {} ELSE @]
    BY <1>5, OthersAssumption DEF Elsewhere
  <2>2. /\ call'.kind = call.kind /\ call'.state = call.state /\ call'.app = call.app
        /\ call'.form = call.form
        /\ call'.kept = IF call.app = a THEN {} ELSE call.kept
    BY <1>0, <2>1 DEF TypeOK, Call
  <2>3. call.app # a => app'[call.app] = app[call.app] \/ call.app \notin App
    BY <1>0, <2>1 DEF TypeOK
  <2>4. call.kind = "save" => call.app \in App
    BY <1>0 DEF TypeOK
  <2>5. CASE call.app = a
    BY <2>2, <2>5, AgreeOnNothing DEF SaveAgrees
  <2>6. CASE call.app # a
    BY <1>0, <2>2, <2>3, <2>4, <2>6 DEF SaveAgrees
  <2> QED BY <2>5, <2>6
<1>6. CASE NewApp \/ ShowApp \/ EditApp \/ Leave \/ Established
  <2>1. app' = app /\ call' = [call EXCEPT !.mounted = FALSE]
    BY <1>6 DEF NewApp, ShowApp, EditApp, OpenApp, Leave, Established, LeaveTo, Mount
  <2> QED BY <1>0, <1>2, <2>1 DEF TypeOK, Call
<1>7. CASE EditForm \/ Edit \/ Cancel \/ Refresh \/ UNCHANGED vars
  BY <1>2, <1>7 DEF EditForm, Toggle, SetMax, SetRenewal, SetExpiry, Change, Edit, Cancel,
                        Refresh, vars
<1>8. CASE HandleSubmit \/ HandleDelete
  BY <1>1, <1>8 DEF HandleSubmit, HandleDelete, Send
<1>9. CASE HandleSave
  <2>1. page = "app" /\ Send("save", form)
    BY <1>9 DEF HandleSave
  <2>2. app' = app /\ call'.form = form /\ call'.kept = Kept /\ call'.app = shown
    BY <2>1 DEF Send
  <2>3. Agree(form, cache[shown].perms, touched)
    BY <1>0, <2>1 DEF FormAgrees
  <2>4. CASE cache[shown].perms = View(app[shown].perms)
    <3>1. Fields \ call'.kept = touched
      BY <1>0, <2>1, <2>2, <2>4 DEF Kept, TypeOK
    <3> QED BY <2>2, <2>3, <2>4, <3>1 DEF SaveAgrees
  <2>5. CASE cache[shown].perms # View(app[shown].perms)
    <3>1. call'.kept = {}
      BY <2>2, <2>5 DEF Kept
    <3> QED BY <3>1, AgreeOnNothing DEF SaveAgrees
  <2> QED BY <2>4, <2>5
<1>10. CASE CreateAnswered \/ DeleteAnswered \/ Refetched
  BY <1>1, <1>10 DEF CreateAnswered, DeleteAnswered, Refetched, Done, NoCall
<1>11. CASE SaveAnswered
  <2>1. CASE call.state = "ok"
    <3>1. call'.kind = "refetch"
      BY <1>0, <1>11, <2>1 DEF SaveAnswered, TypeOK, Call
    <3> QED BY <1>1, <3>1
  <2>2. CASE call.state # "ok"
    BY <1>1, <1>11, <2>2 DEF SaveAnswered, Done, NoCall
  <2> QED BY <2>1, <2>2
<1> QED
  BY <1>3, <1>4, <1>5, <1>6, <1>7, <1>8, <1>9, <1>10, <1>11
  DEF Next, ServerNext, UserNext, AnswerNext
(* What a link names reaches the call that makes the app: the form of such a   *)
(* link cannot be edited.                                                      *)
LEMMA NextAsAsked == ConnInv /\ [Next]_vars => (FormAsAsked /\ CallAsAsked)'
<1> SUFFICES ASSUME ConnInv, [Next]_vars PROVE (FormAsAsked /\ CallAsAsked)'
  OBVIOUS
<1>0. TypeOK /\ FormAsAsked /\ CallAsAsked
  BY DEF ConnInv
<1>1. ASSUME \/ UNCHANGED <<page, link, form>>
             \/ page' # "new"
             \/ UNCHANGED <<page, link>> /\ page # "new"
      PROVE  FormAsAsked'
  BY <1>0, <1>1 DEF FormAsAsked
<1>2. ASSUME \/ call'.state # "sent" \/ call'.kind # "create"
             \/ /\ call'.kind = call.kind /\ call'.state = call.state
                /\ call'.asked = call.asked /\ call'.form = call.form
      PROVE  CallAsAsked'
  BY <1>0, <1>2 DEF CallAsAsked
<1>3. CASE CreateApp \/ UpdateApp \/ DeleteApp \/ CallFails
  BY <1>1, <1>2, <1>3 DEF CreateApp, UpdateApp, DeleteApp, CallFails, Served, NoCall, pageVars,
                          formVars
<1>4. CASE Use \/ UNCHANGED vars
  BY <1>1, <1>2, <1>4 DEF Use, vars, pageVars, formVars
<1>5. CASE Elsewhere
  <2>1. /\ call'.kind = call.kind /\ call'.state = call.state
        /\ call'.asked = call.asked /\ call'.form = call.form
    BY <1>0, <1>5 DEF Elsewhere, TypeOK, Call
  <2> QED BY <1>1, <1>2, <1>5, <2>1 DEF Elsewhere, pageVars
<1>6. ASSUME call' = [call EXCEPT !.mounted = FALSE] PROVE CallAsAsked'
  BY <1>0, <1>2, <1>6 DEF TypeOK, Call
<1>7. CASE NewApp
  <2>1. PICK methods \in SUBSET Methods, renewal \in Renewals, max \in Amounts,
               expires \in Expiries :
          /\ link' = [methods |-> methods, dated |-> expires # Never]
          /\ Fill([scopes |-> InitialScopes(methods), max |-> max, expires |-> expires,
                   renewal |-> renewal])
    BY <1>7 DEF NewApp
  <2>2. link'.methods = methods /\ form'.scopes = InitialScopes(methods)
    BY <2>1 DEF Fill
  <2>3. call' = [call EXCEPT !.mounted = FALSE]
    BY <1>7 DEF NewApp, Mount
  <2> QED BY <1>6, <2>2, <2>3 DEF FormAsAsked
<1>8. CASE ShowApp \/ EditApp \/ Leave \/ Established
  BY <1>1, <1>6, <1>8 DEF ShowApp, EditApp, OpenApp, Leave, Established, LeaveTo, Mount
<1>9. CASE EditForm
  <2>1. UNCHANGED <<call, page, link>>
    BY <1>9 DEF EditForm, Toggle, SetMax, SetRenewal, SetExpiry, Change, pageVars
  <2>2. CASE CanEdit
    BY <1>2, <2>1, <2>2 DEF CanEdit, FormAsAsked
  <2>3. ASSUME NEW e \in Expiries, SetExpiry(e) PROVE FormAsAsked'
    <3>1. form'.scopes = form.scopes
      BY <1>0, <2>3 DEF SetExpiry, Change, TypeOK, Permissions
    <3> QED BY <1>0, <2>1, <3>1 DEF FormAsAsked
  <2> QED BY <1>2, <1>9, <2>1, <2>2, <2>3 DEF EditForm
<1>10. CASE Edit \/ Cancel
  BY <1>1, <1>2, <1>10 DEF Edit, Cancel, pageVars
<1>11. CASE HandleSubmit
  <2>1. /\ page = "new" /\ UNCHANGED <<page, link, form>>
        /\ call'.form = form /\ call'.asked = link.methods
    BY <1>11 DEF HandleSubmit, Send, pageVars, formVars
  <2> QED BY <1>0, <1>1, <2>1 DEF FormAsAsked, CallAsAsked
<1>12. CASE HandleSave \/ HandleDelete
  BY <1>1, <1>2, <1>12 DEF HandleSave, HandleDelete, Send, pageVars, formVars
<1>13. CASE CreateAnswered \/ DeleteAnswered
  <2>1. CallAsAsked'
    BY <1>2, <1>13 DEF CreateAnswered, DeleteAnswered, Done, NoCall
  <2>2. CASE call.state = "ok"
    BY <1>1, <1>13, <2>1, <2>2 DEF CreateAnswered, DeleteAnswered
  <2>3. CASE call.state # "ok"
    BY <1>1, <1>13, <2>1, <2>3 DEF CreateAnswered, DeleteAnswered, pageVars, formVars
  <2> QED BY <2>2, <2>3
<1>14. CASE SaveAnswered
  <2>1. call'.kind # "create"
    <3>1. CASE call.state = "ok"
      BY <1>0, <1>14, <3>1 DEF SaveAnswered, TypeOK, Call
    <3>2. CASE call.state # "ok"
      BY <1>14, <3>2 DEF SaveAnswered, Done, NoCall
    <3> QED BY <3>1, <3>2
  <2> QED BY <1>1, <1>2, <1>14, <2>1 DEF SaveAnswered, pageVars, formVars
<1>15. CASE Refetched
  <2>1. CallAsAsked'
    BY <1>2, <1>15 DEF Refetched, Done, NoCall
  <2>2. CASE page = "app"
    BY <1>1, <1>15, <2>1, <2>2 DEF Refetched, pageVars
  <2>3. CASE page # "app"
    BY <1>1, <1>15, <2>1, <2>3 DEF Refetched, pageVars
  <2> QED BY <2>2, <2>3
<1>16. CASE Refresh
  BY <1>1, <1>2, <1>16 DEF Refresh, pageVars
<1> QED
  BY <1>3, <1>4, <1>5, <1>7, <1>8, <1>9, <1>10, <1>11, <1>12, <1>13, <1>14, <1>15, <1>16
  DEF Next, ServerNext, UserNext, AnswerNext

(* What the node holds and the pages show of it expires at the end of a day.   *)
LEMMA NextRounded == ConnInv /\ [Next]_vars => (AppsRounded /\ FormRounded /\ SaveRounded)'
<1> SUFFICES ASSUME ConnInv, [Next]_vars PROVE (AppsRounded /\ FormRounded /\ SaveRounded)'
  OBVIOUS
<1>0. TypeOK /\ AppsRounded /\ FormRounded /\ SaveRounded
  BY DEF ConnInv
<1>1. ASSUME NEW a \in App PROVE GetApp(a) \in Record /\ Rounded(GetApp(a).perms)
  <2>1. app[a].perms \in Permissions
    BY <1>0 DEF TypeOK, Record
  <2> QED BY <1>0, <2>1, GetAppType, ViewType DEF TypeOK, AppsRounded, Rounded
<1>2. ASSUME UNCHANGED <<app, cache>> PROVE AppsRounded'
  BY <1>0, <1>2 DEF AppsRounded, Rounded
<1>3. ASSUME UNCHANGED <<page, form>> \/ page' # "app" PROVE FormRounded'
  BY <1>0, <1>3 DEF FormRounded, Rounded
<1>4. ASSUME \/ call'.kind = call.kind /\ call'.form = call.form
             \/ call'.kind # "save"
             \/ call'.form = NoPermissions
      PROVE  SaveRounded'
  BY <1>0, <1>4, Constants DEF SaveRounded, Rounded
<1>5. ASSUME NEW a \in App, NEW x \in Record, Rounded(x.perms),
             app' = [app EXCEPT ![a] = x], cache' = cache
      PROVE  AppsRounded'
  BY <1>0, <1>5 DEF AppsRounded, Rounded, TypeOK
<1>6. CASE CreateApp \/ UpdateApp \/ DeleteApp \/ CallFails
  <2>1. SaveRounded' /\ FormRounded'
    <3>1. call'.form = NoPermissions
      BY <1>6, Constants DEF CreateApp, UpdateApp, DeleteApp, CallFails, Served, NoCall
    <3> QED BY <1>3, <1>4, <1>6, <3>1
            DEF CreateApp, UpdateApp, DeleteApp, CallFails, pageVars, formVars
  <2>2. Parsed(call.form) \in Permissions /\ Rounded(Parsed(call.form))
    BY <1>0, ParsedType DEF TypeOK, Call
  <2>3. CASE CreateApp
    <3>1. PICK a \in App : app' = [app EXCEPT ![a] = [perms |-> Parsed(call.form), uses |-> 0]]
      BY <2>3 DEF CreateApp
    <3>2. [perms |-> Parsed(call.form), uses |-> 0] \in Record
      BY <2>2, Constants DEF Record
    <3>3. AppsRounded'
      BY <1>5, <2>2, <2>3, <3>1, <3>2 DEF CreateApp
    <3> QED BY <2>1, <3>3
  <2>4. CASE UpdateApp
    <3> DEFINE x == [app[call.app] EXCEPT !.perms = Parsed(call.form)]
    <3>1. call.app \in App /\ app[call.app] \in Record
      BY <1>0, <2>4 DEF UpdateApp, TypeOK
    <3>2. x \in Record /\ x.perms = Parsed(call.form)
      BY <2>2, <3>1 DEF Record
    <3>3. app' = [app EXCEPT ![call.app] = x] /\ cache' = cache
      BY <2>4 DEF UpdateApp
    <3> HIDE DEF x
    <3>4. AppsRounded'
      BY <1>5, <2>2, <3>1, <3>2, <3>3
    <3> QED BY <2>1, <3>4
  <2>5. CASE DeleteApp
    <3>1. call.app \in App /\ NoApp \in Record /\ Rounded(NoApp.perms)
      BY <1>0, <2>5, Constants DEF DeleteApp, TypeOK, NoApp
    <3>2. AppsRounded'
      BY <1>5, <2>5, <3>1 DEF DeleteApp
    <3> QED BY <2>1, <3>2
  <2>6. CASE CallFails
    BY <1>2, <2>1, <2>6 DEF CallFails
  <2> QED BY <1>6, <2>3, <2>4, <2>5, <2>6
<1>7. CASE Use
  <2>1. PICK a \in App : app' = [app EXCEPT ![a].uses = @ + 1]
    BY <1>7 DEF Use
  <2>2. \A b \in App : app'[b].perms = app[b].perms
    BY <1>0, <2>1 DEF TypeOK, Record
  <2>3. AppsRounded'
    BY <1>0, <1>7, <2>2 DEF Use, AppsRounded, Rounded
  <2> QED BY <1>3, <1>4, <1>7, <2>3 DEF Use, pageVars, formVars
<1>8. CASE Elsewhere
  <2>1. PICK a \in App, p \in Others :
          /\ app' = [app EXCEPT ![a] = IF p.scopes = {} THEN NoApp ELSE [app[a] EXCEPT !.perms = p]]
          /\ call' = [call EXCEPT !.kept = IF call.app = a THEN {} ELSE @]
    BY <1>8 DEF Elsewhere
  <2>2. p \in Permissions /\ Rounded(p)
    BY OthersAssumption, ParsedType
  <2> DEFINE x == IF p.scopes = {} THEN NoApp ELSE [app[a] EXCEPT !.perms = p]
  <2>3. x \in Record /\ Rounded(x.perms)
    BY <1>0, <2>2, Constants DEF TypeOK, Record, NoApp
  <2>4. app' = [app EXCEPT ![a] = x] /\ cache' = cache
    BY <1>8, <2>1 DEF Elsewhere
  <2> HIDE DEF x
  <2>5. AppsRounded'
    BY <1>5, <2>3, <2>4
  <2>6. call'.kind = call.kind /\ call'.form = call.form
    BY <1>0, <2>1 DEF TypeOK, Call
  <2> QED BY <1>3, <1>4, <1>8, <2>5, <2>6 DEF Elsewhere, pageVars
<1>9. ASSUME call' = [call EXCEPT !.mounted = FALSE] PROVE SaveRounded'
  BY <1>0, <1>4, <1>9 DEF TypeOK, Call
<1>10. CASE NewApp \/ Leave \/ Established
  <2>1. page' # "app" /\ UNCHANGED <<app, cache>> /\ call' = [call EXCEPT !.mounted = FALSE]
    BY <1>10 DEF NewApp, Leave, Established, LeaveTo, Mount
  <2> QED BY <1>2, <1>3, <1>9, <2>1
<1>11. CASE ShowApp \/ EditApp
  <2>1. \E a \in App : form' = cache[a].perms
    BY <1>11 DEF ShowApp, EditApp, OpenApp, Fill
  <2>2. FormRounded'
    BY <1>0, <2>1 DEF FormRounded, AppsRounded, Rounded
  <2>3. UNCHANGED <<app, cache>> /\ call' = [call EXCEPT !.mounted = FALSE]
    BY <1>11 DEF ShowApp, EditApp, OpenApp, Mount
  <2> QED BY <1>2, <1>9, <2>2, <2>3
<1>12. CASE EditForm
  <2>1. UNCHANGED <<app, cache, page, call>>
    BY <1>12 DEF EditForm, Toggle, SetMax, SetRenewal, SetExpiry, Change, pageVars
  <2>2. ASSUME NEW e \in Expiries, e.time = EndOfDay, SetExpiry(e) PROVE FormRounded'
    <3>1. form'.expires = e
      BY <1>0, <2>2 DEF SetExpiry, Change, TypeOK, Permissions
    <3> QED BY <2>2, <3>1, ParseTwice DEF FormRounded, Rounded
  <2>3. ASSUME form'.expires = form.expires PROVE FormRounded'
    BY <1>0, <2>1, <2>3 DEF FormRounded, Rounded
  <2>4. ASSUME NEW s \in Scopes, Toggle(s) PROVE form'.expires = form.expires
    BY <1>0, <2>4 DEF Toggle, Change, TypeOK, Permissions
  <2>5. ASSUME NEW m, SetMax(m) PROVE form'.expires = form.expires
    BY <1>0, <2>5 DEF SetMax, Change, TypeOK, Permissions
  <2>6. ASSUME NEW x, SetRenewal(x) PROVE form'.expires = form.expires
    BY <1>0, <2>6 DEF SetRenewal, Change, TypeOK, Permissions
  <2>7. FormRounded'
    BY <1>12, <2>2, <2>3, <2>4, <2>5, <2>6 DEF EditForm
  <2> QED BY <1>2, <1>4, <2>1, <2>7
<1>13. CASE Edit \/ UNCHANGED vars
  BY <1>2, <1>3, <1>4, <1>13 DEF Edit, vars, pageVars, formVars
<1>14. CASE Cancel
  <2>1. FormRounded'
    BY <1>0, <1>14 DEF Cancel, Fill, pageVars, FormRounded, AppsRounded, Rounded, TypeOK
  <2> QED BY <1>2, <1>4, <1>14, <2>1 DEF Cancel
<1>15. CASE HandleSubmit \/ HandleSave \/ HandleDelete
  <2>1. UNCHANGED <<app, cache, page, form>>
    BY <1>15 DEF HandleSubmit, HandleSave, HandleDelete, Send, pageVars, formVars
  <2>2. call'.kind = "save" => page = "app" /\ call'.form = form
    BY <1>15 DEF HandleSubmit, HandleSave, HandleDelete, Send
  <2>3. SaveRounded'
    BY <1>0, <2>2 DEF SaveRounded, FormRounded, Rounded
  <2> QED BY <1>2, <1>3, <2>1, <2>3
<1>16. CASE CreateAnswered \/ DeleteAnswered
  <2>1. UNCHANGED <<app, cache>> /\ call' = NoCall
    BY <1>16 DEF CreateAnswered, DeleteAnswered, Done
  <2>2. page' # "app" \/ UNCHANGED <<page, form>>
    BY <1>16 DEF CreateAnswered, DeleteAnswered, pageVars, formVars
  <2> QED BY <1>2, <1>3, <1>4, <2>1, <2>2, Constants
<1>17. CASE SaveAnswered
  <2>1. UNCHANGED <<app, cache, page, form>>
    BY <1>17 DEF SaveAnswered, pageVars, formVars
  <2>2. call' = NoCall \/ call'.kind = "refetch"
    BY <1>0, <1>17 DEF SaveAnswered, Done, TypeOK, Call
  <2> QED BY <1>2, <1>3, <1>4, <2>1, <2>2, Constants
<1>18. CASE Refresh \/ Refetched
  <2>1. page' = page /\ app' = app
    BY <1>18 DEF Refresh, Refetched, pageVars
  <2>2. call' = call \/ call' = NoCall
    BY <1>18 DEF Refresh, Refetched, Done
  <2>3. SaveRounded'
    BY <1>4, <2>2, Constants
  <2>4. CASE UNCHANGED <<cache, form>>
    BY <1>2, <1>3, <2>1, <2>3, <2>4
  <2>5. CASE ~UNCHANGED <<cache, form>>
    <3>1. shown \in App /\ FetchSucceeds(shown)
      BY <1>0, <1>18, <2>5 DEF Refresh, Refetched, FetchFails, TypeOK
    <3>2. cache' = [cache EXCEPT ![shown] = GetApp(shown)]
      BY <3>1 DEF FetchSucceeds, Fetched
    <3>3. AppsRounded'
      BY <1>0, <1>1, <2>1, <3>1, <3>2 DEF AppsRounded, Rounded, TypeOK
    <3>4. form' = form \/ form' = View(app[shown].perms)
      BY <3>1 DEF FetchSucceeds, Fetched, Fill
    <3>5. Rounded(View(app[shown].perms))
      BY <1>1, <3>1 DEF GetApp
    <3>6. FormRounded'
      BY <1>0, <2>1, <3>4, <3>5 DEF FormRounded, Rounded
    <3> QED BY <2>3, <3>3, <3>6
  <2> QED BY <2>4, <2>5
<1> QED
  BY <1>6, <1>7, <1>8, <1>10, <1>11, <1>12, <1>13, <1>14, <1>15, <1>16, <1>17, <1>18
  DEF Next, ServerNext, UserNext, AnswerNext

(* The invariant behind the theorems, from its parts.                          *)
LEMMA ConnInvariant == Spec => []ConnInv
<1>1. ConnInv /\ [Next]_vars => ConnInv'
  BY NextTypeOK, NextFormAgrees, NextSaveAgrees, NextAsAsked, NextRounded DEF ConnInv
<1> QED BY <1>1, InitConnInv, PTL DEF Spec

(* The pages, their forms and their calls have their types.                    *)
THEOREM TypeCorrect == Spec => []TypeOK
<1>1. ConnInv => TypeOK
  BY DEF ConnInv
<1> QED BY <1>1, ConnInvariant, PTL

--------------------------------------------------------------------------------
(* A save of the connection page changes what the user has touched and nothing *)
(* else of an app that nobody has changed elsewhere.                           *)
LEMMA StepSaves ==
  ASSUME ConnInv, [Next]_vars, call.kind = "save", call'.state # call.state, app' # app
  PROVE  LET old == app[call.app].perms
             new == app'[call.app].perms
         IN  /\ \A s \in Scopes \cap call.kept : s \in old.scopes <=> s \in new.scopes
             /\ "max" \in call.kept /\ Pays(old) => new.max = old.max
             /\ "renewal" \in call.kept /\ Pays(old) => new.renewal = old.renewal
             /\ "expires" \in call.kept => new.expires = old.expires
<1>0. TypeOK /\ SaveAgrees /\ SaveRounded /\ call.app \in App /\ app[call.app].perms \in Permissions
  BY DEF ConnInv, TypeOK, Record
<1>1. UpdateApp
  <2>1. ~Elsewhere
    BY <1>0 DEF Elsewhere, TypeOK, Call
  <2>2. ~(UserNext \/ AnswerNext)
    BY DEF UserNext, AnswerNext, NewApp, ShowApp, EditApp, OpenApp, Leave, EditForm, Toggle, SetMax,
           SetRenewal, SetExpiry,
           Change, Edit, Cancel, HandleSubmit, HandleSave, HandleDelete, Send, CreateAnswered,
           SaveAnswered, Refetched, DeleteAnswered, Refresh, Established
  <2> QED BY <2>1, <2>2 DEF Next, ServerNext, CreateApp, DeleteApp, CallFails, Use, vars
<1>2. app'[call.app].perms = call.form /\ call.state = "sent"
  <2>1. app'[call.app].perms = Parsed(call.form) /\ call.state = "sent"
    BY <1>0, <1>1 DEF UpdateApp, TypeOK, Record
  <2>2. Parsed(call.form) = call.form
    BY <1>0, ParsedType DEF SaveRounded, TypeOK, Call
  <2> QED BY <2>1, <2>2
<1>3. Agree(call.form, View(app[call.app].perms), Fields \ call.kept)
  BY <1>0, <1>2 DEF SaveAgrees
<1>4. /\ View(app[call.app].perms).scopes = app[call.app].perms.scopes
      /\ View(app[call.app].perms).expires = app[call.app].perms.expires
      /\ Pays(app[call.app].perms) => View(app[call.app].perms) = app[call.app].perms
  BY <1>0, ViewType
<1> QED BY <1>2, <1>3, <1>4 DEF Agree

(* A save (ShowApp.tsx, handleSave; api.go, UpdateApp) changes what the user   *)
(* has touched and nothing else, for any number of apps, methods, budgets and  *)
(* expiries, though the node moves every expiry it is sent.                    *)
THEOREM Saves == Spec => SavesWhatIsTouched
<1>1. ConnInv /\ [Next]_vars =>
        [call.kind = "save" /\ call'.state # call.state /\ app' # app =>
           LET old == app[call.app].perms
               new == app'[call.app].perms
           IN /\ \A s \in Scopes \cap call.kept : s \in old.scopes <=> s \in new.scopes
              /\ "max" \in call.kept /\ Pays(old) => new.max = old.max
              /\ "renewal" \in call.kept /\ Pays(old) => new.renewal = old.renewal
              /\ "expires" \in call.kept => new.expires = old.expires]_vars
  BY StepSaves
<1> QED BY <1>1, ConnInvariant, PTL DEF Spec, SavesWhatIsTouched
--------------------------------------------------------------------------------
(* The page and the node split methods into scopes alike: what the initial     *)
(* scopes of some methods permit is those methods and their like.              *)
LEMMA ScopesPermit ==
  ASSUME NEW methods \in SUBSET Methods, methods # {}
  PROVE  /\ methods \subseteq PermittedMethods(InitialScopes(methods))
         /\ \A m \in PermittedMethods(InitialScopes(methods)) :
              \E n \in methods : RequestMethodToScope(m) = RequestMethodToScope(n)
<1> DEFINE scopes == InitialScopes(methods)
<1>1. Asked(methods) = methods /\ "notifications" \notin Methods
  BY ConnectionsAssumption DEF Asked
<1>2. "pay_invoice" \in PayMethods /\ "notifications" \notin PayMethods
  BY DEF PayMethods
<1>3. ASSUME NEW m \in methods PROVE m \in PermittedMethods(scopes)
  <2>1. CASE m \in PayMethods
    <3>1. "pay_invoice" \in scopes /\ m \in ScopeToRequestMethods("pay_invoice")
      BY <1>1, <2>1 DEF InitialScopes, ScopeToRequestMethods
    <3> QED BY <3>1 DEF PermittedMethods
  <2>2. CASE m \notin PayMethods
    <3>1. m \in scopes /\ m \in ScopeToRequestMethods(m)
      BY <1>1, <1>2, <2>2 DEF InitialScopes, ScopeToRequestMethods
    <3> QED BY <3>1 DEF PermittedMethods
  <2> QED BY <2>1, <2>2
<1>4. ASSUME NEW m \in PermittedMethods(scopes)
      PROVE  \E n \in methods : RequestMethodToScope(m) = RequestMethodToScope(n)
  <2>1. PICK s \in scopes : m \in ScopeToRequestMethods(s)
    BY DEF PermittedMethods
  <2>2. m \in Methods
    BY DEF PermittedMethods
  <2>3. CASE s = "pay_invoice"
    <3>1. m \in PayMethods
      BY <2>1, <2>3 DEF ScopeToRequestMethods
    <3>2. PICK n \in methods : n \in PayMethods
      BY <1>1, <1>2, <2>3 DEF InitialScopes, Notifications
    <3> QED BY <3>1, <3>2 DEF RequestMethodToScope
  <2>4. CASE s # "pay_invoice"
    <3>1. m = s
      BY <2>1, <2>4 DEF ScopeToRequestMethods
    <3>2. s \in methods
      BY <1>1, <2>2, <2>4, <3>1 DEF InitialScopes, Notifications
    <3> QED BY <3>1, <3>2
  <2> QED BY <2>3, <2>4
<1> QED BY <1>3, <1>4

(* The app that CreateApp makes is the one that the link asked for.            *)
LEMMA StepCreates ==
  ASSUME ConnInv, [Next]_vars, call.kind = "create", call'.state # call.state, app' # app,
         call.asked # {}
  PROVE  LET permitted == PermittedMethods(app'[call'.app].perms.scopes)
         IN  /\ call.asked \subseteq permitted
             /\ \A m \in permitted :
                  \E n \in call.asked : RequestMethodToScope(m) = RequestMethodToScope(n)
<1>0. TypeOK /\ CallAsAsked /\ call.asked \in SUBSET Methods
  BY DEF ConnInv, TypeOK, Call
<1>1. CreateApp
  <2>1. ~Elsewhere
    BY <1>0 DEF Elsewhere, TypeOK, Call
  <2>2. ~(UserNext \/ AnswerNext)
    BY DEF UserNext, AnswerNext, NewApp, ShowApp, EditApp, OpenApp, Leave, EditForm, Toggle, SetMax,
           SetRenewal, SetExpiry,
           Change, Edit, Cancel, HandleSubmit, HandleSave, HandleDelete, Send, CreateAnswered,
           SaveAnswered, Refetched, DeleteAnswered, Refresh, Established
  <2> QED BY <2>1, <2>2 DEF Next, ServerNext, UpdateApp, DeleteApp, CallFails, Use, vars
<1>2. PICK a \in App : app' = [app EXCEPT ![a] = [perms |-> Parsed(call.form), uses |-> 0]]
                      /\ Served(a, {"ok", "failed"})
  BY <1>1 DEF CreateApp
<1>3. call'.app = a
  BY <1>0, <1>2, ServedType
<1>4. app'[call'.app].perms.scopes = call.form.scopes
  <2>1. app'[call'.app].perms = Parsed(call.form)
    BY <1>0, <1>2, <1>3 DEF TypeOK
  <2> QED BY <1>0, <2>1, ParsedType DEF TypeOK, Call
<1>5. call.form.scopes = InitialScopes(call.asked)
  BY <1>0, <1>1 DEF CreateApp, CallAsAsked
<1> QED BY <1>0, <1>4, <1>5, ScopesPermit

(* An app made from a link may do what the link asked for and its like.        *)
THEOREM Created == Spec => CreatedAsAsked
<1>1. ConnInv /\ [Next]_vars =>
        [call.kind = "create" /\ call'.state # call.state /\ app' # app /\ call.asked # {} =>
           LET permitted == PermittedMethods(app'[call'.app].perms.scopes)
           IN /\ call.asked \subseteq permitted
              /\ \A m \in permitted :
                   \E n \in call.asked : RequestMethodToScope(m) = RequestMethodToScope(n)]_vars
  BY StepCreates
<1> QED BY <1>1, ConnInvariant, PTL DEF Spec, CreatedAsAsked

--------------------------------------------------------------------------------
(* What the page shows out of the edit mode.  The form is the cached app, or   *)
(* it is being edited, or it was just saved and is what the hub now has, which *)
(* the refetch will tell or, when that fails, the next refresh.                *)

CacheIsView == \A a \in App : View(cache[a].perms) = cache[a].perms
MountedHere ==
  call.mounted /\ call.kind \in {"save", "refetch"} => page = "app" /\ shown = call.app
SendsForm ==
  call.kind = "save" /\ call.state = "sent" /\ call.mounted /\ ~excused =>
    form = call.form \/ touched = {}

WasSaved == call.mounted /\ (call.kind = "refetch" \/ (call.kind = "save" /\ call.state = "ok"))
IsCached == View(form) = cache[shown].perms
IsHeld == View(form) = View(app[shown].perms)
FormIsTrue ==
  page = "app" /\ ~excused =>
    \/ IsCached
    \/ editing /\ (WasSaved => IsHeld)
    \/ ~editing /\ error /\ call.kind = "none" /\ IsHeld

EditInv == CacheIsView /\ MountedHere /\ SendsForm /\ FormIsTrue

(* What the API shows of an app, it shows again.                               *)
LEMMA ViewOnce == ASSUME NEW p \in Permissions PROVE View(View(p)) = View(p)
BY ConnectionsAssumption DEF View, Pays, Permissions

(* A form that the user has not touched is the cached app.                     *)
LEMMA Untouched ==
  ASSUME ConnInv, CacheIsView, page = "app", touched = {}
  PROVE  IsCached
<1>1. Agree(form, cache[shown].perms, {}) /\ shown \in App
  BY DEF ConnInv, FormAgrees, TypeOK
<1>2. form \in Permissions /\ cache[shown].perms \in Permissions
  BY <1>1 DEF ConnInv, TypeOK, Record
<1>3. form.scopes = cache[shown].perms.scopes
  BY <1>1, <1>2 DEF Agree, Permissions
<1>4. /\ form.max = cache[shown].perms.max /\ form.renewal = cache[shown].perms.renewal
      /\ form.expires = cache[shown].perms.expires
  BY <1>1 DEF Agree
<1>5. ASSUME NEW p \in Permissions
      PROVE  p = [scopes |-> p.scopes, max |-> p.max, renewal |-> p.renewal,
                  expires |-> p.expires]
  <2> DEFINE S == SUBSET Scopes
             R == Renewals \cup {""}
  <2>1. p \in [scopes : S, max : Amounts, renewal : R, expires : Expiries]
    BY DEF Permissions
  <2> HIDE DEF S, R
  <2> QED BY <2>1
<1>6. form = cache[shown].perms
  BY <1>2, <1>3, <1>4, <1>5
<1> QED BY <1>1, <1>6 DEF CacheIsView, IsCached

(* At first no page and no call is there.                                      *)
LEMMA InitEditInv == Init => EditInv
<1> SUFFICES ASSUME Init PROVE EditInv
  OBVIOUS
<1>1. CacheIsView
  <2>1. View(NoPermissions) = NoPermissions
    BY DEF NoPermissions, View, Pays
  <2>2. \A a \in App : cache[a].perms = NoPermissions
    BY DEF Init, NoApp
  <2> QED BY <2>1, <2>2 DEF CacheIsView
<1>2. page = "list" /\ call.kind = "none"
  BY DEF Init, NoCall
<1>3. MountedHere /\ SendsForm /\ FormIsTrue
  BY <1>2 DEF MountedHere, SendsForm, FormIsTrue
<1> QED BY <1>1, <1>3 DEF EditInv

(* The cache holds answers only.                                               *)
LEMMA NextCacheIsView == TypeOK /\ CacheIsView /\ [Next]_vars => CacheIsView'
<1> SUFFICES ASSUME TypeOK, CacheIsView, [Next]_vars PROVE CacheIsView'
  OBVIOUS
<1>1. CASE cache' = cache
  BY <1>1 DEF CacheIsView
<1>2. ASSUME NEW a \in App, cache' = [cache EXCEPT ![a] = GetApp(a)] PROVE CacheIsView'
  <2>1. app[a].perms \in Permissions
    BY DEF TypeOK, Record
  <2>2. GetApp(a).perms = View(app[a].perms)
    BY DEF GetApp
  <2>3. View(GetApp(a).perms) = GetApp(a).perms
    BY <2>1, <2>2, ViewOnce
  <2> QED BY <1>2, <2>3 DEF CacheIsView, TypeOK
<1>3. CASE Refresh \/ Refetched
  <2>1. shown \in App \/ cache' = cache
    BY <1>3 DEF Refresh, Refetched, TypeOK
  <2> QED BY <1>1, <1>2, <1>3, <2>1 DEF Refresh, Refetched, FetchSucceeds, FetchFails, Fetched
<1>4. CASE \/ ServerNext \/ NewApp \/ ShowApp \/ EditApp \/ Leave \/ EditForm \/ Edit \/ Cancel
           \/ HandleSubmit \/ HandleSave \/ HandleDelete \/ CreateAnswered \/ SaveAnswered
           \/ DeleteAnswered \/ Established \/ UNCHANGED vars
  BY <1>1, <1>4 DEF ServerNext, CreateApp, UpdateApp, DeleteApp, CallFails, Use, Elsewhere, NewApp,
                    ShowApp, EditApp, OpenApp, Leave, EditForm, Toggle, SetMax, SetRenewal,
                    SetExpiry, Change,
                    Edit, Cancel, HandleSubmit, HandleSave, HandleDelete, Send, CreateAnswered,
                    SaveAnswered, DeleteAnswered, Established, vars
<1> QED BY <1>3, <1>4 DEF Next, UserNext, AnswerNext

(* A call forgets its page when that is left.                                  *)
LEMMA NextMountedHere == TypeOK /\ MountedHere /\ [Next]_vars => MountedHere'
<1> SUFFICES ASSUME TypeOK, MountedHere, [Next]_vars PROVE MountedHere'
  OBVIOUS
<1>0. call \in Call
  BY DEF TypeOK
<1>1. ASSUME UNCHANGED <<page, shown>>, call'.mounted = call.mounted, call'.app = call.app,
             call'.kind = call.kind \/ (call.kind = "save" /\ call'.kind = "refetch")
      PROVE  MountedHere'
  BY <1>1 DEF MountedHere
<1>2. CASE CreateApp
  <2>1. call'.kind = "create"
    BY <1>0, <1>2 DEF CreateApp, Served, NoCall
  <2> QED BY <2>1 DEF MountedHere
<1>3. CASE UpdateApp \/ DeleteApp \/ CallFails
  BY <1>1, <1>3 DEF UpdateApp, DeleteApp, CallFails, Served, NoCall, pageVars
<1>4. CASE Use \/ EditForm \/ Edit \/ Cancel \/ Refresh \/ UNCHANGED vars
  BY <1>1, <1>4 DEF Use, EditForm, Toggle, SetMax, SetRenewal, SetExpiry, Change, Edit, Cancel,
                    Refresh,
                    pageVars, vars
<1>5. CASE Elsewhere
  <2>1. /\ UNCHANGED <<page, shown>>
        /\ \E a : call' = [call EXCEPT !.kept = IF call.app = a THEN {} ELSE @]
    BY <1>5 DEF Elsewhere, pageVars
  <2> QED BY <1>0, <1>1, <2>1 DEF Call
<1>6. CASE \/ NewApp \/ ShowApp \/ EditApp \/ Leave \/ Established \/ CreateAnswered
           \/ DeleteAnswered \/ Refetched \/ (SaveAnswered /\ call.state # "ok")
  <2>1. \/ call' = [call EXCEPT !.mounted = FALSE]
        \/ call' = NoCall
    BY <1>6 DEF NewApp, ShowApp, EditApp, OpenApp, Leave, Established, LeaveTo, Mount,
                CreateAnswered, DeleteAnswered, Refetched, SaveAnswered, Done
  <2>2. call'.mounted = FALSE
    BY <1>0, <2>1 DEF Call, NoCall
  <2> QED BY <2>2, Zenon DEF MountedHere
<1>7. CASE HandleSubmit \/ HandleSave \/ HandleDelete
  <2>1. /\ UNCHANGED <<page, shown>> /\ call'.app = shown
        /\ call'.kind = "save" => page = "app"
        /\ call'.kind # "refetch"
    BY <1>7 DEF HandleSubmit, HandleSave, HandleDelete, Send, pageVars
  <2> QED BY <2>1 DEF MountedHere
<1>8. CASE SaveAnswered /\ call.state = "ok"
  <2>1. call' = [call EXCEPT !.kind = "refetch", !.state = "none"] /\ call.kind = "save"
    BY <1>8 DEF SaveAnswered, Answered
  <2>2. UNCHANGED <<page, shown>>
    BY <1>8 DEF SaveAnswered, pageVars
  <2> QED BY <1>0, <1>1, <2>1, <2>2 DEF Call
<1> QED BY <1>2, <1>3, <1>4, <1>5, <1>6, <1>7, <1>8 DEF Next, ServerNext, UserNext, AnswerNext

(* What is sent is the form of the page until it is filled anew.               *)
LEMMA NextSendsForm == TypeOK /\ SendsForm /\ [Next]_vars => SendsForm'
<1> SUFFICES ASSUME TypeOK, SendsForm, [Next]_vars PROVE SendsForm'
  OBVIOUS
<1>0. call \in Call
  BY DEF TypeOK
<1>1. ASSUME call'.state # "sent" \/ call'.kind # "save" \/ call'.mounted = FALSE PROVE SendsForm'
  BY <1>1, Zenon DEF SendsForm
<1>2. ASSUME touched' = {} \/ excused' = TRUE PROVE SendsForm'
  BY <1>2, Zenon DEF SendsForm
<1>3. ASSUME UNCHANGED <<form, touched, excused>>, call'.state = call.state, call'.kind = call.kind,
             call'.mounted = call.mounted, call'.form = call.form
      PROVE  SendsForm'
  BY <1>3 DEF SendsForm
<1>4. CASE CreateApp \/ UpdateApp \/ DeleteApp \/ CallFails
  BY <1>1, <1>4 DEF CreateApp, UpdateApp, DeleteApp, CallFails, Served, NoCall
<1>5. CASE Use \/ Edit \/ UNCHANGED vars
  BY <1>3, <1>5 DEF Use, Edit, formVars, vars
<1>6. CASE Elsewhere
  <2>1. /\ \E a : call' = [call EXCEPT !.kept = IF call.app = a THEN {} ELSE @]
        /\ UNCHANGED <<form, touched>>
    BY <1>6 DEF Elsewhere
  <2>2. excused' = TRUE \/ excused' = excused
    <3>1. \E a : excused' = (excused \/ (page = "app" /\ shown = a))
      BY <1>6 DEF Elsewhere
    <3>2. excused \in BOOLEAN
      BY DEF TypeOK
    <3> QED BY <3>1, <3>2
  <2> QED BY <1>0, <1>2, <1>3, <2>1, <2>2 DEF Call
<1>7. CASE EditForm
  <2>0. call' = call /\ (call = NoCall \/ call.state # "sent")
    BY <1>7 DEF EditForm, Toggle, SetMax, SetRenewal, SetExpiry, Change
  <2>1. call' = call /\ call.state # "sent"
    BY <2>0 DEF NoCall
  <2> QED BY <1>1, <2>1
<1>8. CASE Cancel
  BY <1>2, <1>8 DEF Cancel, Fill
<1>9. CASE NewApp \/ ShowApp \/ EditApp \/ Leave \/ Established
  BY <1>2, <1>9 DEF NewApp, ShowApp, EditApp, OpenApp, Leave, Established, LeaveTo, Fill
<1>10. CASE HandleSubmit \/ HandleSave \/ HandleDelete
  <2>1. form' = form /\ (call'.kind = "save" => call'.form = form)
    BY <1>10 DEF HandleSubmit, HandleSave, HandleDelete, Send, formVars
  <2> QED BY <2>1 DEF SendsForm
<1>11. CASE CreateAnswered \/ SaveAnswered \/ DeleteAnswered \/ Refetched
  <2>1. call' = NoCall \/ call' = [call EXCEPT !.kind = "refetch", !.state = "none"]
    BY <1>11 DEF CreateAnswered, SaveAnswered, DeleteAnswered, Refetched, Done
  <2>2. [call EXCEPT !.kind = "refetch", !.state = "none"].kind = "refetch"
    BY <1>0 DEF Call
  <2>3. call'.kind # "save"
    BY <2>1, <2>2, Constants
  <2> QED BY <1>1, <2>3
<1>12. CASE Refresh
  <2>1. call' = call /\ (touched' = {} \/ UNCHANGED <<form, touched, excused>>)
    BY <1>12 DEF Refresh, FetchSucceeds, FetchFails, Fetched, Fill
  <2> QED BY <1>2, <1>3, <2>1
<1> QED
  BY <1>4, <1>5, <1>6, <1>7, <1>8, <1>9, <1>10, <1>11, <1>12
  DEF Next, ServerNext, UserNext, AnswerNext

(* A fetch fills the form, or finds the cache as it is.                        *)
LEMMA FetchedIsTrue ==
  ASSUME ConnInv, CacheIsView, page = "app", page' = page, shown' = shown, app' = app,
         FetchSucceeds(shown)
  PROVE  \/ form' = View(app[shown].perms) /\ IsCached'
         \/ UNCHANGED <<form, excused, cache>> /\ cache[shown].perms = View(app[shown].perms)
<1>1. shown \in App /\ TypeOK /\ app[shown].perms \in Permissions
  BY DEF ConnInv, TypeOK, Record
<1>2. cache' = [cache EXCEPT ![shown] = GetApp(shown)]
  BY DEF FetchSucceeds, Fetched
<1>3. cache'[shown].perms = View(app[shown].perms)
  BY <1>1, <1>2, GetAppType DEF TypeOK
<1>4. CASE cache[shown] # GetApp(shown)
  <2>1. form' = View(app[shown].perms)
    BY <1>4 DEF FetchSucceeds, Fetched, Fill
  <2> QED BY <1>1, <1>3, <2>1, ViewOnce DEF IsCached
<1>5. CASE cache[shown] = GetApp(shown)
  <2>1. UNCHANGED <<form, excused>> /\ cache' = cache
    BY <1>1, <1>2, <1>5 DEF FetchSucceeds, Fetched, TypeOK
  <2> QED BY <1>3, <2>1
<1> QED BY <1>4, <1>5

(* The form of the page is true while calls are served and changes happen.     *)
LEMMA ServerFormIsTrue ==
  ASSUME ConnInv, EditInv, ServerNext, page' = "app", excused' = FALSE
  PROVE  FormIsTrue'
<1>0. TypeOK /\ CacheIsView /\ UNCHANGED <<page, shown, link, cache, form, editing, error, touched>>
  BY DEF ConnInv, EditInv, ServerNext, CreateApp, UpdateApp, DeleteApp, CallFails, Use, Elsewhere,
         pageVars, formVars
<1>1. shown \in App /\ excused = FALSE
  <2>1. excused' = excused \/ \E a : excused' = (excused \/ (page = "app" /\ shown = a))
    BY DEF ServerNext, CreateApp, UpdateApp, DeleteApp, CallFails, Use, Elsewhere, formVars
  <2>2. excused \in BOOLEAN
    BY <1>0 DEF TypeOK
  <2> QED BY <1>0, <2>1, <2>2 DEF TypeOK
<1>2. CASE IsCached
  <2>1. IsCached'
    BY <1>0, <1>2 DEF IsCached
  <2> QED BY <2>1 DEF FormIsTrue
<1>3. ASSUME ~IsCached
      PROVE  /\ touched # {}
             /\ \/ editing /\ (WasSaved => IsHeld)
                \/ ~editing /\ error /\ call.kind = "none" /\ IsHeld
  BY <1>0, <1>1, <1>3, Untouched DEF EditInv, FormIsTrue
<1>4. ASSUME editing, WasSaved' => IsHeld' PROVE FormIsTrue'
  BY <1>0, <1>4, Zenon DEF FormIsTrue
<1>5. ASSUME app'[shown].perms = app[shown].perms, call' = call, ~IsCached PROVE FormIsTrue'
  <2>1. (IsHeld' <=> IsHeld) /\ (WasSaved' <=> WasSaved)
    BY <1>0, <1>5 DEF IsHeld, WasSaved
  <2> QED BY <1>0, <1>3, <1>5, <2>1 DEF FormIsTrue
<1>6. CASE ~IsCached /\ (CreateApp \/ DeleteApp)
  <2>1. call'.kind \in {"create", "delete"} /\ call'.kind = call.kind
    BY <1>6 DEF CreateApp, DeleteApp, Served, NoCall
  <2>2. editing
    BY <1>3, <1>6, <2>1
  <2>3. ~WasSaved'
    BY <2>1 DEF WasSaved
  <2> QED BY <1>4, <2>2, <2>3
<1>10. CASE ~IsCached /\ CallFails
  <2>1. /\ call'.kind = call.kind /\ call'.mounted = call.mounted /\ call'.state = "failed"
        /\ app' = app
    BY <1>10 DEF CallFails, Served, NoCall
  <2>2. (IsHeld' <=> IsHeld) /\ (WasSaved' => WasSaved)
    BY <1>0, <2>1 DEF IsHeld, WasSaved
  <2> QED BY <1>0, <1>3, <1>10, <2>1, <2>2 DEF FormIsTrue
<1>7. CASE ~IsCached /\ UpdateApp
  <2>1. call.kind = "save" /\ call.state = "sent" /\ call.app \in App
    BY <1>0, <1>7 DEF UpdateApp, TypeOK
  <2>2. editing
    BY <1>3, <1>7, <2>1
  <2>3. ASSUME WasSaved' PROVE IsHeld'
    <3>1. call.mounted
      <4>1. call'.mounted = call.mounted
        BY <1>7 DEF UpdateApp, Served, NoCall
      <4> QED BY <2>3, <4>1 DEF WasSaved
    <3>2. shown = call.app /\ form = call.form
      BY <1>1, <1>3, <1>7, <2>1, <3>1 DEF EditInv, MountedHere, SendsForm
    <3>3. Parsed(call.form) = call.form
      BY <1>0, <2>1, ParsedType DEF ConnInv, SaveRounded, TypeOK, Call
    <3>4. app'[shown].perms = form
      BY <1>0, <1>7, <2>1, <3>2, <3>3 DEF UpdateApp, TypeOK, Record
    <3> QED BY <1>0, <3>4 DEF IsHeld
  <2> QED BY <1>4, <2>2, <2>3
<1>8. CASE ~IsCached /\ Use
  <2>1. app'[shown].perms = app[shown].perms
    <3>1. PICK a \in App : app' = [app EXCEPT ![a].uses = @ + 1]
      BY <1>8 DEF Use
    <3> QED BY <1>0, <1>1, <3>1 DEF TypeOK, Record
  <2>2. call' = call
    BY <1>8 DEF Use
  <2> QED BY <1>5, <1>8, <2>1, <2>2
<1>9. CASE ~IsCached /\ Elsewhere
  <2>1. PICK a \in App, p \in Permissions :
          /\ app' = [app EXCEPT ![a] = IF p.scopes = {} THEN NoApp ELSE [@ EXCEPT !.perms = p]]
          /\ excused' = (excused \/ (page = "app" /\ shown = a))
          /\ call' = [call EXCEPT !.kept = IF call.app = a THEN {} ELSE @]
    BY <1>9, OthersAssumption DEF Elsewhere
  <2>2. app'[shown] = app[shown]
    BY <1>0, <1>1, <2>1 DEF TypeOK
  <2>3. call'.kind = call.kind /\ call'.state = call.state /\ call'.mounted = call.mounted
    BY <1>0, <2>1 DEF TypeOK, Call
  <2>4. (IsHeld' <=> IsHeld) /\ (WasSaved' <=> WasSaved)
    BY <1>0, <2>2, <2>3 DEF IsHeld, WasSaved
  <2> QED BY <1>0, <1>3, <1>9, <2>3, <2>4 DEF FormIsTrue
<1> QED BY <1>2, <1>6, <1>7, <1>8, <1>9, <1>10 DEF ServerNext

(* And while the user goes about the page.                                     *)
LEMMA UserFormIsTrue ==
  ASSUME ConnInv, EditInv, UserNext, page' = "app", excused' = FALSE
  PROVE  FormIsTrue'
<1>0. TypeOK /\ CacheIsView /\ FormIsTrue /\ app' = app /\ cache' = cache
  BY DEF ConnInv, EditInv, UserNext, NewApp, ShowApp, EditApp, OpenApp, Leave, EditForm, Toggle,
         SetMax, SetRenewal, SetExpiry, Change, Edit, Cancel, HandleSubmit, HandleSave,
         HandleDelete, Send
<1>1. ASSUME IsCached' PROVE FormIsTrue'
  BY <1>1 DEF FormIsTrue
<1>2. CASE ShowApp \/ EditApp
  <2>1. PICK a \in App : shown' = a /\ form' = cache[a].perms
    BY <1>2 DEF ShowApp, EditApp, OpenApp, Mount, Fill
  <2>2. IsCached'
    BY <1>0, <2>1 DEF IsCached, CacheIsView
  <2> QED BY <1>1, <2>2
<1>3. CASE Cancel
  <2>1. page = "app" /\ shown' = shown /\ form' = cache[shown].perms
    BY <1>3 DEF Cancel, Fill, pageVars
  <2>2. IsCached'
    BY <1>0, <2>1 DEF IsCached, CacheIsView, TypeOK
  <2> QED BY <1>1, <2>2
<1>4. CASE EditForm
  <2>1. PICK p, what : Change(p, what)
    BY <1>4 DEF EditForm, Toggle, SetMax, SetRenewal, SetExpiry
  <2>2. UNCHANGED <<page, shown, editing, call>>
    BY <2>1 DEF Change, pageVars
  <2>3. editing
    BY <1>4, <2>2 DEF EditForm, CanSetExpiry, CanEdit
  <2>4. ~WasSaved
    <3>1. excused' = (excused \/ Saving)
      BY <2>1 DEF Change
    <3>2. ~Saving
      BY <3>1, Zenon
    <3> QED BY <3>2 DEF Saving, WasSaved
  <2>5. editing' /\ ~WasSaved'
    BY <2>2, <2>3, <2>4 DEF WasSaved
  <2> QED BY <2>5 DEF FormIsTrue
<1>5. CASE Edit
  <2>1. UNCHANGED <<page, shown, form, excused, call>> /\ ~error /\ editing' = TRUE /\ ~editing
    BY <1>5 DEF Edit, pageVars
  <2>2. IsCached
    BY <1>0, <2>1 DEF FormIsTrue
  <2>3. IsCached'
    BY <1>0, <2>1, <2>2 DEF IsCached
  <2> QED BY <1>1, <2>3
<1>6. CASE HandleSubmit \/ HandleSave \/ HandleDelete
  <2>1. UNCHANGED <<page, shown, form, editing, error, excused>>
    BY <1>6 DEF HandleSubmit, HandleSave, HandleDelete, Send, pageVars, formVars
  <2>2. call'.state = "sent" /\ call'.kind \in {"save", "delete"} /\ ~error
    BY <1>6, <2>1 DEF HandleSubmit, HandleSave, HandleDelete, Send, CanEdit
  <2>3. ~WasSaved' /\ (IsCached' <=> IsCached)
    BY <1>0, <2>1, <2>2 DEF WasSaved, IsCached
  <2> QED BY <1>0, <2>1, <2>2, <2>3 DEF FormIsTrue
<1>7. CASE NewApp \/ Leave
  BY <1>7 DEF NewApp, Leave, LeaveTo, Mount
<1> QED BY <1>2, <1>3, <1>4, <1>5, <1>6, <1>7 DEF UserNext

(* And while answers come back to it.                                          *)
LEMMA AnswerFormIsTrue ==
  ASSUME ConnInv, EditInv, AnswerNext, page' = "app", excused' = FALSE
  PROVE  FormIsTrue'
<1>0. TypeOK /\ CacheIsView /\ FormIsTrue /\ app' = app /\ call \in Call
  BY DEF ConnInv, EditInv, AnswerNext, CreateAnswered, SaveAnswered, Refetched, DeleteAnswered,
         Refresh, Established, TypeOK
<1>1. ASSUME IsCached' PROVE FormIsTrue'
  BY <1>1 DEF FormIsTrue
<1>2. ASSUME UNCHANGED <<cache, page, shown, form, editing, error, excused>>,
             call'.kind = "none" \/ WasSaved' \/ ~(call.kind = "none"),
             call.kind = "none" => call'.kind = "none",
             WasSaved' => WasSaved
      PROVE  FormIsTrue'
  <2>1. (IsCached' <=> IsCached) /\ (IsHeld' <=> IsHeld)
    BY <1>0, <1>2 DEF IsCached, IsHeld
  <2> QED BY <1>0, <1>2, <2>1 DEF FormIsTrue
<1>3. CASE CreateAnswered \/ DeleteAnswered
  <2>1. call.state # "ok"
    BY <1>3 DEF CreateAnswered, DeleteAnswered
  <2>2. UNCHANGED <<cache, page, shown, form, editing, error, excused>> /\ call' = NoCall
    BY <1>3, <2>1 DEF CreateAnswered, DeleteAnswered, Done, pageVars, formVars
  <2>3. call'.kind = "none" /\ ~WasSaved'
    BY <2>2, Constants DEF WasSaved
  <2> QED BY <1>2, <2>2, <2>3
<1>4. CASE SaveAnswered
  <2>1. UNCHANGED <<cache, page, shown, form, editing, error, excused>> /\ call.kind = "save"
    BY <1>4 DEF SaveAnswered, Answered, pageVars, formVars
  <2>2. CASE call.state = "ok"
    <3>1. call'.mounted = call.mounted
      BY <1>0, <1>4, <2>2 DEF SaveAnswered, Call
    <3>2. WasSaved' => WasSaved
      BY <2>1, <2>2, <3>1 DEF WasSaved
    <3> QED BY <1>2, <2>1, <3>2
  <2>3. CASE call.state # "ok"
    <3>1. call'.kind = "none" /\ ~WasSaved'
      BY <1>4, <2>3, Constants DEF SaveAnswered, Done, WasSaved
    <3> QED BY <1>2, <2>1, <3>1
  <2> QED BY <2>2, <2>3
<1>5. CASE Refresh /\ FetchSucceeds(shown)
  <2>1. /\ page = "app" /\ UNCHANGED <<page, shown, app, editing, call>> /\ error' = FALSE
    BY <1>5 DEF Refresh, FetchSucceeds, pageVars
  <2>2. CASE IsCached'
    BY <1>1, <2>2
  <2>3. CASE UNCHANGED <<form, excused, cache>> /\ cache[shown].perms = View(app[shown].perms)
    <3>1. (IsHeld => IsCached) /\ (IsCached => IsCached') /\ (IsHeld' <=> IsHeld)
          /\ (WasSaved' <=> WasSaved)
      BY <2>1, <2>3 DEF IsHeld, IsCached, WasSaved
    <3> QED BY <1>0, <2>1, <2>3, <3>1 DEF FormIsTrue
  <2> QED BY <1>0, <1>5, <2>1, <2>2, <2>3, FetchedIsTrue
<1>6. CASE Refresh /\ FetchFails
  <2>1. UNCHANGED <<page, shown, form, cache, editing, excused, call>> /\ error' = TRUE
    BY <1>6 DEF Refresh, FetchFails, pageVars
  <2>2. (IsCached' <=> IsCached) /\ (IsHeld' <=> IsHeld) /\ (WasSaved' <=> WasSaved)
    BY <1>0, <2>1 DEF IsCached, IsHeld, WasSaved
  <2> QED BY <1>0, <2>1, <2>2 DEF FormIsTrue
<1>7. CASE Refetched
  <2>1. /\ call.kind = "refetch" /\ UNCHANGED <<page, shown>> /\ call' = NoCall
        /\ editing' = (editing /\ ~call.mounted)
    BY <1>7 DEF Refetched, Done, pageVars
  <2>2. call'.kind = "none" /\ ~WasSaved'
    BY <2>1, Constants DEF WasSaved
  <2>3. editing \in BOOLEAN /\ call.mounted \in BOOLEAN
    BY <1>0 DEF TypeOK, Call
  <2>4. CASE ~(page = "app" /\ shown = call.app)
    <3>1. ~call.mounted
      BY <2>1, <2>4 DEF EditInv, MountedHere
    <3>2. editing' = editing
      BY <2>1, <2>3, <3>1
    <3>3. UNCHANGED <<cache, form, error, excused>>
      BY <1>7, <2>4 DEF Refetched
    <3> QED BY <1>2, <2>1, <2>2, <3>2, <3>3
  <2>5. CASE page = "app" /\ FetchSucceeds(shown)
    <3>1. CASE IsCached'
      BY <1>1, <3>1
    <3>2. CASE UNCHANGED <<form, excused, cache>> /\ cache[shown].perms = View(app[shown].perms)
      <4>1. (IsHeld => IsCached) /\ (IsCached => IsCached')
        BY <2>1, <3>2 DEF IsHeld, IsCached
      <4>2. CASE call.mounted
        <5>1. WasSaved
          BY <2>1, <4>2 DEF WasSaved
        <5>2. IsCached
          BY <1>0, <2>1, <3>2, <4>1, <5>1 DEF FormIsTrue
        <5> QED BY <1>1, <4>1, <5>2
      <4>3. CASE ~call.mounted
        <5>1. editing' = editing
          BY <2>1, <2>3, <4>3
        <5>2. IsCached \/ editing
          BY <1>0, <2>1, <3>2 DEF FormIsTrue
        <5> QED BY <1>1, <2>2, <4>1, <5>1, <5>2 DEF FormIsTrue
      <4> QED BY <4>2, <4>3
    <3> QED BY <1>0, <2>1, <2>5, <3>1, <3>2, FetchedIsTrue
  <2>6. CASE page = "app" /\ FetchFails
    <3>1. UNCHANGED <<cache, form, excused>> /\ error' = TRUE
      BY <2>6 DEF FetchFails
    <3>2. (IsCached' <=> IsCached) /\ (IsHeld' <=> IsHeld)
      BY <1>0, <2>1, <3>1 DEF IsCached, IsHeld
    <3>3. CASE call.mounted
      <4>1. WasSaved /\ editing' = FALSE
        BY <2>1, <3>3 DEF WasSaved
      <4>2. IsCached \/ IsHeld
        BY <1>0, <2>1, <3>1, <4>1 DEF FormIsTrue
      <4> QED BY <2>2, <3>1, <3>2, <4>1, <4>2 DEF FormIsTrue
    <3>4. CASE ~call.mounted
      <4>1. editing' = editing
        BY <2>1, <2>3, <3>4
      <4>2. IsCached \/ editing
        BY <1>0, <2>1, <3>1 DEF FormIsTrue
      <4> QED BY <2>2, <3>2, <4>1, <4>2 DEF FormIsTrue
    <3> QED BY <3>3, <3>4
  <2> QED BY <1>7, <2>1, <2>4, <2>5, <2>6 DEF Refetched
<1>8. CASE Established
  BY <1>8 DEF Established, LeaveTo, Mount
<1> QED BY <1>3, <1>4, <1>5, <1>6, <1>7, <1>8 DEF AnswerNext, Refresh

(* Every step leaves a page that tells the truth.                              *)
LEMMA NextFormIsTrue == ConnInv /\ EditInv /\ [Next]_vars => FormIsTrue'
<1> SUFFICES ASSUME ConnInv, EditInv, [Next]_vars, page' = "app", ~excused' PROVE FormIsTrue'
  BY DEF FormIsTrue
<1>1. ConnInv'
  BY NextTypeOK, NextFormAgrees, NextSaveAgrees, NextAsAsked, NextRounded DEF ConnInv
<1>2. excused' = FALSE
  BY <1>1 DEF ConnInv, TypeOK
<1>3. CASE UNCHANGED vars
  BY <1>3 DEF vars, pageVars, formVars, EditInv, FormIsTrue, IsCached, IsHeld, WasSaved
<1> QED BY <1>2, <1>3, ServerFormIsTrue, UserFormIsTrue, AnswerFormIsTrue DEF Next

(* Out of the edit mode ShowApp.tsx shows what it last got of the app, for     *)
(* every number of apps, scopes, budgets and calls that fail or come late.     *)
THEOREM ShowsTruth == Spec => []ViewIsTrue
<1>1. ConnInv /\ EditInv /\ [Next]_vars => EditInv'
  BY NextCacheIsView, NextMountedHere, NextSendsForm, NextFormIsTrue DEF ConnInv, EditInv
<1>2. EditInv => ViewIsTrue
  BY DEF EditInv, FormIsTrue, IsCached, ViewIsTrue
<1> QED BY <1>1, <1>2, InitEditInv, ConnInvariant, PTL DEF Spec
================================================================================
