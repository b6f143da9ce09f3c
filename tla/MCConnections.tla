----------------------------- MODULE MCConnections -----------------------------
(* Connections for TLC.  What the pages make of one field of the permissions   *)
(* hangs at most on one other (pay_invoice on the renewal), so every behaviour *)
(* lets two of the fields vary, whichever, and keeps the others as they are in *)
(* Usual: all scopes, no budget, a renewal that is not the default, no expiry. *)
EXTENDS Connections, FiniteSets

Usual == [scopes |-> Scopes, max |-> 0, renewal |-> "never", expires |-> Never]

(* Another browser deletes the app or gives it what differs in one field.      *)
MCOthers ==
  {Usual} \cup {[Usual EXCEPT !.scopes = @ \ s] : s \in {Scopes} \cup {{t} : t \in Scopes}}
    \cup {[Usual EXCEPT !.max = m] : m \in Amounts}
    \cup {[Usual EXCEPT !.renewal = r] : r \in Renewals}
    \cup {[Usual EXCEPT !.expires = [day |-> d, time |-> EndOfDay]] : d \in Days}

VARIABLE varied

Fixed(p) ==
  /\ Scopes \ varied \subseteq p.scopes
  /\ "max" \in varied \/ p.max = Usual.max
  /\ "renewal" \in varied \/ p.renewal \in {Usual.renewal, ""}
  /\ "expires" \in varied \/ p.expires = Usual.expires

MCInit == Init /\ varied \in {f \in SUBSET Fields : Cardinality(f) = 2}
MCNext ==
  /\ Next
  /\ UNCHANGED varied
  /\ form' = NoPermissions \/ Fixed(form')
  /\ \A a \in App : app'[a] = NoApp \/ Fixed(app'[a].perms)
MCSpec == MCInit /\ [][MCNext]_<<vars, varied>> /\ Fairness
================================================================================
