-------------------------- MODULE MCNip47Handler --------------------------
(***************************************************************************)
(* Small instances of Nip47Handler.  "Mixed" has a multi_pay request of two *)
(* slots, one of which repeats the invoice of a second request.  "Kinds"    *)
(* has one request of every kind.                                           *)
(***************************************************************************)
EXTENDS Nip47Handler, TLC

CONSTANTS app, r1, r2, r3, r4, r5, r6, k1, k2, inv1, inv2, key1, stranger, h1, h2, h3

Symmetry == Permutations(Handlers)

Scoped(s, m) == [scopes |-> s, maxAmount |-> m, expired |-> FALSE]

MCMsat == inv1 :> 2999 @@ inv2 :> 2000 @@ key1 :> 2000

(* A multi_pay request and a request that repeats its first invoice *)
MixedSender == r1 :> app @@ r2 :> app
MixedBody == r1 :> (k1 :> inv1 @@ k2 :> inv2) @@ r2 :> (k1 :> inv1)
(* Three payments of 2 sats each against a budget of 5 *)
BudgetBody == r1 :> (k1 :> inv1 @@ k2 :> key1) @@ r2 :> (k1 :> inv2)

OneSender == r1 :> app
TwoSlots == r1 :> (k1 :> inv1 @@ k2 :> key1)

(* An unreadable request, one of a stranger, one that only
   reads, one that is half malformed, an empty one, and a payment *)
KindsSender == r1 :> app @@ r2 :> stranger @@ r3 :> app @@ r4 :> app @@ r5 :> app
               @@ r6 :> app
KindsBody == r1 :> (k1 :> inv1) @@ r2 :> (k1 :> inv1) @@ r3 :> (k1 :> Query)
             @@ r4 :> (k1 :> Malformed @@ k2 :> key1) @@ r5 :> <<>> @@ r6 :> (k1 :> inv1)

Unlimited == app :> Scoped({"pay_invoice", "read"}, 0)
Budget5 == app :> Scoped({"pay_invoice"}, 5)
Budget3 == app :> Scoped({"pay_invoice"}, 3)
NoGrants == {}
SomeGrants == {Scoped({"read"}, 1)}
=============================================================================
