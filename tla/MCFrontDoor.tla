----------------------------- MODULE MCFrontDoor -----------------------------
(* The instance of FrontDoor that TLC checks: the hub is driven by the browser *)
(* or by another client of the API.  The browser meets a hub whose database    *)
(* never fails and whose environment gives LN_BACKEND_TYPE and no row; the     *)
(* client one whose every read may fail and whose environment gives a row at   *)
(* some of its starts.                                                         *)
EXTENDS FrontDoor

VARIABLE client     \* another client calls the hub, and no browser

Api == INSTANCE HubConfig WITH
         Backend <- {"LDK", "GREENLIGHT"}, Preset <- {"none"}, Supplies <- BOOLEAN, DbFaults <- TRUE

MCvars == <<vars, client>>

MCInit ==
  /\ client \in BOOLEAN
  /\ preset = IF client THEN "none" ELSE "LDK"
  /\ IF client THEN Api!HubInit ELSE HubInit
  /\ BrowserInit

(* What the client asks: an LDK hub that is given the row of another node, and *)
(* a hub whose node makes its credentials itself.                              *)
Asked ==
  {[NoSetup EXCEPT !.password = pw, !.backend = "LDK", !.mnemonic = "generated",
                   !.given = {"LNDMacaroonHex"}] : pw \in Password}
    \cup {[NoSetup EXCEPT !.password = pw, !.backend = "GREENLIGHT",
                          !.given = {"BreezAPIKey"}] : pw \in Password}

(* Bound: the client leaves a hub that the properties except.                  *)
Excepted == torn \/ (SetupCompleted /\ ~Check.encrypted)

ClientStep ==
  /\ client
  /\ IF Excepted THEN Api!Logout ELSE Api!HubStep(Asked)
  /\ UNCHANGED browserVars

MCNext == ((~client /\ Next) \/ ClientStep) /\ UNCHANGED client

MCSpec ==
  /\ MCInit /\ [][MCNext]_MCvars
  /\ WF_vars(~client /\ Redirect) /\ WF_vars(~client /\ Poll)
==============================================================================
