------------------------------- MODULE HubConfig -------------------------------
(* The hub behind the front door: the configuration rows that an unlock        *)
(* password protects (config/config.go), the setup, start, stop, backup and    *)
(* restore calls that use them (api/api.go, http/http_service.go), and the     *)
(* identity the service keeps in one of them (service/keys/keys.go).  How the  *)
(* node is launched and stopped is ServiceLifecycle's; here a launch succeeds  *)
(* or fails.                                                                   *)
EXTENDS Naturals

CONSTANTS
  Password,   \* the passwords anybody types
  Empty,      \* the empty one: a value written with it is not encrypted
  Secret,     \* the private keys the service can draw
  Backend,    \* the lightning backends
  Preset,     \* what LN_BACKEND_TYPE of the environment may be: a backend, or "none"
  Supplies,   \* may the environment of a process give the row of a node, or not?
  DbFaults    \* may a statement of the database fail?

ASSUME ConfigAssumption ==
  /\ Empty \in Password
  /\ "LDK" \in Backend
  /\ Preset \subseteq Backend \cup {"none"}
  /\ Supplies \subseteq BOOLEAN /\ Supplies # {}
  /\ DbFaults \in BOOLEAN
  /\ \A v \in {"none", "check", "ciphertext", "error", "imported", "generated", "restored",
              "given"} : v \notin Secret

VARIABLES
  row,        \* the rows of user_configs that are written with a password
  backend,    \* the LNBackendType row
  running,    \* svc.lnClient is set
  starting,   \* the start that holds startMutex
  stopping,   \* api.Stop or StopApp waits for the node
  setup,      \* the setup request that is being written, and its next row
  session,    \* the browser holds a cookie that is signed and marked unlocked
  torn,       \* a row may be written with another password than the check row
  origin,     \* who has written the row of a node: a setup, the environment
  preset      \* LN_BACKEND_TYPE of this hub

hubVars == <<row, backend, running, starting, stopping, setup, session, torn, origin, preset>>

(* One row stands for those of a kind: the key of Breez for the invite code    *)
(* and the mint, which a setup writes, the macaroon for the rows of LND and    *)
(* Phoenixd, which the environment writes as well, with the empty password.    *)
Given == {"BreezAPIKey", "LNDMacaroonHex"}
Key == {"UnlockPasswordCheck", "Mnemonic", "NostrSecretKey", "GreenlightCreds"} \cup Given
Phrase == {"none", "imported", "generated"}
Value == {"none", "check", "ciphertext", "imported", "generated", "restored", "given"} \cup Secret
Row == [value : Value, key : Password, encrypted : BOOLEAN]
Absent == [value |-> "none", key |-> Empty, encrypted |-> FALSE]

NoStart == [stage |-> "none", password |-> Empty]
NoSetup == [stage |-> "none", password |-> Empty, backend |-> "none",
            mnemonic |-> "none", given |-> {}]
SetupAt(stages) == [stage : stages, password : Password, backend : Backend \cup {"none"},
                    mnemonic : Phrase, given : SUBSET Given]
SetupStages == {"none", "check", "backend", "rows"}
Request == SetupAt({"none"})

(* get: a value that is flagged as encrypted is decrypted with the password    *)
(* given, unless that is empty; every other value is returned as it is stored. *)
(* Who ignores the error of a read that failed has an action of its own for it.*)
Read(r, pw) ==
  CASE r.value = "none"                              -> "none"
    [] r.value # "none" /\ r.encrypted /\ pw # Empty -> IF r.key = pw THEN r.value ELSE "error"
    [] r.value # "none" /\ ~(r.encrypted /\ pw # Empty) -> IF r.key = Empty THEN r.value ELSE "ciphertext"

(* SetUpdate: the flag is stored only with a row that did not exist.  A failed *)
(* statement is Fatal: the process ends.                                       *)
Written(r, v, pw) ==
  [value |-> v, key |-> pw, encrypted |-> IF r.value = "none" THEN pw # Empty ELSE r.encrypted]

(* A ciphertext in a row that is flagged as clear text: nobody decrypts it.    *)
Misflags(r, pw) == r.value # "none" /\ ~r.encrypted /\ pw # Empty

(* A row as ChangeUnlockPassword leaves it: a ciphertext that was read without *)
(* a password is encrypted once more, or stored as it was.                     *)
RewrittenCheckOnly(r, cur, new) ==
  IF r.value = "check" THEN Written(r, Read(r, cur), new) ELSE r
RewrittenSwapped(r, cur, new) == Written(r, Read(r, cur), cur)
Rewritten(r, cur, new) ==
  IF cur = Empty /\ r.key # Empty /\ new = Empty
  THEN r ELSE Written(r, Read(r, cur), new)

Check == row["UnlockPasswordCheck"]
AcceptsErrors(pw) == Read(Check, pw) \in {"none", "check", "error"}
Accepts(pw) == Read(Check, pw) \in {"none", "check"}
SetupCompleted == Check.value # "none"

(* The start in progress has checked its password and still has to use it.     *)
Working == starting.stage \in {"launching", "launched"}

TypeOK ==
  /\ row \in [Key -> Row]
  /\ backend \in Backend \cup {"none"}
  /\ running \in BOOLEAN
  /\ starting \in [stage : {"none", "begun", "launching", "launched"}, password : Password]
  /\ stopping \in BOOLEAN
  /\ setup \in SetupAt(SetupStages)
  /\ session \in BOOLEAN
  /\ torn \in BOOLEAN
  /\ origin \subseteq {"setup", "environment"}
  /\ preset \in Preset

(* The row of a node as the environment leaves it at the start of a process.   *)
Supplied(rows, gives) ==
  IF gives THEN [rows EXCEPT !["LNDMacaroonHex"] = Written(@, "given", Empty)] ELSE rows
OriginOf(rows, gives) == rows \cup IF gives THEN {"environment"} ELSE {}

HubInit ==
  /\ \E gives \in Supplies : /\ row = Supplied([k \in Key |-> Absent], gives)
                             /\ origin = OriginOf({}, gives)
  /\ preset \in Preset
  /\ backend = preset
  /\ running = FALSE
  /\ starting = NoStart
  /\ stopping = FALSE
  /\ setup = NoSetup
  /\ session = FALSE
  /\ torn = FALSE

--------------------------------------------------------------------------------
(* Setup writes row after row, each in a statement of its own.                 *)

(* GetInfo ignores the error of reading the check row: a hub whose read fails  *)
(* is set up once more.  Bound: one setup request is being written at a time.  *)
AcceptSetup(req) ==
  /\ ~SetupCompleted \/ DbFaults
  /\ setup = NoSetup
  /\ setup' = [req EXCEPT !.stage = "check"]
  /\ UNCHANGED <<row, backend, running, starting, stopping, session, torn, origin, preset>>

(* Rows that were written with a password, some other one perhaps.             *)
Protected == {k \in Key \ {"UnlockPasswordCheck"} :
                row[k].value # "none" /\ (k = "LNDMacaroonHex" => "setup" \in origin)}

WriteCheck ==
  /\ setup.stage = "check"
  /\ row' = [row EXCEPT !["UnlockPasswordCheck"] = Written(@, "check", setup.password)]
  /\ setup' = [setup EXCEPT !.stage = "backend"]
  /\ torn' = (torn \/ Working \/ Protected # {})
  /\ UNCHANGED <<backend, running, starting, stopping, session, origin, preset>>

(* What the request does not give is not written: the setup goes on with the   *)
(* next row that it gives, and ends after the last.                            *)
Rest(s) == IF s.given = {} /\ s.mnemonic = "none" THEN NoSetup ELSE [s EXCEPT !.stage = "rows"]

WriteBackend ==
  /\ setup.stage = "backend"
  /\ backend' = IF setup.backend = "none" THEN backend ELSE setup.backend
  /\ setup' = Rest(setup)
  /\ UNCHANGED <<row, running, starting, stopping, session, torn, origin, preset>>

WriteAPIKey ==
  /\ setup.stage = "rows" /\ "BreezAPIKey" \in setup.given
  /\ row' = [row EXCEPT !["BreezAPIKey"] = Written(@, "given", setup.password)]
  /\ setup' = Rest([setup EXCEPT !.given = @ \ {"BreezAPIKey"}])
  /\ UNCHANGED <<backend, running, starting, stopping, session, torn, origin, preset>>

WriteMnemonic ==
  /\ setup.stage = "rows" /\ "BreezAPIKey" \notin setup.given /\ setup.mnemonic # "none"
  /\ row' = [row EXCEPT !["Mnemonic"] = Written(@, setup.mnemonic, setup.password)]
  /\ setup' = Rest([setup EXCEPT !.mnemonic = "none"])
  /\ UNCHANGED <<backend, running, starting, stopping, session, torn, origin, preset>>

WriteNode ==
  /\ setup.stage = "rows" /\ setup.given = {"LNDMacaroonHex"} /\ setup.mnemonic = "none"
  /\ row' = [row EXCEPT !["LNDMacaroonHex"] = Written(@, "given", setup.password)]
  /\ origin' = origin \cup {"setup"}
  /\ setup' = NoSetup
  /\ UNCHANGED <<backend, running, starting, stopping, session, torn, preset>>

SetupNext ==
  WriteCheck \/ WriteBackend \/ WriteAPIKey \/ WriteMnemonic \/ WriteNode

--------------------------------------------------------------------------------
(* The start handler answers after the check and starts in a goroutine, which  *)
(* gives up when another start holds the mutex.                                *)

Start(pw) ==
  /\ Accepts(pw)
  /\ session' = TRUE
  /\ starting' = IF starting = NoStart THEN [stage |-> "begun", password |-> pw] ELSE starting
  /\ UNCHANGED <<row, backend, running, stopping, setup, torn, origin, preset>>

StartApp ==
  /\ starting.stage = "begun"
  /\ \/ /\ ~running /\ Accepts(starting.password)
        /\ starting' = [starting EXCEPT !.stage = "launching"]
     \/ /\ running \/ ~Accepts(starting.password) \/ DbFaults
        /\ starting' = NoStart
  /\ UNCHANGED <<row, backend, running, stopping, setup, session, torn, origin, preset>>

LaunchFails ==
  /\ starting.stage = "launching"
  /\ starting' = NoStart
  /\ UNCHANGED <<row, backend, running, stopping, setup, session, torn, origin, preset>>

(* A Greenlight node whose credentials cannot be read, for whatever reason, is *)
(* recovered or registered, and its new credentials are saved.                 *)
SaveCredentials ==
  LET creds == row["GreenlightCreds"] IN
  /\ starting.stage = "launching" /\ backend = "GREENLIGHT"
  /\ Read(creds, starting.password) \in {"none", "error"} \/ DbFaults
  /\ row' = [row EXCEPT !["GreenlightCreds"] = Written(@, "given", starting.password)]
  /\ torn' = (torn \/ Misflags(creds, starting.password))
  /\ UNCHANGED <<backend, running, starting, stopping, setup, session, origin, preset>>

Launched ==
  /\ starting.stage = "launching"
  /\ backend # "none"
  /\ backend = "GREENLIGHT" => Read(row["GreenlightCreds"], starting.password) = "given"
  /\ running' = TRUE
  /\ starting' = [starting EXCEPT !.stage = "launched"]
  /\ UNCHANGED <<row, backend, stopping, setup, session, torn, origin, preset>>

(* A process that ends keeps its rows; one that starts writes those that its   *)
(* environment gives.  The cookie outlives both: its secret is stored.  Bound: *)
(* LN_BACKEND_TYPE is the same at every start.                                 *)
ProcessRestarts ==
  /\ running' = FALSE
  /\ starting' = NoStart
  /\ stopping' = FALSE
  /\ setup' = NoSetup
  /\ backend' = IF preset = "none" THEN backend ELSE preset
  /\ \E gives \in Supplies : row' = Supplied(row, gives) /\ origin' = OriginOf(origin, gives)
  /\ UNCHANGED <<session, torn, preset>>

(* keys.Init: the key that cannot be read is replaced by a new one.            *)
InitKeys ==
  /\ starting.stage = "launched"
  /\ \/ /\ Read(row["NostrSecretKey"], starting.password) \in {"none", "error"}
        /\ \E s \in Secret \ {row["NostrSecretKey"].value} :
             row' = [row EXCEPT !["NostrSecretKey"] = Written(@, s, starting.password)]
     \/ /\ Read(row["NostrSecretKey"], starting.password) \in Secret
        /\ UNCHANGED row
  /\ starting' = NoStart
  /\ UNCHANGED <<backend, running, stopping, setup, session, torn, origin, preset>>

(* keys.Init ignores the error of a read that failed, too, and replaces a key  *)
(* that the password does read.                                                *)
InitKeysUnread ==
  LET secret == row["NostrSecretKey"] IN
  /\ starting.stage = "launched"
  /\ Read(secret, starting.password) \notin {"none", "error"}
  /\ \E s \in Secret \ {secret.value} :
       row' = [row EXCEPT !["NostrSecretKey"] = Written(@, s, starting.password)]
  /\ starting' = NoStart
  /\ torn' = (torn \/ Misflags(secret, starting.password))
  /\ UNCHANGED <<backend, running, stopping, setup, session, origin, preset>>

(* A key that was read as a ciphertext is none: StartNostr logs Fatal.         *)
InitKeysFails ==
  /\ starting.stage = "launched"
  /\ Read(row["NostrSecretKey"], starting.password) = "ciphertext"
  /\ ProcessRestarts

StartNext ==
  \/ StartApp \/ LaunchFails \/ SaveCredentials \/ Launched \/ InitKeys
  \/ (DbFaults /\ InitKeysUnread)

--------------------------------------------------------------------------------

Unlock(pw) ==
  /\ Accepts(pw)
  /\ session' = TRUE
  /\ UNCHANGED <<row, backend, running, starting, stopping, setup, torn, origin, preset>>

Logout ==
  /\ session' = FALSE
  /\ UNCHANGED <<row, backend, running, starting, stopping, setup, torn, origin, preset>>

(* Every encrypted row is rewritten in one transaction, or none when one of    *)
(* them cannot be read; then the node is stopped.                              *)
ChangePassword(cur, new) ==
  /\ running
  /\ Accepts(cur)
  /\ \A k \in Key : row[k].encrypted => Read(row[k], cur) # "error"
  /\ row' = [k \in Key |-> IF row[k].encrypted THEN Rewritten(row[k], cur, new) ELSE row[k]]
  /\ stopping' = TRUE
  /\ torn' = (torn \/ Working \/ setup # NoSetup)
  /\ UNCHANGED <<backend, running, starting, setup, session, origin, preset>>

Stop ==
  /\ session
  /\ running
  /\ stopping' = TRUE
  /\ UNCHANGED <<row, backend, running, starting, setup, session, torn, origin, preset>>

(* CreateBackup stops the app and closes the database for good: every call     *)
(* fails until the process is started again.                                   *)
Backup(pw) ==
  /\ session
  /\ running
  /\ Accepts(pw)
  /\ ProcessRestarts

(* The node stops, or its Shutdown fails and the client stays.                 *)
StopEnds ==
  /\ stopping
  /\ stopping' = FALSE
  /\ running' \in {FALSE, running}
  /\ UNCHANGED <<row, backend, starting, setup, session, torn, origin, preset>>

(* The rows that an LDK hub, the only one whose settings offer it, has         *)
(* archived.  Bound: the rows of other nodes are not in the archive.           *)
Archived(pw, first, s) ==
  [k \in Key |-> CASE k = "UnlockPasswordCheck" -> Written(Absent, "check", pw)
                  [] k = "Mnemonic"            -> Written(Absent, "restored", pw)
                  [] k = "NostrSecretKey"      -> Written(Absent, s, IF pw = Empty THEN first ELSE pw)
                  [] OTHER                     -> Absent]

Restored(supplies) ==
  \E pw, first \in Password, s \in Secret, gives \in supplies :
    /\ row' = Supplied(Archived(pw, first, s), gives)
    /\ origin' = OriginOf({}, gives)

(* RestoreBackup unpacks the archive beside the working directory, the process *)
(* exits and the next one moves it in.  Its read of the check row may fail,    *)
(* like that of a setup.  Bound: nothing else is called in the five seconds    *)
(* before the exit.                                                            *)
Restore ==
  /\ ~SetupCompleted \/ DbFaults
  /\ Restored(Supplies)
  /\ backend' = IF preset = "none" THEN "LDK" ELSE preset
  /\ running' = FALSE
  /\ starting' = NoStart
  /\ stopping' = FALSE
  /\ setup' = NoSetup
  /\ session' \in {FALSE, session}
  /\ torn' = FALSE
  /\ UNCHANGED preset

HubStep(requests) ==
  \/ \E req \in requests : AcceptSetup(req)
  \/ SetupNext
  \/ \E pw \in Password : Start(pw) \/ Unlock(pw) \/ Backup(pw)
  \/ StartNext \/ InitKeysFails
  \/ \E cur, new \in Password : ChangePassword(cur, new)
  \/ Logout \/ Stop \/ StopEnds \/ Restore
  \/ ProcessRestarts

HubNext == HubStep(Request)

HubSpec == HubInit /\ [][HubNext]_hubVars

--------------------------------------------------------------------------------
(* Rows that both a setup and the environment have written: their flag is that *)
(* of the first, their value that of the last.                                 *)
Mixed == IF origin = {"setup", "environment"} THEN {"LNDMacaroonHex"} ELSE {}

(* A password the hub accepts reads every row: no login succeeds into a wallet *)
(* whose keys it cannot decrypt.  Excepted are a hub whose password was set or *)
(* replaced under a start, a setup or rows that had another one, or whose      *)
(* clear text was replaced after a failed read, and the row of a node that     *)
(* both a setup and the environment wrote.                                     *)
CheckedMeansReadable ==
  Check.encrypted /\ ~torn =>
    \A pw \in Password : Accepts(pw) =>
      \A k \in Key \ Mixed : Read(row[k], pw) = row[k].value /\ row[k].value # "ciphertext"

(* The wallet keeps its Nostr identity: no start and no change of password     *)
(* replaces the key that every connected app knows, but a start whose read of  *)
(* the key failed, and a backup that is restored over it because the read of   *)
(* the check row failed.  Excepted are a hub that was set up with the empty    *)
(* password, which any password opens, and one whose password was set after a  *)
(* start, or replaced between the launch of the node and the reading of the    *)
(* key.                                                                        *)
IdentityStable ==
  [][Check.encrypted /\ ~torn /\ row["NostrSecretKey"].value # "none"
       => \/ row'["NostrSecretKey"].value = row["NostrSecretKey"].value
          \/ InitKeysUnread \/ Restored(BOOLEAN)]_hubVars

(* An answered change of the password is one: the new password opens the hub,  *)
(* and the old one does not any more.                                          *)
NewPasswordOpens ==
  [][\A cur, new \in Password : Check.encrypted /\ ChangePassword(cur, new) =>
       Accepts(new)' /\ (Accepts(cur)' => cur = new)]_hubVars
================================================================================
