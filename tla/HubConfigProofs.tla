---------------------------- MODULE HubConfigProofs ----------------------------
(* What holds of the rows for every set of passwords, keys and backends.  The  *)
(* argument: while `torn' is false, every row, but that of a node which both a *)
(* setup and the environment wrote, is written with the password of the check  *)
(* row or in the clear, and every start and setup in progress has it.          *)
EXTENDS HubConfig, TLAPS

Node == row["LNDMacaroonHex"]

(* Who wrote the row of a node, and how.                                       *)
Signed(node, from) ==
  /\ from \subseteq {"setup", "environment"}
  /\ node.value = "none" => node = Absent
  /\ from = {} <=> node.value = "none"
  /\ from = {"environment"} => node.value = "given" /\ ~node.encrypted /\ node.key = Empty

RowShape ==
  /\ \A k \in Key : row[k].value = "none" => row[k] = Absent
  /\ Check.value \in {"none", "check"}
  /\ Signed(Node, origin)

(* A row that the password of the check row reads.                             *)
Sound(r) ==
  r.value # "none" =>
    /\ r.value # "ciphertext"
    /\ \/ r.encrypted /\ r.key = Check.key
       \/ ~r.encrypted /\ r.key = Empty

Rows == {"backend", "rows"}

(* What a setup still has to write is not there, unless the hub is torn.       *)
SetupShape ==
  setup.stage \in Rows =>
    /\ Check.value = "check"
    /\ ~torn =>
         /\ "BreezAPIKey" \in setup.given => row["BreezAPIKey"].value = "none"
         /\ setup.mnemonic # "none" => row["Mnemonic"].value = "none"
         /\ "LNDMacaroonHex" \in setup.given => "setup" \notin origin

OnePassword ==
  Check.encrypted /\ ~torn =>
    /\ \A k \in Key \ Mixed : Sound(row[k])
    /\ Working => starting.password = Check.key
    /\ setup.stage \in Rows => setup.password = Check.key

HubInv == TypeOK /\ RowShape /\ SetupShape /\ OnePassword

--------------------------------------------------------------------------------
(* get returns the value of a row, an error or a ciphertext.                   *)
LEMMA ReadType ==
  ASSUME NEW r \in Row, NEW pw \in Password
  PROVE  Read(r, pw) \in {r.value, "error", "ciphertext"}
BY DEF Read, Row

(* What the check accepts of an encrypted check row is its password alone.     *)
LEMMA AcceptedIsKey ==
  ASSUME TypeOK, RowShape, Check.encrypted, NEW pw \in Password, Accepts(pw)
  PROVE  pw = Check.key /\ Check.value = "check"
<1>1. Check \in Row
  BY DEF TypeOK, Check, Key
<1>2. Check.value = "check"
  BY <1>1 DEF RowShape, Check, Absent, Key
<1>3. CASE pw = Empty
  BY <1>1, <1>2, <1>3 DEF Accepts, Read
<1>4. CASE pw # Empty
  BY <1>1, <1>2, <1>4 DEF Accepts, Read
<1> QED BY <1>2, <1>3, <1>4

(* A sound row is read by the password of the check row.                       *)
LEMMA SoundIsRead ==
  ASSUME NEW r \in Row, Sound(r)
  PROVE  Read(r, Check.key) = r.value
<1>1. CASE r.value = "none"
  BY <1>1 DEF Read
<1>2. CASE r.value # "none" /\ r.encrypted /\ Check.key # Empty
  BY <1>2 DEF Read, Sound
<1>3. CASE r.value # "none" /\ ~(r.encrypted /\ Check.key # Empty)
  BY <1>3 DEF Read, Sound
<1> QED BY <1>1, <1>2, <1>3

(* Written makes a row.                                                        *)
LEMMA WrittenType ==
  ASSUME NEW r \in Row, NEW v \in Value, NEW pw \in Password
  PROVE  Written(r, v, pw) \in Row
BY DEF Written, Row

(* A row written for the first time is encrypted if a password was given.      *)
LEMMA WrittenAbsent ==
  ASSUME NEW v, NEW pw
  PROVE  /\ Written(Absent, v, pw).value = v
         /\ Written(Absent, v, pw).key = pw
         /\ Written(Absent, v, pw).encrypted <=> pw # Empty
<1>1. Written(Absent, v, pw).encrypted = (IF Absent.value = "none" THEN pw # Empty ELSE Absent.encrypted)
  BY DEF Written
<1>2. Absent.value = "none"
  BY DEF Absent
<1>3. Written(Absent, v, pw).value = v /\ Written(Absent, v, pw).key = pw
  BY DEF Written
<1> QED BY <1>1, <1>2, <1>3

(* What is written over a sound row is sound, if it does not misflag it.       *)
LEMMA WrittenSound ==
  ASSUME NEW r \in Row, NEW v, NEW pw, v # "ciphertext", r.value = "none" => r = Absent,
         Sound(r), ~Misflags(r, pw), pw = Check.key
  PROVE  Sound(Written(r, v, pw))
<1>1. CASE r.value = "none"
  <2>1. /\ Written(r, v, pw).value = v /\ Written(r, v, pw).key = pw
        /\ Written(r, v, pw).encrypted <=> pw # Empty
    BY <1>1, WrittenAbsent
  <2> QED BY <2>1 DEF Sound
<1>2. CASE r.value # "none"
  <2>1. /\ Written(r, v, pw).value = v /\ Written(r, v, pw).key = pw
        /\ Written(r, v, pw).encrypted = r.encrypted
    BY <1>2 DEF Written
  <2> QED BY <1>2, <2>1 DEF Sound, Misflags
<1> QED BY <1>1, <1>2

(* The row of a node as a start leaves it: without a password, unless a setup  *)
(* has written it.                                                             *)
LEMMA SuppliedShape ==
  ASSUME NEW rows \in [Key -> Row], NEW from, NEW gives \in BOOLEAN,
         Signed(rows["LNDMacaroonHex"], from)
  PROVE  /\ Supplied(rows, gives) \in [Key -> Row]
         /\ \A k \in Key \ {"LNDMacaroonHex"} : Supplied(rows, gives)[k] = rows[k]
         /\ Signed(Supplied(rows, gives)["LNDMacaroonHex"], OriginOf(from, gives))
         /\ ~gives => Supplied(rows, gives) = rows /\ OriginOf(from, gives) = from
         /\ gives => OriginOf(from, gives) = from \cup {"environment"}
<1> USE ConfigAssumption
<1> DEFINE r == rows["LNDMacaroonHex"]
<1>0. r \in Row /\ "LNDMacaroonHex" \in Key
  BY DEF Key, Given
<1>1. Written(r, "given", Empty) \in Row
  BY <1>0, WrittenType DEF Value
<1>2. /\ Written(r, "given", Empty).value = "given" /\ Written(r, "given", Empty).key = Empty
      /\ r.value = "none" \/ ~r.encrypted => ~Written(r, "given", Empty).encrypted
  BY DEF Written
<1>3. CASE gives
  <2>1. Supplied(rows, gives) = [rows EXCEPT !["LNDMacaroonHex"] = Written(r, "given", Empty)]
    BY <1>3 DEF Supplied
  <2>2. OriginOf(from, gives) = from \cup {"environment"}
    BY <1>3 DEF OriginOf
  <2>3. from \cup {"environment"} = {"environment"} => from = {} \/ from = {"environment"}
    OBVIOUS
  <2>4. Signed(Written(r, "given", Empty), from \cup {"environment"})
    BY <1>2, <2>3 DEF Signed
  <2>5. Supplied(rows, gives) \in [Key -> Row]
    BY <1>1, <2>1
  <2>6. Supplied(rows, gives)["LNDMacaroonHex"] = Written(r, "given", Empty)
    BY <1>0, <2>1
  <2>7. \A k \in Key \ {"LNDMacaroonHex"} : Supplied(rows, gives)[k] = rows[k]
    BY <2>1
  <2> QED BY <1>3, <2>2, <2>4, <2>5, <2>6, <2>7
<1>4. CASE ~gives
  BY <1>4 DEF Supplied, OriginOf
<1> QED BY <1>3, <1>4

(* A row that was rewritten is a row.                                          *)
LEMMA RewrittenType ==
  ASSUME NEW r \in Row, NEW cur \in Password, NEW new \in Password, Read(r, cur) # "error"
  PROVE  Rewritten(r, cur, new) \in Row
<1>1. Read(r, cur) \in Value
  BY ReadType DEF Row, Value
<1>2. Written(r, Read(r, cur), new) \in Row
  BY <1>1, WrittenType
<1> QED BY <1>2 DEF Rewritten

--------------------------------------------------------------------------------

(* A new hub has no rows but what its environment gives, and so no password.   *)
LEMMA InitHubInv == HubInit => HubInv
<1> SUFFICES ASSUME HubInit PROVE HubInv
  OBVIOUS
<1> USE ConfigAssumption
<1>1. PICK gives \in Supplies : /\ row = Supplied([k \in Key |-> Absent], gives)
                               /\ origin = OriginOf({}, gives)
  BY DEF HubInit
<1>2. [k \in Key |-> Absent] \in [Key -> Row] /\ gives \in BOOLEAN
  BY DEF Row, Value, Absent
<1>3. "LNDMacaroonHex" \in Key /\ "UnlockPasswordCheck" \in Key \ {"LNDMacaroonHex"}
  BY DEF Key, Given
<1>4. /\ row \in [Key -> Row] /\ Signed(Node, origin)
      /\ \A k \in Key \ {"LNDMacaroonHex"} : row[k] = Absent
  <2> DEFINE none == [k \in Key |-> Absent]
  <2>1. none["LNDMacaroonHex"] = Absent
    BY <1>3
  <2>2. Signed(Absent, {})
    BY DEF Signed, Absent
  <2>3. Signed(none["LNDMacaroonHex"], {})
    BY <2>1, <2>2
  <2>4. none \in [Key -> Row]
    BY <1>2
  <2>5. \A k \in Key : none[k] = Absent
    OBVIOUS
  <2>6. row = Supplied(none, gives) /\ origin = OriginOf({}, gives)
    BY <1>1
  <2> HIDE DEF none
  <2> QED BY <1>2, <2>3, <2>4, <2>5, <2>6, SuppliedShape DEF Node
<1>5. TypeOK
  <2>1. setup \in SetupAt(SetupStages)
    BY DEF HubInit, NoSetup, SetupAt, SetupStages, Phrase
  <2>2. starting \in [stage : {"none", "begun", "launching", "launched"}, password : Password]
    BY DEF HubInit, NoStart
  <2> QED BY <1>4, <2>1, <2>2 DEF HubInit, TypeOK, Signed
<1>6. Check = Absent
  BY <1>3, <1>4 DEF Check
<1>7. RowShape
  BY <1>3, <1>4, <1>6 DEF RowShape, Node, Absent, Signed
<1> QED
  BY <1>5, <1>6, <1>7 DEF HubInv, SetupShape, Rows, OnePassword, HubInit, NoSetup, Absent

(* One lemma for each part of the invariant, one step for each action.         *)
LEMMA NextTypeOK == HubInv /\ [HubNext]_hubVars => TypeOK'
<1> SUFFICES ASSUME HubInv, [HubNext]_hubVars PROVE TypeOK'
  OBVIOUS
<1> USE ConfigAssumption DEF Key, Given
<1>0. /\ TypeOK /\ RowShape
      /\ NoStart \in [stage : {"none", "begun", "launching", "launched"}, password : Password]
      /\ NoSetup \in SetupAt(SetupStages)
      /\ Absent \in Row
  BY DEF HubInv, NoStart, NoSetup, SetupAt, SetupStages, Phrase, Absent, Row, Value
<1>1. ASSUME NEW k \in Key, NEW v \in Value, NEW pw \in Password,
             row' = [row EXCEPT ![k] = Written(@, v, pw)]
      PROVE  row' \in [Key -> Row]
  BY <1>0, <1>1, WrittenType DEF TypeOK
<1>2. ASSUME NEW s \in SetupAt(SetupStages) PROVE Rest(s) \in SetupAt(SetupStages)
  BY <1>0 DEF Rest, SetupAt, SetupStages
<1>3. /\ {"check", "given"} \cup Secret \subseteq Value
      /\ setup.mnemonic \in Value /\ setup.password \in Password
      /\ starting.password \in Password
  BY <1>0 DEF TypeOK, SetupAt, Phrase, Value
<1>4. ASSUME NEW req \in Request, AcceptSetup(req) PROVE TypeOK'
  BY <1>0, <1>4 DEF AcceptSetup, TypeOK, Request, SetupAt, SetupStages
<1>5. CASE WriteCheck
  <2>1. row' \in [Key -> Row]
    BY <1>1, <1>3, <1>5 DEF WriteCheck
  <2>2. [setup EXCEPT !.stage = "backend"] \in SetupAt(SetupStages)
    BY <1>0 DEF TypeOK, SetupAt, SetupStages
  <2> QED BY <1>0, <1>5, <2>1, <2>2 DEF WriteCheck, TypeOK
<1>6. CASE WriteBackend
  <2>1. backend' \in Backend \cup {"none"}
    BY <1>0, <1>6 DEF WriteBackend, TypeOK, SetupAt
  <2> QED BY <1>0, <1>2, <1>6, <2>1 DEF WriteBackend, TypeOK
<1>7. CASE WriteAPIKey
  <2>1. row' \in [Key -> Row]
    BY <1>1, <1>3, <1>7 DEF WriteAPIKey
  <2>2. [setup EXCEPT !.given = @ \ {"BreezAPIKey"}] \in SetupAt(SetupStages)
    BY <1>0 DEF TypeOK, SetupAt
  <2> QED BY <1>0, <1>2, <1>7, <2>1, <2>2 DEF WriteAPIKey, TypeOK
<1>8. CASE WriteMnemonic
  <2>1. row' \in [Key -> Row]
    BY <1>1, <1>3, <1>8 DEF WriteMnemonic
  <2>2. [setup EXCEPT !.mnemonic = "none"] \in SetupAt(SetupStages)
    BY <1>0 DEF TypeOK, SetupAt, Phrase
  <2> QED BY <1>0, <1>2, <1>8, <2>1, <2>2 DEF WriteMnemonic, TypeOK
<1>9. CASE WriteNode
  <2>1. row' \in [Key -> Row]
    BY <1>1, <1>3, <1>9 DEF WriteNode
  <2> QED BY <1>0, <1>9, <2>1 DEF WriteNode, TypeOK
<1>10. ASSUME NEW pw \in Password, Start(pw) \/ Unlock(pw) PROVE TypeOK'
  <2>1. starting' \in [stage : {"none", "begun", "launching", "launched"}, password : Password]
    BY <1>0, <1>10 DEF Start, Unlock, TypeOK
  <2> QED BY <1>0, <1>10, <2>1 DEF Start, Unlock, TypeOK
<1>11. CASE StartApp \/ LaunchFails \/ Launched
  BY <1>0, <1>11 DEF StartApp, LaunchFails, Launched, TypeOK
<1>12. CASE SaveCredentials
  <2>1. row' \in [Key -> Row] /\ torn' \in BOOLEAN
    BY <1>0, <1>1, <1>3, <1>12 DEF SaveCredentials, Misflags, TypeOK
  <2> QED BY <1>0, <1>12, <2>1 DEF SaveCredentials, TypeOK
<1>13. CASE InitKeys \/ InitKeysUnread
  <2>1. row' \in [Key -> Row]
    <3>1. CASE UNCHANGED row
      BY <1>0, <3>1 DEF TypeOK
    <3>2. ASSUME NEW s \in Secret,
                 row' = [row EXCEPT !["NostrSecretKey"] = Written(@, s, starting.password)]
          PROVE  row' \in [Key -> Row]
      BY <1>1, <1>3, <3>2
    <3> QED BY <1>13, <3>1, <3>2 DEF InitKeys, InitKeysUnread
  <2>2. torn' \in BOOLEAN
    BY <1>0, <1>13 DEF InitKeys, InitKeysUnread, Misflags, TypeOK
  <2> QED BY <1>0, <1>13, <2>1, <2>2 DEF InitKeys, InitKeysUnread, TypeOK
<1>14. CASE ProcessRestarts
  <2>1. PICK gives \in BOOLEAN : row' = Supplied(row, gives) /\ origin' = OriginOf(origin, gives)
    BY <1>14 DEF ProcessRestarts
  <2>2. row' \in [Key -> Row] /\ Signed(row'["LNDMacaroonHex"], origin')
    BY <1>0, <2>1, SuppliedShape DEF TypeOK, RowShape, Node
  <2> QED BY <1>0, <1>14, <2>2 DEF ProcessRestarts, TypeOK, Signed
<1>15. ASSUME NEW cur \in Password, NEW new \in Password, ChangePassword(cur, new) PROVE TypeOK'
  <2>1. row' \in [Key -> Row]
    BY <1>0, <1>15, RewrittenType DEF ChangePassword, TypeOK
  <2> QED BY <1>0, <1>15, <2>1 DEF ChangePassword, TypeOK
<1>16. CASE Logout \/ Stop \/ StopEnds
  BY <1>0, <1>16 DEF Logout, Stop, StopEnds, TypeOK
<1>17. CASE Restore
  <2>1. PICK pw \in Password, first \in Password, s \in Secret, gives \in BOOLEAN :
          row' = Supplied(Archived(pw, first, s), gives) /\ origin' = OriginOf({}, gives)
    BY <1>17 DEF Restore, Restored
  <2>2. Archived(pw, first, s) \in [Key -> Row] /\ Archived(pw, first, s)["LNDMacaroonHex"] = Absent
    <3>1. \A p \in Password : /\ Written(Absent, "check", p) \in Row
                              /\ Written(Absent, "restored", p) \in Row
                              /\ Written(Absent, s, p) \in Row
      BY <1>0, WrittenType DEF Value
    <3> QED BY <1>0, <3>1 DEF Archived
  <2>3. Signed(Archived(pw, first, s)["LNDMacaroonHex"], {})
    BY <2>2 DEF Signed, Absent
  <2>4. row' \in [Key -> Row] /\ Signed(row'["LNDMacaroonHex"], origin')
    BY <2>1, <2>2, <2>3, SuppliedShape
  <2> QED BY <1>0, <1>17, <2>4 DEF Restore, TypeOK, Signed
<1>18. CASE UNCHANGED hubVars
  BY <1>0, <1>18 DEF hubVars, TypeOK
<1> QED
  BY <1>4, <1>5, <1>6, <1>7, <1>8, <1>9, <1>10, <1>11, <1>12, <1>13, <1>14, <1>15, <1>16, <1>17, <1>18
  DEF HubNext, HubStep, SetupNext, StartNext, InitKeysFails, Backup

(* What a start of the process leaves of the rows.                             *)
LEMMA RestartShape ==
  ASSUME TypeOK, RowShape, ProcessRestarts
  PROVE  /\ RowShape'
         /\ \A k \in Key \ {"LNDMacaroonHex"} : row'[k] = row[k]
         /\ origin \subseteq origin'
         /\ row' = row \/ "environment" \in origin'
         /\ setup' = NoSetup /\ starting' = NoStart /\ torn' = torn
<1> USE DEF Key, Given
<1>1. PICK gives \in BOOLEAN : row' = Supplied(row, gives) /\ origin' = OriginOf(origin, gives)
  BY ConfigAssumption DEF ProcessRestarts
<1>2. /\ \A k \in Key \ {"LNDMacaroonHex"} : row'[k] = row[k]
      /\ Signed(row'["LNDMacaroonHex"], origin')
      /\ ~gives => row' = row /\ origin' = origin
      /\ gives => origin' = origin \cup {"environment"}
  BY <1>1, SuppliedShape DEF TypeOK, RowShape, Node
<1>3. RowShape'
  BY <1>2 DEF RowShape, Check, Node, Signed
<1> QED BY <1>2, <1>3 DEF ProcessRestarts

(* What a backup that is moved in leaves of them.                              *)
LEMMA RestoreShape ==
  ASSUME Restore
  PROVE  /\ RowShape'
         /\ \E pw \in Password :
              /\ row'["UnlockPasswordCheck"] = Written(Absent, "check", pw)
              /\ \A k \in Key \ {"LNDMacaroonHex"} :
                   \E v \in Value \ {"ciphertext"} :
                     \/ row'[k] = Absent
                     \/ \E p \in Password : row'[k] = Written(Absent, v, p) /\ (pw # Empty => p = pw)
         /\ row'["LNDMacaroonHex"] = Absent \/ origin' = {"environment"}
         /\ row'["LNDMacaroonHex"].value # "ciphertext"
         /\ setup' = NoSetup /\ starting' = NoStart /\ torn' = FALSE
<1> USE ConfigAssumption DEF Key, Given
<1>1. PICK pw \in Password, first \in Password, s \in Secret, gives \in BOOLEAN :
        row' = Supplied(Archived(pw, first, s), gives) /\ origin' = OriginOf({}, gives)
  BY DEF Restore, Restored
<1> DEFINE rows == Archived(pw, first, s)
<1>2. Absent \in Row
  BY DEF Absent, Row, Value
<1>3. \A p \in Password : /\ Written(Absent, "check", p) \in Row
                          /\ Written(Absent, "restored", p) \in Row
                          /\ Written(Absent, s, p) \in Row
  BY <1>2, WrittenType DEF Value
<1>4. rows \in [Key -> Row] /\ rows["LNDMacaroonHex"] = Absent
  BY <1>2, <1>3 DEF Archived
<1>5. /\ \A k \in Key \ {"LNDMacaroonHex"} : row'[k] = rows[k]
      /\ Signed(row'["LNDMacaroonHex"], origin')
      /\ ~gives => row' = rows /\ origin' = {}
      /\ gives => origin' = {"environment"}
  <2>1. Signed(rows["LNDMacaroonHex"], {})
    BY <1>4 DEF Signed, Absent
  <2> HIDE DEF rows
  <2> QED BY <1>1, <1>4, <2>1, SuppliedShape DEF rows
<1>6. \A k \in Key \ {"LNDMacaroonHex"} :
        \E v \in Value \ {"ciphertext"} :
          \/ rows[k] = Absent
          \/ \E p \in Password : rows[k] = Written(Absent, v, p) /\ (pw # Empty => p = pw)
  <2>1. /\ rows["UnlockPasswordCheck"] = Written(Absent, "check", pw)
        /\ rows["Mnemonic"] = Written(Absent, "restored", pw)
        /\ rows["NostrSecretKey"] = Written(Absent, s, IF pw = Empty THEN first ELSE pw)
        /\ rows["GreenlightCreds"] = Absent /\ rows["BreezAPIKey"] = Absent
    BY DEF Archived
  <2>2. {"check", "restored", s} \subseteq Value \ {"ciphertext"}
    BY DEF Value
  <2> QED BY <2>1, <2>2
<1>7. row'["UnlockPasswordCheck"] = Written(Absent, "check", pw)
  BY <1>5 DEF Archived
<1>8. RowShape'
  <2>1. \A k \in Key : row'[k].value = "none" => row'[k] = Absent
    <3>1. ASSUME NEW k \in Key \ {"LNDMacaroonHex"}, row'[k].value = "none" PROVE row'[k] = Absent
      <4>1. rows[k] = Absent \/ rows[k].value \in {"check", "restored", s}
        BY WrittenAbsent DEF Archived
      <4> QED BY <1>5, <3>1, <4>1
    <3>2. row'["LNDMacaroonHex"].value = "none" => row'["LNDMacaroonHex"] = Absent
      BY <1>5 DEF Signed
    <3> QED BY <3>1, <3>2
  <2>2. row'["UnlockPasswordCheck"].value = "check"
    BY <1>7, WrittenAbsent
  <2> QED BY <1>5, <2>1, <2>2 DEF RowShape, Check, Node
<1>9. row'["LNDMacaroonHex"] = Absent \/ origin' = {"environment"}
  BY <1>4, <1>5
<1>10. row'["LNDMacaroonHex"].value # "ciphertext"
  BY <1>4, <1>5 DEF Absent, Signed
<1>11. setup' = NoSetup /\ starting' = NoStart /\ torn' = FALSE
  BY DEF Restore
<1> QED BY <1>5, <1>6, <1>7, <1>8, <1>9, <1>10, <1>11

(* No step forgets who wrote a row, or leaves a setup with a row that is there.*)
LEMMA NextShape == HubInv /\ [HubNext]_hubVars => RowShape' /\ SetupShape'
<1> SUFFICES ASSUME HubInv, [HubNext]_hubVars PROVE RowShape' /\ SetupShape'
  OBVIOUS
<1> USE ConfigAssumption DEF Check, Node, Key, Given, Rows, Signed
<1>0. /\ TypeOK /\ RowShape /\ SetupShape
      /\ "none" \notin Secret
      /\ row \in [Key -> Row] /\ \A k \in Key : row[k] \in Row
      /\ setup \in SetupAt(SetupStages)
  BY DEF HubInv, TypeOK
<1>1. ASSUME UNCHANGED <<row, origin, setup>>, torn' = torn PROVE RowShape' /\ SetupShape'
  BY <1>0, <1>1 DEF RowShape, SetupShape
<1>2. ASSUME NEW k \in Key \ {"UnlockPasswordCheck", "LNDMacaroonHex"}, NEW v, v # "none", NEW pw,
             row' = [row EXCEPT ![k] = Written(@, v, pw)], UNCHANGED origin
      PROVE  /\ RowShape'
             /\ \A j \in Key \ {k} : row'[j] = row[j]
  BY <1>0, <1>2 DEF RowShape, Written
<1>3. ASSUME NEW req \in Request, AcceptSetup(req) PROVE RowShape' /\ SetupShape'
  BY <1>0, <1>3 DEF AcceptSetup, RowShape, SetupShape, Request, SetupAt
<1>4. CASE WriteCheck
  <2>1. /\ \A k \in Key \ {"UnlockPasswordCheck"} : row'[k] = row[k]
        /\ row'["UnlockPasswordCheck"].value = "check"
        /\ setup' = [setup EXCEPT !.stage = "backend"] /\ origin' = origin
    BY <1>0, <1>4 DEF WriteCheck, Written
  <2>2. RowShape'
    BY <1>0, <2>1 DEF RowShape
  <2>3. ~torn' => Protected = {}
    BY <1>4 DEF WriteCheck
  <2>4. Protected = {} => /\ \A k \in Key \ {"UnlockPasswordCheck", "LNDMacaroonHex"} : row[k].value = "none"
                          /\ "setup" \in origin => row["LNDMacaroonHex"].value = "none"
    BY DEF Protected
  <2>5. setup'.given = setup.given /\ setup'.mnemonic = setup.mnemonic
    BY <1>0, <2>1 DEF SetupAt
  <2>6. Signed(row["LNDMacaroonHex"], origin)
    BY <1>0 DEF RowShape
  <2>7. ~torn' => /\ row'["BreezAPIKey"].value = "none"
                  /\ row'["Mnemonic"].value = "none"
    BY <2>1, <2>3, <2>4, <2>6 DEF Signed
  <2>8. ~torn' => "setup" \notin origin'
    BY <2>1, <2>3, <2>4, <2>6 DEF Signed
  <2>9. SetupShape'
    BY <2>1, <2>5, <2>6, <2>7, <2>8 DEF SetupShape
  <2> QED BY <2>2, <2>9
<1>5. CASE WriteBackend
  BY <1>0, <1>5 DEF WriteBackend, Rest, NoSetup, RowShape, SetupShape, SetupAt
<1>6. CASE WriteAPIKey
  <2>1. RowShape' /\ \A j \in Key \ {"BreezAPIKey"} : row'[j] = row[j]
    BY <1>2, <1>6 DEF WriteAPIKey
  <2> QED BY <1>0, <1>6, <2>1 DEF WriteAPIKey, Rest, NoSetup, SetupShape, SetupAt
<1>7. CASE WriteMnemonic
  <2>1. RowShape' /\ \A j \in Key \ {"Mnemonic"} : row'[j] = row[j]
    BY <1>2, <1>7 DEF WriteMnemonic
  <2> QED BY <1>0, <1>7, <2>1 DEF WriteMnemonic, Rest, NoSetup, SetupShape, SetupAt
<1>8. CASE WriteNode
  BY <1>0, <1>8 DEF WriteNode, Written, NoSetup, RowShape, SetupShape, TypeOK
<1>9. CASE StartApp \/ LaunchFails \/ Launched \/ Logout \/ Stop \/ StopEnds \/ UNCHANGED hubVars
  BY <1>1, <1>9 DEF StartApp, LaunchFails, Launched, Logout, Stop, StopEnds, hubVars
<1>10. ASSUME NEW pw \in Password, Start(pw) \/ Unlock(pw) PROVE RowShape' /\ SetupShape'
  BY <1>1, <1>10 DEF Start, Unlock
<1>11. CASE SaveCredentials
  <2>1. RowShape' /\ \A j \in Key \ {"GreenlightCreds"} : row'[j] = row[j]
    BY <1>2, <1>11 DEF SaveCredentials
  <2> QED BY <1>0, <1>11, <2>1 DEF SaveCredentials, SetupShape
<1>12. CASE InitKeys \/ InitKeysUnread
  <2>1. CASE UNCHANGED row
    BY <1>0, <1>12, <2>1 DEF InitKeys, InitKeysUnread, RowShape, SetupShape
  <2>2. ASSUME NEW s \in Secret,
               row' = [row EXCEPT !["NostrSecretKey"] = Written(@, s, starting.password)]
        PROVE  RowShape' /\ SetupShape'
    <3>1. UNCHANGED <<setup, origin>> /\ (~torn' => ~torn)
      <4>1. CASE InitKeys
        BY <4>1 DEF InitKeys
      <4>2. CASE InitKeysUnread
        BY <4>2 DEF InitKeysUnread
      <4> QED BY <1>12, <4>1, <4>2
    <3>2. RowShape' /\ \A j \in Key \ {"NostrSecretKey"} : row'[j] = row[j]
      BY <1>0, <1>2, <2>2, <3>1
    <3> QED BY <1>0, <3>1, <3>2 DEF SetupShape
  <2> QED BY <1>12, <2>1, <2>2 DEF InitKeys, InitKeysUnread
<1>13. CASE ProcessRestarts
  BY <1>0, <1>13, RestartShape DEF SetupShape, NoSetup
<1>14. ASSUME NEW cur \in Password, NEW new \in Password, ChangePassword(cur, new)
       PROVE  RowShape' /\ SetupShape'
  <2>1. ASSUME NEW k \in Key, row[k].value = "none" PROVE row'[k] = row[k] /\ row'[k] = Absent
    <3>1. row[k] = Absent
      BY <1>0, <2>1 DEF RowShape
    <3>2. ~row[k].encrypted
      BY <3>1 DEF Absent
    <3> QED BY <1>14, <3>1, <3>2 DEF ChangePassword
  <2>2. \A k \in Key : row[k].value # "none" => row'[k].value # "none"
    BY <1>0, <1>14 DEF ChangePassword, Rewritten, Written, Read
  <2>3. row'["UnlockPasswordCheck"].value = row["UnlockPasswordCheck"].value
    <3>1. CASE ~Check.encrypted
      BY <1>0, <1>14, <3>1 DEF ChangePassword
    <3>2. CASE Check.encrypted
      <4>1. cur = Check.key /\ Check.value = "check"
        BY <1>0, <1>14, <3>2, AcceptedIsKey DEF ChangePassword
      <4>2. Read(Check, cur) = "check"
        BY <1>0, <3>2, <4>1 DEF Read
      <4> QED BY <1>0, <1>14, <3>2, <4>1, <4>2 DEF ChangePassword, Rewritten, Written
    <3> QED BY <3>1, <3>2
  <2>4. ~row["LNDMacaroonHex"].encrypted => row'["LNDMacaroonHex"] = row["LNDMacaroonHex"]
    BY <1>14 DEF ChangePassword
  <2>5. UNCHANGED <<origin, setup>> /\ (~torn' => setup = NoSetup)
    BY <1>14 DEF ChangePassword
  <2>6. RowShape'
    BY <1>0, <2>1, <2>2, <2>3, <2>4, <2>5 DEF RowShape
  <2> QED BY <1>0, <2>3, <2>5, <2>6 DEF SetupShape, NoSetup
<1>15. CASE Restore
  BY <1>15, RestoreShape DEF SetupShape, NoSetup
<1> QED
  BY <1>3, <1>4, <1>5, <1>6, <1>7, <1>8, <1>9, <1>10, <1>11, <1>12, <1>13, <1>14, <1>15
  DEF HubNext, HubStep, SetupNext, StartNext, InitKeysFails, Backup

(* The password stays one.                                                     *)
LEMMA NextOnePassword == HubInv /\ [HubNext]_hubVars => OnePassword'
<1> DEFINE Goal == /\ \A k \in Key \ Mixed' : Sound(row[k])'
                   /\ Working' => (starting.password = Check.key)'
                   /\ setup'.stage \in Rows => (setup.password = Check.key)'
<1> SUFFICES ASSUME HubInv, [HubNext]_hubVars, (Check.encrypted /\ ~torn)' PROVE Goal
  BY DEF OnePassword
<1> USE ConfigAssumption DEF Check, Key, Given, Rows
<1>0. /\ TypeOK /\ RowShape /\ SetupShape /\ OnePassword
      /\ "none" \notin Secret /\ "ciphertext" \notin Secret
      /\ row \in [Key -> Row] /\ \A k \in Key : row[k] \in Row
      /\ \A k \in Key : row[k].value = "none" => row[k] = Absent
      /\ setup \in SetupAt(SetupStages)
  BY DEF HubInv, TypeOK, RowShape
(* A step that writes one row with the password of the check row.              *)
<1>1. ASSUME NEW k \in Key \ {"UnlockPasswordCheck", "LNDMacaroonHex"}, NEW v, v # "ciphertext",
             NEW pw, row' = [row EXCEPT ![k] = Written(@, v, pw)],
             Check.encrypted, ~torn, pw = Check.key, ~Misflags(row[k], pw), UNCHANGED origin
      PROVE  \A j \in Key \ Mixed' : Sound(row[j])'
  <2>1. k \notin Mixed /\ Sound(row[k])
    BY <1>0, <1>1 DEF Mixed, OnePassword
  <2>2. Sound(Written(row[k], v, pw))
    BY <1>0, <1>1, <2>1, WrittenSound
  <2>3. row'[k] = Written(row[k], v, pw) /\ \A j \in Key \ {k} : row'[j] = row[j]
    BY <1>0, <1>1
  <2>4. Mixed' = Mixed
    BY <1>1 DEF Mixed
  <2>5. \A j \in Key \ Mixed : Sound(row[j])
    BY <1>0, <1>1 DEF OnePassword
  <2> QED BY <2>2, <2>3, <2>4, <2>5 DEF Sound
<1>2. ASSUME NEW req \in Request, AcceptSetup(req) PROVE Goal
  BY <1>0, <1>2 DEF AcceptSetup, OnePassword, Sound, Mixed, Working, SetupAt, Request
<1>3. CASE WriteCheck
  <2>1. ~torn /\ ~Working /\ Protected = {}
    BY <1>3 DEF WriteCheck
  <2>2. /\ \A k \in Key \ {"UnlockPasswordCheck", "LNDMacaroonHex"} : row[k].value = "none"
        /\ row["LNDMacaroonHex"].value = "none" \/ "setup" \notin origin
    BY <2>1 DEF Protected
  <2>3. /\ \A k \in Key \ {"UnlockPasswordCheck"} : row'[k] = row[k]
        /\ row'["UnlockPasswordCheck"] = Written(row["UnlockPasswordCheck"], "check", setup.password)
        /\ setup' = [setup EXCEPT !.stage = "backend"] /\ UNCHANGED <<origin, starting>>
    BY <1>0, <1>3 DEF WriteCheck
  <2>4. row'["UnlockPasswordCheck"].key = setup.password /\ row'["UnlockPasswordCheck"].value = "check"
    BY <2>3 DEF Written
  <2>5. Sound(row["LNDMacaroonHex"])'
    <3>1. "setup" \notin origin => origin = {} \/ origin = {"environment"}
      BY <1>0 DEF TypeOK
    <3>2. row["LNDMacaroonHex"].value = "none" \/ origin = {"environment"}
      BY <1>0, <2>2, <3>1 DEF RowShape, Node, Signed
    <3> QED BY <1>0, <2>3, <3>2 DEF RowShape, Node, Signed, Sound
  <2>6. \A k \in Key \ {"LNDMacaroonHex"} : Sound(row[k])'
    BY <2>2, <2>3, <2>4 DEF Sound
  <2>7. setup'.password = setup.password
    BY <1>0, <2>3 DEF SetupAt
  <2> QED BY <1>0, <2>1, <2>3, <2>4, <2>5, <2>6, <2>7 DEF Working
<1>4. CASE WriteBackend
  BY <1>0, <1>4 DEF WriteBackend, Rest, NoSetup, OnePassword, Sound, Mixed, Working, SetupAt
<1>5. CASE WriteAPIKey \/ WriteMnemonic
  <2>1. Check.encrypted /\ ~torn /\ setup.password = Check.key
    BY <1>0, <1>5 DEF WriteAPIKey, WriteMnemonic, OnePassword
  <2>2. setup'.stage \in Rows => setup'.password = setup.password
    <3>1. CASE WriteAPIKey
      BY <1>0, <3>1 DEF WriteAPIKey, Rest, NoSetup, SetupAt
    <3>2. CASE WriteMnemonic
      BY <1>0, <3>2 DEF WriteMnemonic, Rest, NoSetup, SetupAt
    <3> QED BY <1>5, <3>1, <3>2
  <2>3. UNCHANGED <<row["UnlockPasswordCheck"], starting, origin>>
    BY <1>0, <1>5 DEF WriteAPIKey, WriteMnemonic
  <2>4. \A k \in Key \ Mixed' : Sound(row[k])'
    <3>1. CASE WriteAPIKey
      <4>1. row["BreezAPIKey"].value = "none"
        BY <1>0, <2>1, <3>1 DEF WriteAPIKey, SetupShape
      <4> QED BY <1>1, <2>1, <2>3, <3>1, <4>1 DEF WriteAPIKey, Misflags
    <3>2. CASE WriteMnemonic
      <4>1. row["Mnemonic"].value = "none" /\ setup.mnemonic # "ciphertext"
        BY <1>0, <2>1, <3>2 DEF WriteMnemonic, SetupShape, SetupAt, Phrase
      <4> QED BY <1>1, <2>1, <2>3, <3>2, <4>1 DEF WriteMnemonic, Misflags
    <3> QED BY <1>5, <3>1, <3>2
  <2> QED BY <1>0, <2>1, <2>2, <2>3, <2>4 DEF OnePassword, Working
<1>6. CASE WriteNode
  <2>1. Check.encrypted /\ ~torn /\ setup.password = Check.key /\ "setup" \notin origin
    BY <1>0, <1>6 DEF WriteNode, OnePassword, SetupShape
  <2>2. /\ \A k \in Key \ {"LNDMacaroonHex"} : row'[k] = row[k]
        /\ row'["LNDMacaroonHex"] = Written(row["LNDMacaroonHex"], "given", setup.password)
        /\ setup' = NoSetup /\ origin' = origin \cup {"setup"} /\ UNCHANGED starting
    BY <1>0, <1>6 DEF WriteNode
  <2>3. "LNDMacaroonHex" \notin Mixed' => Sound(row["LNDMacaroonHex"])'
    <3>1. CASE origin = {}
      <4>1. row["LNDMacaroonHex"] = Absent
        BY <1>0, <3>1 DEF RowShape, Node, Signed
      <4>2. /\ row'["LNDMacaroonHex"].value = "given"
            /\ row'["LNDMacaroonHex"].key = setup.password
            /\ row'["LNDMacaroonHex"].encrypted <=> setup.password # Empty
        BY <2>2, <4>1, WrittenAbsent
      <4>3. row'["UnlockPasswordCheck"] = row["UnlockPasswordCheck"]
        BY <2>2
      <4> QED BY <2>1, <4>2, <4>3 DEF Sound
    <3>2. CASE origin # {}
      <4>1. origin' = {"setup", "environment"}
        <5>1. origin \subseteq {"setup", "environment"}
          BY <1>0 DEF TypeOK
        <5>2. "environment" \in origin
          BY <2>1, <3>2, <5>1
        <5> QED BY <2>2, <5>1, <5>2
      <4> QED BY <4>1 DEF Mixed
    <3> QED BY <3>1, <3>2
  <2>4. \A k \in Key \ {"LNDMacaroonHex"} : Sound(row[k])'
    <3>1. \A k \in Key \ {"LNDMacaroonHex"} : Sound(row[k])
      BY <1>0, <2>1 DEF OnePassword, Mixed
    <3> QED BY <2>2, <3>1 DEF Sound
  <2> QED BY <1>0, <2>1, <2>2, <2>3, <2>4 DEF OnePassword, Working, NoSetup
<1>7. ASSUME NEW pw \in Password, Start(pw) \/ Unlock(pw) PROVE Goal
  BY <1>0, <1>7 DEF Start, Unlock, OnePassword, Sound, Mixed, Working, NoStart
<1>8. CASE StartApp
  <2>1. Check.encrypted /\ ~torn
    BY <1>8 DEF StartApp
  <2>2. ~running /\ Accepts(starting.password) => starting.password = Check.key
    BY <1>0, <2>1, AcceptedIsKey DEF TypeOK
  <2> QED BY <1>0, <1>8, <2>1, <2>2 DEF StartApp, OnePassword, Sound, Mixed, Working, NoStart, TypeOK
<1>9. CASE LaunchFails \/ Launched
  BY <1>0, <1>9 DEF LaunchFails, Launched, OnePassword, Sound, Mixed, Working, NoStart, TypeOK
<1>10. CASE SaveCredentials
  <2>1. /\ Check.encrypted /\ ~torn /\ starting.password = Check.key
        /\ ~Misflags(row["GreenlightCreds"], starting.password)
        /\ UNCHANGED <<row["UnlockPasswordCheck"], starting, setup, origin>>
    BY <1>0, <1>10 DEF SaveCredentials, OnePassword, Working
  <2>2. \A k \in Key \ Mixed' : Sound(row[k])'
    BY <1>1, <1>10, <2>1 DEF SaveCredentials
  <2> QED BY <1>0, <2>1, <2>2 DEF OnePassword, Working
<1>11. CASE InitKeys \/ InitKeysUnread
  <2>1. /\ Check.encrypted /\ ~torn /\ starting.password = Check.key
        /\ UNCHANGED <<row["UnlockPasswordCheck"], setup, origin>> /\ starting' = NoStart
    <3>1. CASE InitKeys
      BY <1>0, <3>1 DEF InitKeys, OnePassword, Working
    <3>2. CASE InitKeysUnread
      BY <1>0, <3>2 DEF InitKeysUnread, OnePassword, Working
    <3> QED BY <1>11, <3>1, <3>2
  <2>2. "NostrSecretKey" \notin Mixed /\ Sound(row["NostrSecretKey"])
    BY <1>0, <2>1 DEF OnePassword, Mixed
  <2>3. \A k \in Key \ Mixed' : Sound(row[k])'
    <3>1. CASE UNCHANGED row
      BY <1>0, <2>1, <3>1 DEF OnePassword, Sound, Mixed
    <3>2. ASSUME NEW s \in Secret, ~Misflags(row["NostrSecretKey"], starting.password),
                 row' = [row EXCEPT !["NostrSecretKey"] = Written(@, s, starting.password)]
          PROVE  \A k \in Key \ Mixed' : Sound(row[k])'
      BY <1>0, <1>1, <2>1, <3>2
    <3>3. CASE InitKeys
      <4>1. Read(row["NostrSecretKey"], starting.password) = row["NostrSecretKey"].value
        BY <1>0, <2>1, <2>2, SoundIsRead
      <4>2. row["NostrSecretKey"].value # "error"
        BY <1>0 DEF Row, Value
      <4> QED BY <3>1, <3>2, <3>3, <4>1, <4>2 DEF InitKeys, Misflags
    <3>4. CASE InitKeysUnread
      BY <3>2, <3>4 DEF InitKeysUnread
    <3> QED BY <1>11, <3>3, <3>4
  <2> QED BY <1>0, <2>1, <2>3 DEF OnePassword, Working, NoStart
<1>12. CASE ProcessRestarts
  <2>1. /\ \A k \in Key \ {"LNDMacaroonHex"} : row'[k] = row[k]
        /\ origin \subseteq origin' /\ RowShape'
        /\ row' = row \/ "environment" \in origin'
        /\ setup' = NoSetup /\ starting' = NoStart /\ torn' = torn
    BY <1>0, <1>12, RestartShape
  <2>2. Check.encrypted /\ ~torn /\ \A k \in Key \ Mixed : Sound(row[k])
    BY <1>0, <2>1 DEF OnePassword
  <2>3. origin' \subseteq {"setup", "environment"}
    BY NextTypeOK DEF TypeOK
  <2>4. \A k \in Key \ {"LNDMacaroonHex"} : Sound(row[k])'
    BY <2>1, <2>2 DEF Sound, Mixed
  <2>5. "LNDMacaroonHex" \notin Mixed' => Sound(row["LNDMacaroonHex"])'
    <3>1. CASE row' = row
      BY <2>1, <2>2, <2>3, <3>1 DEF Mixed, Sound
    <3>2. CASE "setup" \in origin' /\ "environment" \in origin'
      BY <2>3, <3>2 DEF Mixed
    <3>3. CASE origin' = {"environment"}
      <4>1. ~row'["LNDMacaroonHex"].encrypted /\ row'["LNDMacaroonHex"].key = Empty
        BY <2>1, <3>3 DEF RowShape, Node, Signed
      <4>2. row'["LNDMacaroonHex"].value # "ciphertext"
        BY <2>1, <3>3 DEF RowShape, Node, Signed
      <4> QED BY <4>1, <4>2 DEF Sound
    <3> QED BY <2>1, <2>3, <3>1, <3>2, <3>3
  <2> QED BY <2>1, <2>4, <2>5 DEF Working, NoStart, NoSetup
<1>13. ASSUME NEW cur \in Password, NEW new \in Password, ChangePassword(cur, new) PROVE Goal
  <2>1. Check.encrypted
    BY <1>0, <1>13 DEF ChangePassword
  <2>2. cur = Check.key /\ ~torn /\ ~Working /\ setup = NoSetup /\ origin' = origin
    BY <1>0, <1>13, <2>1, AcceptedIsKey DEF ChangePassword
  <2>3. ASSUME NEW k \in Key \ Mixed PROVE Sound(row[k])'
    <3>1. Sound(row[k]) /\ Sound(Check)
      BY <1>0, <2>1, <2>2 DEF OnePassword, Mixed
    <3>2. Read(row[k], cur) = row[k].value
      BY <1>0, <2>2, <3>1, SoundIsRead
    <3>3. row'["UnlockPasswordCheck"].key = new
      BY <1>0, <1>13, <2>1, <2>2, <3>1, SoundIsRead DEF ChangePassword, Rewritten, Written
    <3>4. CASE row[k].encrypted
      BY <1>0, <1>13, <2>2, <3>1, <3>2, <3>3, <3>4
      DEF ChangePassword, Rewritten, Written, Sound, RowShape, Absent
    <3>5. CASE ~row[k].encrypted
      BY <1>0, <1>13, <3>1, <3>5 DEF ChangePassword, Sound
    <3> QED BY <3>4, <3>5
  <2> QED BY <1>0, <1>13, <2>2, <2>3 DEF ChangePassword, Working, NoSetup, Mixed
<1>14. CASE Logout \/ Stop \/ StopEnds \/ UNCHANGED hubVars
  BY <1>0, <1>14 DEF Logout, Stop, StopEnds, hubVars, OnePassword, Sound, Mixed, Working
<1>15. CASE Restore
  <2>1. RowShape' /\ setup' = NoSetup /\ starting' = NoStart /\ torn' = FALSE
    BY <1>15, RestoreShape
  <2>2. PICK pw \in Password :
          /\ row'["UnlockPasswordCheck"] = Written(Absent, "check", pw)
          /\ \A k \in Key \ {"LNDMacaroonHex"} :
               \E v \in Value \ {"ciphertext"} :
                 \/ row'[k] = Absent
                 \/ \E p \in Password : row'[k] = Written(Absent, v, p) /\ (pw # Empty => p = pw)
    BY <1>15, RestoreShape
  <2>3. row'["UnlockPasswordCheck"].key = pw /\ pw # Empty
    BY <2>2, WrittenAbsent
  <2>4. ASSUME NEW k \in Key \ {"LNDMacaroonHex"} PROVE Sound(row[k])'
    <3>1. CASE row'[k] = Absent
      BY <3>1 DEF Sound, Absent
    <3>2. ASSUME NEW v \in Value \ {"ciphertext"}, row'[k] = Written(Absent, v, pw) PROVE Sound(row[k])'
      <4>1. row'[k].value = v /\ row'[k].key = pw /\ row'[k].encrypted
        BY <2>3, <3>2, WrittenAbsent
      <4> QED BY <2>3, <4>1 DEF Sound
    <3> QED BY <2>2, <2>3, <3>1, <3>2
  <2>5. Sound(row["LNDMacaroonHex"])'
    <3>1. row'["LNDMacaroonHex"] = Absent \/ origin' = {"environment"}
      BY <1>15, RestoreShape
    <3>2. row'["LNDMacaroonHex"].value # "ciphertext"
      BY <1>15, RestoreShape
    <3> QED BY <2>1, <3>1, <3>2 DEF RowShape, Node, Signed, Sound, Absent
  <2> QED BY <2>1, <2>4, <2>5 DEF Working, NoStart, NoSetup
<1> QED
  BY <1>2, <1>3, <1>4, <1>5, <1>6, <1>7, <1>8, <1>9, <1>10, <1>11, <1>12, <1>13, <1>14, <1>15
  DEF HubNext, HubStep, SetupNext, StartNext, InitKeysFails, Backup

(* The invariant behind the theorems, from its parts.                          *)
LEMMA HubInvariant == HubSpec => []HubInv
<1>1. HubInit => HubInv
  BY InitHubInv
<1>2. HubInv /\ [HubNext]_hubVars => HubInv'
  BY NextTypeOK, NextShape, NextOnePassword DEF HubInv
<1> QED BY <1>1, <1>2, PTL DEF HubSpec

--------------------------------------------------------------------------------
(* Every variable of the hub keeps its type, whatever was typed, preset and    *)
(* drawn.                                                                      *)
THEOREM TypeCorrect == HubSpec => []TypeOK
<1>1. HubInv => TypeOK
  BY DEF HubInv
<1> QED BY <1>1, HubInvariant, PTL

(* The argument of Readable, in one state.                                     *)
LEMMA InvReadable == HubInv => CheckedMeansReadable
<1> SUFFICES ASSUME HubInv, Check.encrypted, ~torn, NEW pw \in Password, Accepts(pw),
                    NEW k \in Key \ Mixed
             PROVE  Read(row[k], pw) = row[k].value /\ row[k].value # "ciphertext"
  BY DEF CheckedMeansReadable
<1>1. pw = Check.key
  BY AcceptedIsKey DEF HubInv
<1>2. row[k] \in Row /\ Sound(row[k])
  BY DEF HubInv, TypeOK, OnePassword
<1>3. Read(row[k], pw) = row[k].value
  BY <1>1, <1>2, SoundIsRead
<1>4. row[k].value # "ciphertext"
  BY <1>2 DEF Sound
<1> QED BY <1>3, <1>4

(* A password the hub accepts reads every row (config.go, CheckUnlockPassword  *)
(* against get): the check row vouches for the seed, for the identity and for  *)
(* what a node was given, but for a row that the environment wrote as well.    *)
THEOREM Readable == HubSpec => []CheckedMeansReadable
BY InvReadable, HubInvariant, PTL

(* No step replaces the identity of a hub that has one password, but one after *)
(* a read that failed.                                                         *)
LEMMA StepKeepsIdentity ==
  ASSUME HubInv, [HubNext]_hubVars, Check.encrypted, ~torn, row["NostrSecretKey"].value # "none"
  PROVE  \/ row'["NostrSecretKey"].value = row["NostrSecretKey"].value
         \/ InitKeysUnread \/ Restored(BOOLEAN)
<1> DEFINE Kept == row'["NostrSecretKey"].value = row["NostrSecretKey"].value
<1> USE ConfigAssumption DEF Check, Key, Given
<1>0. /\ TypeOK /\ RowShape /\ SetupShape /\ OnePassword
      /\ row \in [Key -> Row] /\ \A k \in Key : row[k] \in Row
  BY DEF HubInv, TypeOK
<1>1. Sound(row["NostrSecretKey"])
  BY <1>0 DEF OnePassword, Mixed
<1>2. CASE WriteCheck \/ WriteAPIKey \/ WriteMnemonic \/ WriteNode \/ SaveCredentials
  BY <1>0, <1>2 DEF WriteCheck, WriteAPIKey, WriteMnemonic, WriteNode, SaveCredentials
<1>3. CASE InitKeys
  <2>1. starting.password = Check.key
    BY <1>0, <1>3 DEF OnePassword, Working, InitKeys
  <2>2. Read(row["NostrSecretKey"], starting.password) = row["NostrSecretKey"].value
    BY <1>0, <1>1, <2>1, SoundIsRead
  <2>3. row["NostrSecretKey"].value # "error"
    BY <1>0 DEF Row, Value
  <2> QED BY <1>3, <2>2, <2>3 DEF InitKeys
<1>4. ASSUME NEW cur \in Password, NEW new \in Password, ChangePassword(cur, new) PROVE Kept
  <2>1. cur = Check.key
    BY <1>0, <1>4, AcceptedIsKey DEF ChangePassword
  <2>2. Read(row["NostrSecretKey"], cur) = row["NostrSecretKey"].value
    BY <1>0, <1>1, <2>1, SoundIsRead
  <2> QED BY <1>0, <1>4, <2>2 DEF ChangePassword, Rewritten, Written
<1>5. CASE ProcessRestarts
  BY <1>0, <1>5, RestartShape
<1>6. CASE Restore
  BY <1>6 DEF Restore, Restored
<1>7. CASE \/ \E req \in Request : AcceptSetup(req)
           \/ WriteBackend \/ StartApp \/ LaunchFails \/ Launched
           \/ \E pw \in Password : Start(pw) \/ Unlock(pw)
           \/ Logout \/ Stop \/ StopEnds \/ UNCHANGED hubVars
  BY <1>7 DEF AcceptSetup, WriteBackend, StartApp, LaunchFails, Launched, Start, Unlock, Logout,
              Stop, StopEnds, hubVars
<1> QED
  BY <1>2, <1>3, <1>4, <1>5, <1>6, <1>7
  DEF HubNext, HubStep, SetupNext, StartNext, InitKeysFails, Backup

(* The wallet keeps its Nostr identity: keys.Init, which draws a new key when   *)
(* it cannot read the old one, has the password of it; it replaces it when the *)
(* database fails that read.                                                   *)
THEOREM Identity == HubSpec => IdentityStable
<1>1. HubInv /\ [HubNext]_hubVars =>
        [Check.encrypted /\ ~torn /\ row["NostrSecretKey"].value # "none"
           => \/ row'["NostrSecretKey"].value = row["NostrSecretKey"].value
              \/ InitKeysUnread \/ Restored(BOOLEAN)]_hubVars
  BY StepKeepsIdentity
<1> QED BY <1>1, HubInvariant, PTL DEF HubSpec, IdentityStable

(* ChangeUnlockPassword, which answers without an error, has changed it.       *)
LEMMA StepChangesPassword ==
  ASSUME HubInv, NEW cur \in Password, NEW new \in Password, Check.encrypted,
         ChangePassword(cur, new)
  PROVE  Accepts(new)' /\ (Accepts(cur)' => cur = new)
<1> USE ConfigAssumption DEF Check, Key
<1>0. /\ TypeOK /\ RowShape
      /\ \A k \in Key : row[k] \in Row
  BY DEF HubInv, TypeOK
<1>1. cur = Check.key /\ Check.value = "check"
  BY <1>0, AcceptedIsKey DEF ChangePassword
<1>2. Read(Check, cur) = "check"
  BY <1>0, <1>1 DEF Read
<1>3. row'["UnlockPasswordCheck"] = Rewritten(Check, cur, new)
  BY DEF ChangePassword
<1>4. /\ row'["UnlockPasswordCheck"].value = "check"
      /\ row'["UnlockPasswordCheck"].key = new
      /\ row'["UnlockPasswordCheck"].encrypted
  BY <1>0, <1>1, <1>2, <1>3 DEF Rewritten, Written
<1> QED BY <1>4 DEF Accepts, Read

(* A change of the password (config.go, ChangeUnlockPassword) that is answered *)
(* without an error leaves a hub that opens with the new password only.        *)
THEOREM NewPassword == HubSpec => NewPasswordOpens
<1>1. HubInv /\ [HubNext]_hubVars =>
        [\A cur, new \in Password : Check.encrypted /\ ChangePassword(cur, new) =>
           Accepts(new)' /\ (Accepts(cur)' => cur = new)]_hubVars
  BY StepChangesPassword
<1> QED BY <1>1, HubInvariant, PTL DEF HubSpec, NewPasswordOpens
================================================================================
