-------------------------- MODULE RestoreFilesProofs --------------------------
(* Proofs about RestoreFiles, for any files, archives, number of restores and  *)
(* of crashes.                                                                 *)
EXTENDS RestoreFiles, TLAPS

(* What a file has to hold after restore n, and where all files of a name do.  *)
Expected(n, f) == IF f \in request[n].archive THEN Whole(n) ELSE Absent
There(n, t, dir) == \A f \in File : Top[f] = t => dir[f] = Expected(n, f)
Gone(t, dir) == \A f \in File : Top[f] = t => dir[f] = Absent
InArchive(n, t) == \E f \in File : f \in request[n].archive /\ Top[f] = t

(* Nothing is unpacked while the process is not up.                            *)
Quiet == process # "up" => \A n \in Id : ~Active(n)

(* A restore that has the directory to itself leaves there what it wrote.      *)
Unpacks ==
  \A n \in Id : ~mixed /\ request[n].state \in {"unpacking", "writing"} =>
    /\ accepted = 0 /\ request[n].archive \in Archive
    /\ request[n].left \subseteq request[n].archive
    /\ \A m \in Id : Active(m) => m = n
    /\ request[n].state = "writing" => request[n].file \in request[n].archive \ request[n].left
    /\ \A f \in File : restore[f] =
         IF f \notin request[n].archive \/ f \in request[n].left THEN Absent
         ELSE IF request[n].state = "writing" /\ f = request[n].file THEN Cut(n) ELSE Whole(n)

(* One that was answered has written all of its archive.                       *)
Answers ==
  \A n \in Id : ~mixed /\ request[n].state = "answered" =>
    /\ accepted = n /\ request[n].archive \in Archive
    /\ \A m \in Id : Active(m) => m = n
    /\ \A f \in File : restore[f] = Expected(n, f)

(* After the exit each name of the archive is in one of the two directories.   *)
InOnePlace ==
  accepted # 0 /\ ~mixed /\ ~Exiting =>
    /\ request[accepted].archive \in Archive
    /\ \A t \in Names : \/ There(accepted, t, restore)
                        \/ There(accepted, t, work) /\ Gone(t, restore)
                        \/ ~InArchive(accepted, t) /\ Gone(t, restore)
    /\ process = "up" => /\ restore = Empty
                         /\ \A t \in Names : InArchive(accepted, t) => There(accepted, t, work)

(* The two loops of the start go through what the directory has.               *)
Loops ==
  /\ process = "removing" => todo \subseteq Listed(restore)
  /\ process = "moving" => todo = Listed(restore)

IInv == TypeOK /\ Quiet /\ Unpacks /\ Answers /\ InOnePlace /\ Loops

--------------------------------------------------------------------------------
(* The records of files and requests have their types.                         *)
LEMMA Constants ==
  /\ Absent \in Content /\ Own \in Content
  /\ \A n \in Id : Cut(n) \in Content /\ Whole(n) \in Content
  /\ Empty \in [File -> Content]
  /\ \A n \in Id : n # 0 /\ n \in 0..Restores /\ Whole(n) # Absent
  /\ NoRequest \in [state : {"none", "unpacking", "writing", "answered", "over"},
                    archive : Archive \cup {{}}, left : SUBSET File, file : File]
  /\ NoRequest.state = "none"
  /\ \A n \in 0..Restores : n # 0 => n \in Id
  /\ 0 \in 0..Restores /\ 0 \in 0..Crashes
<1>1. 0 \in 0..Restores /\ 0 \in 0..Crashes
  BY RestoreAssumption
<1>2. \A n \in Id : n # 0 /\ n \in 0..Restores
  BY RestoreAssumption DEF Id
<1>3. Absent \in Content /\ Own \in Content
  BY <1>1 DEF Absent, Own, Content
<1>4. \A n \in Id : Cut(n) \in Content /\ Whole(n) \in Content /\ Whole(n) # Absent
  BY <1>2 DEF Cut, Whole, Content, Absent
<1>5. NoRequest \in [state : {"none", "unpacking", "writing", "answered", "over"},
                     archive : Archive \cup {{}}, left : SUBSET File, file : File]
  BY RestoreAssumption DEF NoRequest
<1>6. \A n \in 0..Restores : n # 0 => n \in Id
  <2>1. Restores \in Nat
    BY RestoreAssumption
  <2> QED BY <2>1 DEF Id
<1> QED BY <1>1, <1>2, <1>3, <1>4, <1>5, <1>6 DEF Empty, NoRequest

(* What an action does to the request that it is about.                        *)
LEMMA Began ==
  ASSUME TypeOK, NEW n \in Id, BeginRestore(n)
  PROVE  /\ request'[n].state = "unpacking" /\ request'[n].archive \in Archive
         /\ request'[n].left = request'[n].archive
         /\ request'[n] \in [state : {"none", "unpacking", "writing", "answered", "over"},
                             archive : Archive \cup {{}}, left : SUBSET File, file : File]
         /\ request' = [request EXCEPT ![n] = request'[n]]
<1>1. PICK a \in Archive :
        request' = [request EXCEPT ![n] = [state |-> "unpacking", archive |-> a,
                                           left |-> a, file |-> Database]]
  BY DEF BeginRestore
<1>3. request'[n] = [state |-> "unpacking", archive |-> a, left |-> a, file |-> Database]
  BY <1>1 DEF TypeOK
<1>4. a \subseteq File /\ Database \in File
  BY RestoreAssumption
<1> QED BY <1>1, <1>3, <1>4 DEF TypeOK

(* OpenFile empties one file of the archive and takes it off what is left.     *)
LEMMA Opens ==
  ASSUME TypeOK, NEW n \in Id, OpenFile(n)
  PROVE  \E f \in request[n].left :
           /\ restore' = [restore EXCEPT ![f] = Cut(n)]
           /\ request'[n] = [state |-> "writing", archive |-> request[n].archive,
                             left |-> request[n].left \ {f}, file |-> f]
           /\ request' = [request EXCEPT ![n] = request'[n]]
<1>1. PICK f \in request[n].left :
        /\ restore' = [restore EXCEPT ![f] = Cut(n)]
        /\ request' = [request EXCEPT ![n].state = "writing", ![n].file = f, ![n].left = @ \ {f}]
  BY DEF OpenFile
<1>2. request'[n] = [request[n] EXCEPT !.state = "writing", !.file = f, !.left = @ \ {f}]
  BY <1>1 DEF TypeOK
<1>3. request' = [request EXCEPT ![n] = request'[n]]
  BY <1>1, <1>2 DEF TypeOK
<1>4. request'[n] = [state |-> "writing", archive |-> request[n].archive,
                     left |-> request[n].left \ {f}, file |-> f]
  BY <1>2 DEF TypeOK
<1> QED BY <1>1, <1>3, <1>4

(* The state of a request is all that the other steps of it change.            *)
LEMMA StateChanges ==
  ASSUME TypeOK, NEW n \in Id, NEW s,
         request' = [request EXCEPT ![n].state = s]
  PROVE  /\ request'[n] = [state |-> s, archive |-> request[n].archive,
                           left |-> request[n].left, file |-> request[n].file]
         /\ request' = [request EXCEPT ![n] = request'[n]]
BY DEF TypeOK

(* When the process ends no restore is active any more, and none forgets its   *)
(* archive.                                                                    *)
LEMMA EndsAll ==
  ASSUME TypeOK, Ends
  PROVE  /\ process' = "down" /\ todo' = {}
         /\ request' \in [Id -> [state : {"none", "unpacking", "writing", "answered", "over"},
                                 archive : Archive \cup {{}}, left : SUBSET File, file : File]]
         /\ \A n \in Id : /\ request'[n].archive = request[n].archive
                          /\ request'[n].state \notin {"unpacking", "writing", "answered"}
<1>1. \A n \in Id : /\ request'[n] \in [state : {"none", "unpacking", "writing", "answered", "over"},
                                        archive : Archive \cup {{}}, left : SUBSET File, file : File]
                    /\ request'[n].archive = request[n].archive
                    /\ request'[n].state \notin {"unpacking", "writing", "answered"}
  <2>1. SUFFICES ASSUME NEW n \in Id
                 PROVE  /\ request'[n] \in [state : {"none", "unpacking", "writing", "answered", "over"},
                                            archive : Archive \cup {{}}, left : SUBSET File, file : File]
                        /\ request'[n].archive = request[n].archive
                        /\ request'[n].state \notin {"unpacking", "writing", "answered"}
    OBVIOUS
  <2>2. request'[n] = IF Active(n) THEN [request[n] EXCEPT !.state = "over"] ELSE request[n]
    BY DEF Ends
  <2>3. CASE Active(n)
    <3>1. request'[n] = [request[n] EXCEPT !.state = "over"]
      BY <2>2, <2>3
    <3> QED BY <3>1 DEF TypeOK
  <2>4. CASE ~Active(n)
    BY <2>2, <2>4 DEF TypeOK, Active
  <2> QED BY <2>3, <2>4
<1>2. request' = [n \in Id |-> request'[n]]
  BY DEF Ends
<1> QED BY <1>1, <1>2 DEF Ends

--------------------------------------------------------------------------------
(* The type invariant: every step leaves the variables in their ranges.        *)
LEMMA TypeInit == Init => TypeOK
BY Constants DEF Init, TypeOK

(* Every step keeps the types; the requests are what takes an argument.        *)
LEMMA TypeStep == TypeOK /\ [Next]_vars => TypeOK'
<1> SUFFICES ASSUME TypeOK, [Next]_vars
             PROVE  TypeOK'
  OBVIOUS
<1> USE Constants
<1>1. ASSUME NEW n \in Id, BeginRestore(n) PROVE TypeOK'
  <2>1. accepted' = 0 /\ mixed' \in BOOLEAN /\ UNCHANGED <<dirs, process, todo, crashes>>
    BY <1>1 DEF BeginRestore
  <2> QED BY <1>1, <2>1, Began DEF TypeOK, dirs
<1>2. ASSUME NEW n \in Id, OpenFile(n) PROVE TypeOK'
  <2>1. PICK f \in request[n].left :
          /\ restore' = [restore EXCEPT ![f] = Cut(n)]
          /\ request'[n] = [state |-> "writing", archive |-> request[n].archive,
                            left |-> request[n].left \ {f}, file |-> f]
          /\ request' = [request EXCEPT ![n] = request'[n]]
    BY <1>2, Opens
  <2>2. UNCHANGED <<work, process, todo, crashes, accepted, mixed>>
    BY <1>2 DEF OpenFile
  <2>3. restore' \in [File -> Content] /\ f \in File
    BY <2>1 DEF TypeOK
  <2>4. request' \in [Id -> [state : {"none", "unpacking", "writing", "answered", "over"},
                             archive : Archive \cup {{}}, left : SUBSET File, file : File]]
    BY <2>1, <2>3 DEF TypeOK
  <2> QED BY <2>2, <2>3, <2>4 DEF TypeOK
<1>3. ASSUME NEW n \in Id, WriteFile(n) PROVE TypeOK'
  <2>1. request' = [request EXCEPT ![n].state = "unpacking"]
        /\ restore' \in [File -> Content]
        /\ UNCHANGED <<work, process, todo, crashes, accepted, mixed>>
    BY <1>3 DEF WriteFile, TypeOK
  <2> QED BY <2>1, StateChanges DEF TypeOK
<1>4. ASSUME NEW n \in Id, RestoreFails(n) PROVE TypeOK'
  <2>1. request' = [request EXCEPT ![n].state = "over"]
        /\ UNCHANGED <<dirs, process, todo, crashes, accepted, mixed>>
    BY <1>4 DEF RestoreFails
  <2> QED BY <2>1, StateChanges DEF TypeOK, dirs
<1>5. ASSUME NEW n \in Id, Restored(n) PROVE TypeOK'
  <2>1. request' = [request EXCEPT ![n].state = "answered"] /\ accepted' = n
        /\ UNCHANGED <<dirs, process, todo, crashes, mixed>>
    BY <1>5 DEF Restored
  <2> QED BY <2>1, StateChanges DEF TypeOK, dirs
<1>6. CASE Exit
  <2>1. Ends /\ UNCHANGED <<dirs, crashes, accepted, mixed>>
    BY <1>6 DEF Exit
  <2> QED BY <2>1, EndsAll DEF TypeOK, dirs
<1>7. CASE Crash
  <2>1. Ends /\ crashes < Crashes /\ crashes' = crashes + 1 /\ UNCHANGED <<dirs, accepted, mixed>>
    BY <1>7 DEF Crash
  <2>2. crashes' \in 0..Crashes
    BY <2>1, RestoreAssumption DEF TypeOK
  <2> QED BY <2>1, <2>2, EndsAll DEF TypeOK, dirs
<1>8. CASE Start
  BY <1>8 DEF Start, TypeOK, Replaced, Listed, Names, dirs
<1>9. ASSUME NEW t \in Names, Remove(t) PROVE TypeOK'
  BY <1>9 DEF Remove, TypeOK
<1>10. CASE Removed
  BY <1>10 DEF Removed, TypeOK, Listed, Names, dirs
<1>11. ASSUME NEW t \in Names, Move(t) PROVE TypeOK'
  BY <1>11 DEF Move, TypeOK
<1>12. CASE Opened
  <2>1. restore' = Empty /\ todo' = {} /\ UNCHANGED <<request, crashes, accepted, mixed>>
        /\ process' \in {"up", "down"}
        /\ (work' = work \/ work' = [work EXCEPT ![Database] = Absent])
    BY <1>12 DEF Opened
  <2> QED BY <2>1 DEF TypeOK
<1>13. CASE SetUp
  BY <1>13 DEF SetUp, TypeOK
<1>14. CASE UNCHANGED vars
  BY <1>14 DEF vars, dirs, TypeOK
<1> QED BY <1>1, <1>2, <1>3, <1>4, <1>5, <1>6, <1>7, <1>8, <1>9, <1>10, <1>11, <1>12, <1>13, <1>14
        DEF Next, UnpackNext, Finish

--------------------------------------------------------------------------------
(* At the start nothing was asked for.                                         *)
LEMMA InvInit == Init => IInv
<1> SUFFICES ASSUME Init PROVE IInv
  OBVIOUS
<1>1. \A n \in Id : request[n].state = "none"
  BY Constants DEF Init
<1>2. Quiet /\ Unpacks /\ Answers /\ InOnePlace /\ Loops
  BY <1>1 DEF Init, Quiet, Unpacks, Answers, InOnePlace, Loops
<1> QED BY <1>2, TypeInit DEF IInv

(* A step that leaves the requests and the end of the last alone keeps what is *)
(* said of them while they run.                                                *)
LEMMA WhileDown ==
  ASSUME TypeOK, Quiet, process # "up", UNCHANGED request
  PROVE  Quiet' /\ Unpacks' /\ Answers' /\ ~Exiting /\ ~Exiting'
BY DEF Quiet, Unpacks, Answers, Active, Exiting

(* The process ends, by the exit after an answer or by a crash.                *)
LEMMA EndsInv ==
  ASSUME IInv, TypeOK', Ends, UNCHANGED <<dirs, accepted, mixed>>
  PROVE  IInv'
<1> USE DEF IInv
<1>1. /\ process' = "down"
      /\ \A n \in Id : /\ request'[n].archive = request[n].archive
                       /\ request'[n].state \notin {"unpacking", "writing", "answered"}
  BY EndsAll
<1>2. Quiet' /\ Unpacks' /\ Answers' /\ Loops'
  BY <1>1 DEF Quiet, Unpacks, Answers, Loops, Active
<1>3. InOnePlace'
  <2> SUFFICES ASSUME accepted # 0, ~mixed
               PROVE  /\ request[accepted].archive \in Archive
                      /\ \A t \in Names : \/ There(accepted, t, restore)
                                          \/ There(accepted, t, work) /\ Gone(t, restore)
                                          \/ ~InArchive(accepted, t) /\ Gone(t, restore)
    <3>1. accepted # 0 => accepted \in Id
      <4>1. accepted \in 0..Restores
        BY DEF TypeOK
      <4> QED BY <4>1, Constants
    <3> QED
      BY <1>1, <3>1 DEF InOnePlace, There, Gone, InArchive, Expected, dirs
  <2>1. CASE ~Exiting
    BY <2>1 DEF InOnePlace
  <2>2. CASE Exiting
    <3>1. PICK n \in Id : request[n].state = "answered"
      BY <2>2 DEF Exiting
    <3>2. accepted = n /\ request[n].archive \in Archive /\ \A f \in File : restore[f] = Expected(n, f)
      BY <3>1 DEF Answers
    <3>3. \A t \in Names : There(accepted, t, restore)
      BY <3>2 DEF There
    <3> QED BY <3>1, <3>2, <3>3 DEF TypeOK
  <2> QED BY <2>1, <2>2
<1> QED BY <1>2, <1>3

(* The steps of the restores themselves.                                       *)
LEMMA BeginInv ==
  ASSUME IInv, TypeOK', NEW n \in Id, BeginRestore(n)
  PROVE  IInv'
<1> USE DEF IInv
<1>1. /\ process = "up" /\ request[n] = NoRequest /\ accepted' = 0
      /\ mixed' = (restore # Empty \/ \E m \in Id : Active(m))
      /\ UNCHANGED <<dirs, process, todo, crashes>>
  BY DEF BeginRestore
<1>2. /\ request'[n].state = "unpacking" /\ request'[n].archive \in Archive
      /\ request'[n].left = request'[n].archive
      /\ request' = [request EXCEPT ![n] = request'[n]]
  BY Began
<1>3. Quiet' /\ InOnePlace' /\ Loops'
  BY <1>1 DEF Quiet, InOnePlace, Loops, dirs
<1>4. \A m \in Id : m # n => request'[m] = request[m]
  BY <1>2 DEF TypeOK
<1>5. ~mixed' => restore' = Empty /\ \A m \in Id : Active(m)' => m = n
  BY <1>1, <1>4 DEF Active, dirs
<1>6. Unpacks'
  BY <1>1, <1>2, <1>4, <1>5, Constants DEF Unpacks, Active, Empty
<1>7. Answers'
  BY <1>2, <1>4, <1>5 DEF Answers, Active
<1> QED BY <1>3, <1>6, <1>7

(* A file that is opened holds nothing yet, and its restore says which it is.  *)
LEMMA OpenInv ==
  ASSUME IInv, TypeOK', NEW n \in Id, OpenFile(n)
  PROVE  IInv'
<1> USE DEF IInv
<1>1. PICK f \in request[n].left :
        /\ restore' = [restore EXCEPT ![f] = Cut(n)]
        /\ request'[n] = [state |-> "writing", archive |-> request[n].archive,
                          left |-> request[n].left \ {f}, file |-> f]
        /\ request' = [request EXCEPT ![n] = request'[n]]
  BY Opens
<1>2. request[n].state = "unpacking" /\ UNCHANGED <<work, process, todo, crashes, accepted, mixed>>
  BY DEF OpenFile
<1>3. /\ \A m \in Id : m # n => request'[m] = request[m]
      /\ \A m \in Id : Active(m)' <=> Active(m)
  BY <1>1, <1>2 DEF TypeOK, Active
<1>4. process = "up"
  BY <1>2 DEF Quiet, Active
<1>5. CASE mixed
  BY <1>2, <1>4, <1>5 DEF Quiet, Unpacks, Answers, InOnePlace, Loops
<1>6. CASE ~mixed
  <2>1. /\ accepted = 0 /\ request[n].archive \in Archive
        /\ request[n].left \subseteq request[n].archive
        /\ \A m \in Id : Active(m) => m = n
        /\ \A g \in File : restore[g] =
             IF g \notin request[n].archive \/ g \in request[n].left THEN Absent ELSE Whole(n)
    BY <1>2, <1>6 DEF Unpacks
  <2>2. f \in File
    BY <1>1 DEF TypeOK
  <2>3. f \in request[n].archive
    BY <1>1, <1>2, <1>6 DEF Unpacks
  <2>4. \A g \in File : restore'[g] = IF g = f THEN Cut(n) ELSE restore[g]
    BY <1>1 DEF TypeOK
  <2>5. Unpacks'
    <3> SUFFICES /\ accepted' = 0 /\ request'[n].archive \in Archive
                 /\ request'[n].left \subseteq request'[n].archive
                 /\ request'[n].file \in request'[n].archive \ request'[n].left
                 /\ \A g \in File : restore'[g] =
                      IF g \notin request'[n].archive \/ g \in request'[n].left THEN Absent
                      ELSE IF g = request'[n].file THEN Cut(n) ELSE Whole(n)
      BY <1>1, <1>3, <2>1 DEF Unpacks, Active
    <3> QED BY <1>1, <1>2, <2>1, <2>2, <2>3, <2>4
  <2>6. Quiet' /\ Answers' /\ InOnePlace' /\ Loops'
    BY <1>1, <1>2, <1>3, <1>4, <2>1 DEF Quiet, Answers, InOnePlace, Loops, Active
  <2> QED BY <2>5, <2>6
<1> QED BY <1>5, <1>6

(* The file that was opened gets what the archive has of it.                   *)
LEMMA WriteInv ==
  ASSUME IInv, TypeOK', NEW n \in Id, WriteFile(n)
  PROVE  IInv'
<1> USE DEF IInv
<1>1. /\ request[n].state = "writing"
      /\ restore' = [restore EXCEPT ![request[n].file] = IF @ = Cut(n) THEN Whole(n) ELSE Cut(n)]
      /\ request' = [request EXCEPT ![n].state = "unpacking"]
      /\ UNCHANGED <<work, process, todo, crashes, accepted, mixed>>
  BY DEF WriteFile
<1>2. /\ request'[n] = [state |-> "unpacking", archive |-> request[n].archive,
                        left |-> request[n].left, file |-> request[n].file]
      /\ request' = [request EXCEPT ![n] = request'[n]]
  BY <1>1, StateChanges
<1>3. /\ \A m \in Id : m # n => request'[m] = request[m]
      /\ \A m \in Id : Active(m)' <=> Active(m)
  BY <1>1, <1>2 DEF TypeOK, Active
<1>4. process = "up"
  BY <1>1 DEF Quiet, Active
<1>5. CASE mixed
  BY <1>1, <1>4, <1>5 DEF Quiet, Unpacks, Answers, InOnePlace, Loops
<1>6. CASE ~mixed
  <2>1. /\ accepted = 0 /\ request[n].archive \in Archive
        /\ request[n].left \subseteq request[n].archive
        /\ request[n].file \in request[n].archive \ request[n].left
        /\ \A m \in Id : Active(m) => m = n
        /\ \A g \in File : restore[g] =
             IF g \notin request[n].archive \/ g \in request[n].left THEN Absent
             ELSE IF g = request[n].file THEN Cut(n) ELSE Whole(n)
    BY <1>1, <1>6 DEF Unpacks
  <2>2. request[n].file \in File
    BY DEF TypeOK
  <2>3. \A g \in File : restore'[g] = IF g = request[n].file THEN Whole(n) ELSE restore[g]
    BY <1>1, <2>1, <2>2 DEF TypeOK
  <2>4. Unpacks'
    <3> SUFFICES /\ accepted' = 0 /\ request'[n].archive \in Archive
                 /\ request'[n].left \subseteq request'[n].archive
                 /\ \A g \in File : restore'[g] =
                      IF g \notin request'[n].archive \/ g \in request'[n].left THEN Absent
                      ELSE Whole(n)
      BY <1>2, <1>3, <2>1 DEF Unpacks, Active
    <3> QED BY <1>1, <1>2, <2>1, <2>2, <2>3
  <2>5. Quiet' /\ Answers' /\ InOnePlace' /\ Loops'
    BY <1>1, <1>2, <1>3, <1>4, <2>1 DEF Quiet, Answers, InOnePlace, Loops, Active
  <2> QED BY <2>4, <2>5
<1> QED BY <1>5, <1>6

(* A restore that fails leaves the directory, and no claim about it.           *)
LEMMA FailsInv ==
  ASSUME IInv, TypeOK', NEW n \in Id, RestoreFails(n)
  PROVE  IInv'
<1> USE DEF IInv
<1>1. /\ request[n].state \in {"unpacking", "writing"}
      /\ request' = [request EXCEPT ![n].state = "over"]
      /\ UNCHANGED <<dirs, process, todo, crashes, accepted, mixed>>
  BY DEF RestoreFails
<1>2. /\ request'[n] = [state |-> "over", archive |-> request[n].archive,
                        left |-> request[n].left, file |-> request[n].file]
      /\ request' = [request EXCEPT ![n] = request'[n]]
  BY <1>1, StateChanges
<1>3. /\ \A m \in Id : m # n => request'[m] = request[m]
      /\ \A m \in Id : Active(m)' => Active(m)
  BY <1>1, <1>2 DEF TypeOK, Active
<1>4. process = "up"
  BY <1>1 DEF Quiet, Active
<1>5. ~mixed => accepted = 0 /\ \A m \in Id : Active(m) => m = n
  BY <1>1 DEF Unpacks
<1>6. Quiet' /\ InOnePlace' /\ Loops'
  BY <1>1, <1>4, <1>5 DEF Quiet, InOnePlace, Loops, dirs
<1>7. Unpacks' /\ Answers'
  BY <1>1, <1>2, <1>3, <1>5 DEF Unpacks, Answers, Active, dirs
<1> QED BY <1>6, <1>7

(* An answer comes when nothing of the archive is left to unpack.              *)
LEMMA RestoredInv ==
  ASSUME IInv, TypeOK', NEW n \in Id, Restored(n)
  PROVE  IInv'
<1> USE DEF IInv
<1>1. /\ request[n].state = "unpacking" /\ request[n].left = {}
      /\ request' = [request EXCEPT ![n].state = "answered"]
      /\ accepted' = n
      /\ UNCHANGED <<dirs, process, todo, crashes, mixed>>
  BY DEF Restored
<1>2. /\ request'[n] = [state |-> "answered", archive |-> request[n].archive,
                        left |-> request[n].left, file |-> request[n].file]
      /\ request' = [request EXCEPT ![n] = request'[n]]
  BY <1>1, StateChanges
<1>3. /\ \A m \in Id : m # n => request'[m] = request[m]
      /\ \A m \in Id : Active(m)' <=> Active(m)
  BY <1>1, <1>2 DEF TypeOK, Active
<1>4. process = "up"
  BY <1>1 DEF Quiet, Active
<1>5. ~mixed => /\ request[n].archive \in Archive
                /\ \A m \in Id : Active(m) => m = n
                /\ \A f \in File : restore[f] = IF f \in request[n].archive THEN Whole(n) ELSE Absent
  BY <1>1 DEF Unpacks
<1>6. Exiting'
  BY <1>2 DEF Exiting
<1>7. Quiet' /\ InOnePlace' /\ Loops'
  BY <1>1, <1>4, <1>6 DEF Quiet, InOnePlace, Loops
<1>8. Unpacks' /\ Answers'
  BY <1>1, <1>2, <1>3, <1>5 DEF Unpacks, Answers, Active, dirs, Expected
<1> QED BY <1>7, <1>8

(* The user's own setup: a hub that has been restored is set up.               *)
LEMMA SetUpInv ==
  ASSUME IInv, TypeOK', SetUp
  PROVE  IInv'
<1> USE DEF IInv
<1>1. /\ process = "up" /\ work[Database] = Absent
      /\ UNCHANGED <<restore, process, todo, request, crashes, accepted, mixed>>
  BY DEF SetUp, SetupCompleted
<1>2. Quiet' /\ Unpacks' /\ Answers' /\ Loops'
  BY <1>1 DEF Quiet, Unpacks, Answers, Loops, Active, Expected, Listed
<1>3. InOnePlace'
  <2> SUFFICES ASSUME accepted # 0, ~mixed, ~Exiting PROVE FALSE
    BY <1>1 DEF InOnePlace, Exiting
  <2>1. /\ request[accepted].archive \in Archive
        /\ \A t \in Names : InArchive(accepted, t) => There(accepted, t, work)
    BY <1>1 DEF InOnePlace
  <2>2. Database \in request[accepted].archive /\ Database \in File
    BY <2>1, RestoreAssumption
  <2>3. work[Database] = Whole(accepted)
    BY <2>1, <2>2 DEF InArchive, There, Expected, Names
  <2>4. accepted \in Id
    <3>1. accepted \in 0..Restores
      BY DEF TypeOK
    <3> QED BY <3>1, Constants
  <2> QED BY <1>1, <2>3, <2>4, Constants
<1> QED BY <1>2, <1>3

(* The start lists, removes, lists again, moves and opens.                     *)
LEMMA StartInv ==
  ASSUME IInv, TypeOK', Start
  PROVE  IInv'
<1> USE DEF IInv
<1>1. /\ process = "down" /\ process' = "removing" /\ todo' = Listed(restore)
      /\ UNCHANGED <<dirs, request, crashes, accepted, mixed>>
  BY DEF Start, Replaced
<1>2. Quiet' /\ Unpacks' /\ Answers' /\ ~Exiting /\ ~Exiting'
  BY <1>1, WhileDown
<1>3. InOnePlace' /\ Loops'
  BY <1>1, <1>2 DEF InOnePlace, Loops, There, Gone, InArchive, Expected, Listed, dirs
<1> QED BY <1>2, <1>3

(* What is removed has its new files still in the restore directory.           *)
LEMMA RemoveInv ==
  ASSUME IInv, TypeOK', NEW t \in Names, Remove(t)
  PROVE  IInv'
<1> USE DEF IInv
<1>1. /\ process = "removing" /\ t \in todo /\ todo' = todo \ {t}
      /\ work' = [f \in File |-> IF Top[f] = t THEN Absent ELSE work[f]]
      /\ UNCHANGED <<restore, process, request, crashes, accepted, mixed>>
  BY DEF Remove
<1>2. Quiet' /\ Unpacks' /\ Answers' /\ ~Exiting /\ ~Exiting'
  BY <1>1, WhileDown
<1>3. t \in Listed(restore) /\ ~Gone(t, restore)
  BY <1>1 DEF Loops, Listed, Gone
<1>4. \A s \in Names : s # t /\ There(accepted, s, work) => There(accepted, s, work)'
  BY <1>1 DEF There, Expected
<1>5. \A s \in Names : /\ There(accepted, s, restore)' <=> There(accepted, s, restore)
                       /\ Gone(s, restore)' <=> Gone(s, restore)
                       /\ InArchive(accepted, s)' <=> InArchive(accepted, s)
  BY <1>1 DEF There, Expected, Gone, InArchive
<1>6. InOnePlace'
  <2> SUFFICES ASSUME accepted # 0, ~mixed
               PROVE  /\ request[accepted].archive \in Archive
                      /\ \A s \in Names : \/ There(accepted, s, restore)
                                          \/ There(accepted, s, work)' /\ Gone(s, restore)
                                          \/ ~InArchive(accepted, s) /\ Gone(s, restore)
    BY <1>1, <1>5 DEF InOnePlace
  <2> QED BY <1>2, <1>3, <1>4 DEF InOnePlace
<1>7. Loops'
  BY <1>1 DEF Loops, Listed
<1> QED BY <1>2, <1>6, <1>7

(* The directory is listed anew before anything is moved.                      *)
LEMMA RemovedInv ==
  ASSUME IInv, TypeOK', Removed
  PROVE  IInv'
<1> USE DEF IInv
<1>1. /\ process = "removing" /\ process' = "moving" /\ todo' = Listed(restore)
      /\ UNCHANGED <<dirs, request, crashes, accepted, mixed>>
  BY DEF Removed
<1>2. Quiet' /\ Unpacks' /\ Answers' /\ ~Exiting /\ ~Exiting'
  BY <1>1, WhileDown
<1>3. InOnePlace' /\ Loops'
  BY <1>1, <1>2 DEF InOnePlace, Loops, There, Gone, InArchive, Expected, Listed, dirs
<1> QED BY <1>2, <1>3

(* A name that is moved was there and was not moved before: the loop goes      *)
(* through what is there.                                                      *)
LEMMA MoveInv ==
  ASSUME IInv, TypeOK', NEW t \in Names, Move(t)
  PROVE  IInv'
<1> USE DEF IInv
<1>1. /\ process = "moving" /\ t \in todo /\ todo' = todo \ {t}
      /\ work' = [f \in File |-> IF Top[f] = t THEN restore[f] ELSE work[f]]
      /\ restore' = [f \in File |-> IF Top[f] = t THEN Absent ELSE restore[f]]
      /\ UNCHANGED <<process, request, crashes, accepted, mixed>>
  BY DEF Move
<1>2. Quiet' /\ Unpacks' /\ Answers' /\ ~Exiting /\ ~Exiting'
  BY <1>1, WhileDown
<1>3. todo = Listed(restore) /\ ~Gone(t, restore)
  BY <1>1 DEF Loops, Listed, Gone
<1>4. InArchive(accepted, t)' <=> InArchive(accepted, t)
  BY <1>1 DEF InArchive
<1>5. \A s \in Names : s # t => /\ There(accepted, s, work)' <=> There(accepted, s, work)
                                /\ There(accepted, s, restore)' <=> There(accepted, s, restore)
                                /\ Gone(s, restore)' <=> Gone(s, restore)
                                /\ InArchive(accepted, s)' <=> InArchive(accepted, s)
  BY <1>1 DEF There, Expected, Gone, InArchive
<1>6. /\ Gone(t, restore)'
      /\ There(accepted, t, restore) => There(accepted, t, work)'
  BY <1>1 DEF There, Expected, Gone
<1>7. InOnePlace'
  <2> SUFFICES ASSUME accepted # 0, ~mixed
               PROVE  /\ request[accepted].archive \in Archive
                      /\ \A s \in Names : \/ There(accepted, s, restore)'
                                          \/ There(accepted, s, work)' /\ Gone(s, restore)'
                                          \/ ~InArchive(accepted, s)' /\ Gone(s, restore)'
    BY <1>1 DEF InOnePlace
  <2>1. /\ request[accepted].archive \in Archive
        /\ \A s \in Names : \/ There(accepted, s, restore)
                            \/ There(accepted, s, work) /\ Gone(s, restore)
                            \/ ~InArchive(accepted, s) /\ Gone(s, restore)
    BY <1>2 DEF InOnePlace
  <2> QED BY <1>3, <1>5, <1>6, <2>1
<1>8. Loops'
  <2>1. Listed(restore)' = Listed(restore) \ {t}
    BY <1>1 DEF Listed
  <2> QED BY <1>1, <1>3, <2>1 DEF Loops
<1> QED BY <1>2, <1>7, <1>8

(* When nothing is left to move, all of the archive is in the work directory,  *)
(* its database too, which can be opened.                                      *)
LEMMA OpenedInv ==
  ASSUME IInv, TypeOK', Opened
  PROVE  IInv'
<1> USE DEF IInv
<1>1. /\ process = "moving" /\ todo = {} /\ restore' = Empty /\ todo' = {}
      /\ UNCHANGED <<request, crashes, accepted, mixed>>
      /\ process' \in {"up", "down"}
      /\ work[Database] \notin {Cut(n) : n \in Id} => work' = work
  BY DEF Opened
<1>2. Quiet' /\ Unpacks' /\ Answers' /\ ~Exiting /\ ~Exiting'
  BY <1>1, WhileDown
<1>3. Loops'
  BY <1>1 DEF Loops
<1>4. Listed(restore) = {}
  BY <1>1 DEF Loops
<1>5. \A f \in File : restore[f] = Absent
  BY <1>4 DEF Listed
<1>6. InOnePlace'
  <2> SUFFICES ASSUME accepted # 0, ~mixed
               PROVE  /\ request[accepted].archive \in Archive
                      /\ \A t \in Names : InArchive(accepted, t) => There(accepted, t, work)'
    <3>1. \A t \in Names : Gone(t, restore)'
      BY <1>1 DEF Gone, Empty
    <3>2. \A t \in Names : InArchive(accepted, t)' <=> InArchive(accepted, t)
      BY <1>1 DEF InArchive
    <3> QED BY <1>1, <3>1, <3>2 DEF InOnePlace
  <2>1. /\ request[accepted].archive \in Archive
        /\ \A t \in Names : \/ There(accepted, t, restore)
                            \/ There(accepted, t, work)
                            \/ ~InArchive(accepted, t)
    BY <1>2 DEF InOnePlace
  <2>2. accepted \in Id
    <3>1. accepted \in 0..Restores
      BY DEF TypeOK
    <3> QED BY <3>1, Constants
  <2>3. \A t \in Names : InArchive(accepted, t) => ~There(accepted, t, restore)
    BY <1>5, <2>2, Constants DEF InArchive, There, Expected
  <2>4. Database \in request[accepted].archive /\ Database \in File
    BY <2>1, RestoreAssumption
  <2>5. work[Database] = Whole(accepted)
    BY <2>1, <2>3, <2>4 DEF InArchive, There, Expected, Names
  <2>6. work' = work
    <3>1. \A n \in Id : work[Database] # Cut(n)
      BY <2>5 DEF Whole, Cut
    <3> QED BY <1>1, <3>1
  <2> QED BY <1>1, <2>1, <2>3, <2>6 DEF There, Expected
<1> QED BY <1>2, <1>3, <1>6

--------------------------------------------------------------------------------
(* The invariant is kept by every step.                                        *)
LEMMA InvStep == IInv /\ [Next]_vars => IInv'
<1> SUFFICES ASSUME IInv, [Next]_vars
             PROVE  IInv'
  OBVIOUS
<1>1. TypeOK'
  BY TypeStep DEF IInv
<1>2. ASSUME NEW n \in Id, BeginRestore(n) PROVE IInv'
  BY <1>1, <1>2, BeginInv
<1>3. ASSUME NEW n \in Id, OpenFile(n) PROVE IInv'
  BY <1>1, <1>3, OpenInv
<1>4. ASSUME NEW n \in Id, WriteFile(n) PROVE IInv'
  BY <1>1, <1>4, WriteInv
<1>5. ASSUME NEW n \in Id, RestoreFails(n) PROVE IInv'
  BY <1>1, <1>5, FailsInv
<1>6. ASSUME NEW n \in Id, Restored(n) PROVE IInv'
  BY <1>1, <1>6, RestoredInv
<1>7. CASE Exit
  BY <1>1, <1>7, EndsInv DEF Exit, dirs
<1>8. CASE Crash
  BY <1>1, <1>8, EndsInv DEF Crash, dirs
<1>9. CASE Start
  BY <1>1, <1>9, StartInv
<1>10. ASSUME NEW t \in Names, Remove(t) PROVE IInv'
  BY <1>1, <1>10, RemoveInv
<1>11. CASE Removed
  BY <1>1, <1>11, RemovedInv
<1>12. ASSUME NEW t \in Names, Move(t) PROVE IInv'
  BY <1>1, <1>12, MoveInv
<1>13. CASE Opened
  BY <1>1, <1>13, OpenedInv
<1>14. CASE SetUp
  BY <1>1, <1>14, SetUpInv
<1>15. CASE UNCHANGED vars
  <2>1. Quiet' /\ Unpacks' /\ Answers' /\ Loops'
    BY <1>15 DEF IInv, vars, dirs, Quiet, Unpacks, Answers, Loops, Active, Expected, Listed
  <2>2. InOnePlace'
    BY <1>15 DEF IInv, vars, dirs, InOnePlace, There, Gone, InArchive, Expected, Exiting
  <2> QED BY <1>1, <2>1, <2>2 DEF IInv
<1> QED BY <1>2, <1>3, <1>4, <1>5, <1>6, <1>7, <1>8, <1>9, <1>10, <1>11, <1>12, <1>13, <1>14, <1>15
        DEF Next, UnpackNext, Finish

(* The directories, the process, the restores and the bounds keep their types. *)
THEOREM TypeCorrect == Spec => []TypeOK
<1>1. Init => TypeOK
  BY TypeInit
<1>2. TypeOK /\ [Next]_vars => TypeOK'
  BY TypeStep
<1> QED BY <1>1, <1>2, PTL DEF Spec

(* However many files, restores and crashes there are: a hub that comes up     *)
(* after a restore was answered has all of the archive, and no older file      *)
(* under its names.                                                            *)
THEOREM RestoredIsWhole == Spec => []RestoredWhole
<1>1. Init => IInv
  BY InvInit
<1>2. IInv /\ [Next]_vars => IInv'
  BY InvStep
<1>3. IInv => RestoredWhole
  <2> SUFFICES ASSUME IInv, process = "up", accepted # 0, ~Exiting, ~mixed,
                      NEW f \in File, NEW g \in request[accepted].archive, Top[f] = Top[g]
               PROVE  work[f] = IF f \in request[accepted].archive THEN Whole(accepted) ELSE Absent
    BY DEF RestoredWhole
  <2>1. /\ request[accepted].archive \in Archive
        /\ \A t \in Names : InArchive(accepted, t) => There(accepted, t, work)
    BY DEF IInv, InOnePlace
  <2>2. g \in File
    BY <2>1, RestoreAssumption
  <2>3. InArchive(accepted, Top[f]) /\ Top[f] \in Names
    BY <2>2 DEF InArchive, Names
  <2> QED BY <2>1, <2>3 DEF There, Expected
<1> QED BY <1>1, <1>2, <1>3, PTL DEF Spec
===============================================================================
