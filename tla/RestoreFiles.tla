----------------------------- MODULE RestoreFiles -----------------------------
(* The files of a restore: RestoreBackup (api/backup.go) unpacks an archive    *)
(* beside the working directory and exits, and the next start moves it in      *)
(* (service/service.go, finishRestoreNode), with crashes between any two of    *)
(* these steps, archives that are cut short and uploads that overlap.          *)
EXTENDS Naturals

CONSTANTS
  File,       \* the files that an archive may have
  Database,   \* nwc.db
  Top,        \* the name in the working directory that a file is, or is in
  Archive,    \* the sets of files that archives, and hubs, consist of
  Desktop,    \* the hub is the desktop application
  Restores,   \* bound: how many restores are asked for
  Crashes     \* bound: how often the process crashes

ASSUME RestoreAssumption ==
  /\ Database \in File
  /\ Archive \subseteq SUBSET File
  /\ \A a \in Archive : Database \in a
  /\ \A f \in File : Top[f] = Top[Database] => f = Database
  /\ Desktop \in BOOLEAN
  /\ Restores \in Nat /\ Crashes \in Nat

VARIABLES
  work,       \* the working directory
  restore,    \* the directory "restore" in it
  process,    \* the process, and how far finishRestoreNode is
  todo,       \* the names it has listed and not got to
  request,    \* the restores that were asked for
  crashes,    \* how many crashes there were
  accepted,   \* the last restore, when it was answered without an error
  mixed       \* the last one was unpacked over what another had left, or beside it

dirs == <<work, restore>>
vars == <<dirs, process, todo, request, crashes, accepted, mixed>>

Id == 1..Restores
Names == {Top[f] : f \in File}

(* What a file holds: all that the archive of a restore has of it, or not all; *)
(* the hub's own are those of no restore.  A database without a setup counts   *)
(* as none.                                                                    *)
Content == [by : 0..Restores, whole : BOOLEAN]
Absent == [by |-> 0, whole |-> FALSE]
Own == [by |-> 0, whole |-> TRUE]
Cut(n) == [by |-> n, whole |-> FALSE]
Whole(n) == [by |-> n, whole |-> TRUE]

Empty == [f \in File |-> Absent]
Listed(dir) == {Top[f] : f \in {g \in File : dir[g] # Absent}}
SetupCompleted == work[Database] # Absent

NoRequest == [state |-> "none", archive |-> {}, left |-> {}, file |-> Database]
Active(n) == request[n].state \in {"unpacking", "writing", "answered"}
Exiting == \E n \in Id : request[n].state = "answered"

TypeOK ==
  /\ work \in [File -> Content] /\ restore \in [File -> Content]
  /\ process \in {"down", "removing", "moving", "up"}
  /\ todo \subseteq Names
  /\ request \in [Id -> [state : {"none", "unpacking", "writing", "answered", "over"},
                         archive : Archive \cup {{}}, left : SUBSET File, file : File]]
  /\ crashes \in 0..Crashes
  /\ accepted \in 0..Restores
  /\ mixed \in BOOLEAN

Init ==
  /\ work = Empty /\ restore = Empty
  /\ process = "up" /\ todo = {}
  /\ request = [n \in Id |-> NoRequest]
  /\ crashes = 0 /\ accepted = 0 /\ mixed = FALSE

--------------------------------------------------------------------------------
(* RestoreBackup, one goroutine a request.                                     *)

(* The handler of the HTTP server refuses a hub that is set up.                *)
BeginRestore(n) ==
  /\ process = "up" /\ request[n] = NoRequest
  /\ Desktop \/ ~SetupCompleted
  /\ \E a \in Archive :
       request' = [request EXCEPT ![n] = [state |-> "unpacking", archive |-> a,
                                          left |-> a, file |-> Database]]
  /\ accepted' = 0
  /\ mixed' = (restore # Empty \/ \E m \in Id : Active(m))
  /\ UNCHANGED <<dirs, process, todo, crashes>>

(* The database is the first entry.  A file is opened empty, then written.     *)
OpenFile(n) ==
  /\ request[n].state = "unpacking"
  /\ \E f \in request[n].left :
       /\ Database \in request[n].left => f = Database
       /\ restore' = [restore EXCEPT ![f] = Cut(n)]
       /\ request' = [request EXCEPT ![n].state = "writing", ![n].file = f, ![n].left = @ \ {f}]
  /\ UNCHANGED <<work, process, todo, crashes, accepted, mixed>>

(* Two restores that write one file leave neither's.                           *)
WriteFile(n) ==
  /\ request[n].state = "writing"
  /\ restore' = [restore EXCEPT ![request[n].file] = IF @ = Cut(n) THEN Whole(n) ELSE Cut(n)]
  /\ request' = [request EXCEPT ![n].state = "unpacking"]
  /\ UNCHANGED <<work, process, todo, crashes, accepted, mixed>>

(* A wrong password, an archive that is cut short, a full disk: what was       *)
(* unpacked stays.                                                             *)
RestoreFails(n) ==
  /\ request[n].state \in {"unpacking", "writing"}
  /\ request' = [request EXCEPT ![n].state = "over"]
  /\ UNCHANGED <<dirs, process, todo, crashes, accepted, mixed>>

Restored(n) ==
  /\ request[n].state = "unpacking" /\ request[n].left = {}
  /\ request' = [request EXCEPT ![n].state = "answered"]
  /\ accepted' = n
  /\ UNCHANGED <<dirs, process, todo, crashes, mixed>>

(* The process ends, and with it what it was doing.                            *)
Ends ==
  /\ process' = "down"
  /\ todo' = {}
  /\ request' = [n \in Id |-> IF Active(n) THEN [request[n] EXCEPT !.state = "over"]
                                           ELSE request[n]]

(* Five seconds after the answer.                                              *)
Exit ==
  /\ process = "up" /\ Exiting
  /\ Ends
  /\ UNCHANGED <<dirs, crashes, accepted, mixed>>

Crash ==
  /\ process # "down" /\ crashes < Crashes
  /\ crashes' = crashes + 1
  /\ Ends
  /\ UNCHANGED <<dirs, accepted, mixed>>

--------------------------------------------------------------------------------
(* The start of the process: finishRestoreNode, then NewDB.                    *)

(* The names that are removed are those that are still to be moved in: what    *)
(* was moved before a crash stays.                                             *)
ReplacedOfWorkDir == Listed(work)
Replaced == Listed(restore)

Start ==
  /\ process = "down"
  /\ process' = "removing"
  /\ todo' = Replaced
  /\ UNCHANGED <<dirs, request, crashes, accepted, mixed>>

RemoveNothing(t) ==
  /\ process = "removing" /\ t \in todo
  /\ todo' = todo \ {t}
  /\ UNCHANGED <<dirs, process, request, crashes, accepted, mixed>>
Remove(t) ==
  /\ process = "removing" /\ t \in todo
  /\ work' = [f \in File |-> IF Top[f] = t THEN Absent ELSE work[f]]
  /\ todo' = todo \ {t}
  /\ UNCHANGED <<restore, process, request, crashes, accepted, mixed>>

Removed ==
  /\ process = "removing" /\ todo = {}
  /\ process' = "moving"
  /\ todo' = Listed(restore)
  /\ UNCHANGED <<dirs, request, crashes, accepted, mixed>>

(* A directory is not moved onto another: the start is over, as all later ones *)
(* would be.                                                                   *)
Move(t) ==
  /\ process = "moving" /\ t \in todo
  /\ t \in Listed(work) => t = Top[Database]
  /\ work' = [f \in File |-> IF Top[f] = t THEN restore[f] ELSE work[f]]
  /\ restore' = [f \in File |-> IF Top[f] = t THEN Absent ELSE restore[f]]
  /\ todo' = todo \ {t}
  /\ UNCHANGED <<process, request, crashes, accepted, mixed>>

(* The directory is removed and the database opened: one that was cut short is *)
(* refused, unless it is empty.                                                *)
Opened ==
  /\ process = "moving" /\ todo = {}
  /\ restore' = Empty
  /\ todo' = {}
  /\ \/ /\ work[Database] \in {Absent, Own} \cup {Whole(n) : n \in Id}
        /\ process' = "up" /\ work' = work
     \/ /\ work[Database] \in {Cut(n) : n \in Id}
        /\ \/ process' = "up" /\ work' = [work EXCEPT ![Database] = Absent]
           \/ process' = "down" /\ work' = work
  /\ UNCHANGED <<request, crashes, accepted, mixed>>

Finish == Start \/ Removed \/ Opened \/ \E t \in Names : Remove(t) \/ Move(t)

(* The user sets up a hub of his own, whose node makes the files it misses.    *)
SetUp ==
  /\ process = "up" /\ ~SetupCompleted
  /\ \E a \in Archive : work' = [f \in File |-> IF f \in a /\ work[f] = Absent THEN Own ELSE work[f]]
  /\ UNCHANGED <<restore, process, todo, request, crashes, accepted, mixed>>

UnpackNext == \E n \in Id : OpenFile(n) \/ WriteFile(n) \/ RestoreFails(n) \/ Restored(n)
Next == (\E n \in Id : BeginRestore(n)) \/ UnpackNext \/ Exit \/ Crash \/ Finish \/ SetUp

(* The timer of the exit fires, and the hub is started again: by the cloud it  *)
(* runs in, or by its user, as the page asks him to.                           *)
Fairness == WF_vars(Exit) /\ WF_vars(Finish)
Spec == Init /\ [][Next]_vars
FairSpec == Spec /\ Fairness

--------------------------------------------------------------------------------
(* A hub that comes up after a restore was answered has the archive as a whole *)
(* and nothing of before beside it under the same names, wherever the start    *)
(* that moved it in crashed and began anew.  Excepted is an archive that was   *)
(* unpacked over what another restore had left.                                *)
RestoredWhole ==
  process = "up" /\ accepted # 0 /\ ~Exiting /\ ~mixed =>
    LET archive == request[accepted].archive
    IN \A f \in File : (\E g \in archive : Top[f] = Top[g]) =>
         work[f] = IF f \in archive THEN Whole(accepted) ELSE Absent

(* A restore that was answered comes to its end: the hub comes up with it.     *)
Awaited == Exiting /\ ~mixed
RestoreEnds == Awaited ~> (process = "up" /\ ~Exiting) \/ mixed
================================================================================
