---------------------------- MODULE PersistJSON -----------------------------
(***************************************************************************)
(* persistJSON (persist.go), down to the system calls: open-truncate and    *)
(* write of path.tmp, then rename over path.  Its callers are of two kinds. *)
(* "exclusive": taskStore, claimStore, escalationStore, feedbackStore and   *)
(* the other stores call it while they hold the store's lock exclusively.   *)
(* Otherwise messageStore.persistAsync starts a goroutine that reads        *)
(* s.messages without the lock and then holds it shared, so that several    *)
(* may be inside persistJSON at once; only a change of the store waits.     *)
(* "spaced" is that code when no message comes before the save of the last  *)
(* one has ended, "overlapping" is that code whenever messages come.        *)
(*                                                                         *)
(* A version is a state of the slice; the new elements it points to travel  *)
(* with every version and are not told apart.                               *)
(***************************************************************************)
EXTENDS Integers

CONSTANTS
  Writer,      \* the calls of persistJSON that may be under way
  Inode,       \* files on disk, named or open
  Size,        \* the length of each version's encoding
  MaxVersion,  \* bound on the changes explored
  Discipline,  \* the kinds of store explored
  MaxRestarts, \* bound on the restarts explored
  None         \* no file

ASSUME PersistAssumption ==
  /\ MaxVersion \in Nat /\ MaxRestarts \in Nat
  /\ Size \in [1..MaxVersion -> Nat \ {0}]
  /\ Discipline \subseteq {"exclusive", "spaced", "overlapping"}
  /\ None \notin Inode

VARIABLES
  kind,    \* the kind of store
  mem,     \* the version in memory
  pc,      \* where each call stands
  data,    \* the version it encodes
  fd,      \* the file it has open
  tmp,     \* what path.tmp names
  file,    \* what path names
  content, \* of each file: the version at its head, and its length
  restarts

vars == <<kind, mem, pc, data, fd, tmp, file, content, restarts>>

Empty == [head |-> 0, len |-> 0]

(* Inside persistJSON, the lock held. *)
Holding == {"holding", "opened", "written"}

Free == Inode \ ({tmp, file} \cup {fd[w] : w \in Writer})

Init ==
  /\ kind \in Discipline
  /\ mem = 0
  /\ pc = [w \in Writer |-> "idle"]
  /\ data = [w \in Writer |-> 0]
  /\ fd = [w \in Writer |-> None]
  /\ tmp = None /\ file = None
  /\ content = [i \in Inode |-> Empty]
  /\ restarts = 0

GoTo(w, label) == pc' = [pc EXCEPT ![w] = label]

-----------------------------------------------------------------------------
(* The exclusive lock is free; in a spaced store nothing is under way. *)
MayChange ==
  \A u \in Writer : pc[u] \notin Holding /\ (kind = "spaced" => pc[u] = "idle")

(* Mutant of Change: the lock is given up before the file is written. *)
ChangeUnlocked(w) ==
  /\ pc[w] = "idle"
  /\ kind = "exclusive" \/ MayChange
  /\ mem' \in {mem, mem + 1} /\ mem' \in 1..MaxVersion
  /\ IF kind = "exclusive"
     THEN /\ data' = [data EXCEPT ![w] = mem']
          /\ GoTo(w, "holding")
     ELSE GoTo(w, "spawned") /\ UNCHANGED data
  /\ UNCHANGED <<kind, fd, tmp, file, content, restarts>>

(* A change of the store, under the exclusive lock, and its save.  Some     *)
(* changes leave the slice as it is.                                        *)
Change(w) ==
  /\ pc[w] = "idle"
  /\ MayChange
  /\ mem' \in {mem, mem + 1} /\ mem' \in 1..MaxVersion
  /\ IF kind = "exclusive"
     THEN /\ data' = [data EXCEPT ![w] = mem']
          /\ GoTo(w, "holding")
     ELSE GoTo(w, "spawned") /\ UNCHANGED data
  /\ UNCHANGED <<kind, fd, tmp, file, content, restarts>>

(* persistAsync's goroutine evaluates s.messages, the argument ... *)
Capture(w) ==
  /\ pc[w] = "spawned"
  /\ data' = [data EXCEPT ![w] = mem]
  /\ GoTo(w, "captured")
  /\ UNCHANGED <<kind, mem, fd, tmp, file, content, restarts>>

(* ... and persistJSON takes the lock shared. *)
RLock(w) ==
  /\ pc[w] = "captured"
  /\ GoTo(w, "holding")
  /\ UNCHANGED <<kind, mem, data, fd, tmp, file, content, restarts>>

(* Mutant of Open: no O_TRUNC. *)
OpenKeeps(w) ==
  /\ pc[w] = "holding"
  /\ \E i \in IF tmp = None THEN Free ELSE {tmp} :
       /\ tmp' = i
       /\ fd' = [fd EXCEPT ![w] = i]
       /\ content' = IF tmp = None THEN [content EXCEPT ![i] = Empty] ELSE content
  /\ GoTo(w, "opened")
  /\ UNCHANGED <<kind, mem, data, file, restarts>>

(* os.WriteFile: open path.tmp, created if it is not there, and truncate it. *)
Open(w) ==
  /\ pc[w] = "holding"
  /\ \E i \in IF tmp = None THEN Free ELSE {tmp} :
       /\ tmp' = i
       /\ fd' = [fd EXCEPT ![w] = i]
       /\ content' = [content EXCEPT ![i] = Empty]
  /\ GoTo(w, "opened")
  /\ UNCHANGED <<kind, mem, data, file, restarts>>

(* os.WriteFile: write at offset 0; what the file holds beyond it remains. *)
Write(w) ==
  LET n == Size[data[w]]
      c == content[fd[w]] IN
  /\ pc[w] = "opened"
  /\ content' = [content EXCEPT ![fd[w]] =
                   [head |-> data[w], len |-> IF c.len > n THEN c.len ELSE n]]
  /\ fd' = [fd EXCEPT ![w] = None]
  /\ GoTo(w, "written")
  /\ UNCHANGED <<kind, mem, data, tmp, file, restarts>>

(* os.WriteFile fails, on a full disk: persistJSON logs and returns. *)
WriteFails(w) ==
  /\ pc[w] = "opened"
  /\ fd' = [fd EXCEPT ![w] = None]
  /\ GoTo(w, "idle")
  /\ UNCHANGED <<kind, mem, data, tmp, file, content, restarts>>

(* os.Rename; its error, when another call has renamed path.tmp, is ignored. *)
Rename(w) ==
  /\ pc[w] = "written"
  /\ IF tmp = None THEN UNCHANGED <<tmp, file>> ELSE file' = tmp /\ tmp' = None
  /\ GoTo(w, "idle")
  /\ UNCHANGED <<kind, mem, data, fd, content, restarts>>

(* The file that loadJSON accepts: one whole version. *)
Whole(i) == content[i].head # 0 /\ content[i].len = Size[content[i].head]

(* The daemon dies and loads the file, or starts empty if it cannot. *)
Restart ==
  /\ restarts < MaxRestarts
  /\ restarts' = restarts + 1
  /\ mem' = IF file # None /\ Whole(file) THEN content[file].head ELSE 0
  /\ pc' = [w \in Writer |-> "idle"]
  /\ fd' = [w \in Writer |-> None]
  /\ UNCHANGED <<kind, data, tmp, file, content>>

Step(w) ==
  \/ Change(w) \/ Capture(w) \/ RLock(w)
  \/ Open(w) \/ Write(w) \/ WriteFails(w) \/ Rename(w)

Next == Restart \/ \E w \in Writer : Step(w)

Spec == Init /\ [][Next]_vars

-----------------------------------------------------------------------------
TypeOK ==
  /\ kind \in Discipline
  /\ mem \in 0..MaxVersion
  /\ pc \in [Writer -> {"idle", "spawned", "captured"} \cup Holding]
  /\ data \in [Writer -> 0..MaxVersion]
  /\ fd \in [Writer -> Inode \cup {None}]
  /\ tmp \in Inode \cup {None}
  /\ file \in Inode \cup {None}
  /\ content \in [Inode -> [head : 0..MaxVersion, len : Nat]]
  /\ restarts \in Nat

(* persist.go, "persistJSON writes data to a JSON file atomically": at no   *)
(* moment, so at no crash, is path a torn or an empty file.                 *)
FileWhole == file # None => Whole(file)

(* The store's file behaves as one that is replaced in a single step. *)
Abstract == INSTANCE SavedFile
              WITH saved <- IF file = None THEN 0 ELSE content[file].head

AtomicSaves == Abstract!Spec
=============================================================================
