------------------------- MODULE PersistJSON_proofs -------------------------
(***************************************************************************)
(* A store whose saves never overlap, above all one that saves under its    *)
(* exclusive lock, has an atomic file, for any number of callers, whatever  *)
(* the lengths of its versions, and through failed writes and restarts.     *)
(***************************************************************************)
EXTENDS PersistJSON, TLAPS

(* The kinds of store whose saves cannot overlap. *)
NoOverlap == "overlapping" \notin Discipline

(* One call at a time is under way, and saves the version in memory. *)
OneSaves ==
  /\ kind = "exclusive" => \A w \in Writer : pc[w] \in {"idle"} \cup Holding
  /\ \A u, w \in Writer : pc[u] # "idle" /\ pc[w] # "idle" => u = w
  /\ \A w \in Writer : pc[w] # "idle" => mem # 0
  /\ \A w \in Writer : pc[w] \in {"captured"} \cup Holding => data[w] = mem

(* What that call has made of path.tmp, which is never the file itself. *)
TmpPrivate ==
  /\ tmp # None => tmp # file
  /\ \A w \in Writer :
       /\ pc[w] = "opened" => fd[w] = tmp /\ tmp # None /\ content[tmp] = Empty
       /\ pc[w] = "written" => /\ tmp # None
                               /\ content[tmp].head = mem /\ content[tmp].len = Size[mem]

PersistInv == TypeOK /\ OneSaves /\ TmpPrivate /\ FileWhole

(* When saves do not overlap, every step keeps the invariant. *)
LEMMA PersistStep ==
  ASSUME NoOverlap, PersistInv, Next
  PROVE  PersistInv'
<1> USE PersistAssumption DEF PersistInv, Holding, GoTo
<1>0. mem \in Nat /\ MaxVersion \in Nat
  BY DEF TypeOK
<1>k. kind \in {"exclusive", "spaced"}
  BY DEF NoOverlap, TypeOK
<1>1. ASSUME NEW w \in Writer, Change(w) PROVE PersistInv'
  <2>0. /\ \A u \in Writer : pc[u] = "idle"
        /\ mem' \in 1..MaxVersion /\ mem' # 0
        /\ UNCHANGED <<kind, fd, tmp, file, content, restarts>>
    BY <1>1, <1>k DEF Change, MayChange, OneSaves
  <2>1. CASE kind = "exclusive"
    <3>0. pc' = [pc EXCEPT ![w] = "holding"] /\ data' = [data EXCEPT ![w] = mem']
      BY <1>1, <2>1 DEF Change
    <3>1. TypeOK'
      BY <1>0, <2>0, <3>0 DEF TypeOK
    <3>2. OneSaves'
      BY <2>0, <2>1, <3>0 DEF OneSaves, TypeOK
    <3>3. TmpPrivate' /\ FileWhole'
      BY <2>0, <3>0 DEF TypeOK, TmpPrivate, FileWhole, Whole
    <3> QED
      BY <3>1, <3>2, <3>3
  <2>2. CASE kind = "spaced"
    <3>0. pc' = [pc EXCEPT ![w] = "spawned"] /\ data' = data
      BY <1>1, <2>2 DEF Change
    <3>1. TypeOK'
      BY <1>0, <2>0, <3>0 DEF TypeOK
    <3>2. OneSaves'
      BY <2>0, <2>2, <3>0 DEF OneSaves, TypeOK
    <3>3. TmpPrivate' /\ FileWhole'
      BY <2>0, <3>0 DEF TypeOK, TmpPrivate, FileWhole, Whole
    <3> QED
      BY <3>1, <3>2, <3>3
  <2> QED
    BY <1>k, <2>1, <2>2
<1>2. ASSUME NEW w \in Writer, Capture(w) \/ RLock(w) PROVE PersistInv'
  <2>1. CASE Capture(w)
    <3>0. /\ pc[w] = "spawned" /\ pc' = [pc EXCEPT ![w] = "captured"]
          /\ data' = [data EXCEPT ![w] = mem]
          /\ UNCHANGED <<kind, mem, fd, tmp, file, content, restarts>>
      BY <2>1 DEF Capture
    <3>1. TypeOK'
      BY <3>0 DEF TypeOK
    <3>2. OneSaves'
      BY <3>0 DEF OneSaves, TypeOK
    <3>3. TmpPrivate' /\ FileWhole'
      BY <3>0 DEF TypeOK, TmpPrivate, FileWhole, Whole
    <3> QED
      BY <3>1, <3>2, <3>3
  <2>2. CASE RLock(w)
    <3>0. /\ pc[w] = "captured" /\ pc' = [pc EXCEPT ![w] = "holding"]
          /\ UNCHANGED <<kind, mem, data, fd, tmp, file, content, restarts>>
      BY <2>2 DEF RLock
    <3>1. TypeOK'
      BY <3>0 DEF TypeOK
    <3>2. OneSaves'
      BY <3>0 DEF OneSaves, TypeOK
    <3>3. TmpPrivate' /\ FileWhole'
      BY <3>0 DEF TypeOK, TmpPrivate, FileWhole, Whole
    <3> QED
      BY <3>1, <3>2, <3>3
  <2> QED
    BY <1>2, <2>1, <2>2
<1>3. ASSUME NEW w \in Writer, Open(w) PROVE PersistInv'
  <2>1. PICK i \in IF tmp = None THEN Free ELSE {tmp} :
          /\ tmp' = i
          /\ fd' = [fd EXCEPT ![w] = i]
          /\ content' = [content EXCEPT ![i] = Empty]
    BY <1>3 DEF Open
  <2>2. i \in Inode /\ i # file /\ i # None
    BY <2>1 DEF Free, TypeOK, TmpPrivate
  <2>3. pc[w] = "holding" /\ pc' = [pc EXCEPT ![w] = "opened"] /\ UNCHANGED <<kind, mem, data, file, restarts>>
    BY <1>3 DEF Open
  <2>4. TypeOK' /\ OneSaves'
    BY <2>1, <2>2, <2>3 DEF TypeOK, OneSaves, Empty
  <2>5. TmpPrivate'
    BY <2>1, <2>2, <2>3 DEF TypeOK, OneSaves, TmpPrivate
  <2>6. FileWhole'
    BY <2>1, <2>2, <2>3 DEF TypeOK, FileWhole, Whole
  <2> QED
    BY <2>4, <2>5, <2>6
<1>4. ASSUME NEW w \in Writer, Write(w) PROVE PersistInv'
  <2>1. /\ pc[w] = "opened" /\ pc' = [pc EXCEPT ![w] = "written"]
        /\ fd[w] = tmp /\ tmp \in Inode /\ tmp # file /\ content[tmp] = Empty
        /\ data[w] = mem /\ mem \in 1..MaxVersion
        /\ fd' = [fd EXCEPT ![w] = None] /\ UNCHANGED <<kind, mem, data, tmp, file, restarts>>
    BY <1>4 DEF Write, TypeOK, OneSaves, TmpPrivate
  <2>2. content' = [content EXCEPT ![tmp] = [head |-> mem, len |-> Size[mem]]]
    <3>1. Size[mem] \in Nat \ {0}
      BY <2>1
    <3>2. (IF Empty.len > Size[mem] THEN Empty.len ELSE Size[mem]) = Size[mem]
      BY <3>1 DEF Empty
    <3> QED
      BY <1>4, <2>1, <3>2 DEF Write
  <2>3. TypeOK' /\ OneSaves'
    BY <2>1, <2>2 DEF TypeOK, OneSaves
  <2>4. TmpPrivate' /\ FileWhole'
    BY <2>1, <2>2 DEF TypeOK, OneSaves, TmpPrivate, FileWhole, Whole
  <2> QED
    BY <2>3, <2>4
<1>5. ASSUME NEW w \in Writer, WriteFails(w) PROVE PersistInv'
  BY <1>5 DEF WriteFails, TypeOK, OneSaves, TmpPrivate, FileWhole, Whole
<1>6. ASSUME NEW w \in Writer, Rename(w) PROVE PersistInv'
  <2>1. /\ pc[w] = "written" /\ tmp # None /\ file' = tmp /\ tmp' = None
        /\ content[tmp].head = mem /\ content[tmp].len = Size[mem] /\ mem # 0
    BY <1>6 DEF Rename, OneSaves, TmpPrivate
  <2>2. TypeOK' /\ OneSaves'
    BY <1>6 DEF Rename, TypeOK, OneSaves
  <2>3. TmpPrivate' /\ FileWhole'
    BY <1>6, <2>1 DEF Rename, TypeOK, OneSaves, TmpPrivate, FileWhole, Whole
  <2> QED
    BY <2>2, <2>3
<1>7. CASE Restart
  BY <1>7, <1>0 DEF Restart, TypeOK, OneSaves, TmpPrivate, FileWhole, Whole
<1> QED
  BY <1>1, <1>2, <1>3, <1>4, <1>5, <1>6, <1>7 DEF Next, Step

(* The invariant holds in every state. *)
THEOREM PersistInvariant ==
  ASSUME NoOverlap
  PROVE  Spec => []PersistInv
<1>1. Init => PersistInv
  BY PersistAssumption
  DEF Init, PersistInv, TypeOK, OneSaves, TmpPrivate, FileWhole, Holding, Empty
<1>2. PersistInv /\ [Next]_vars => PersistInv'
  <2>1. PersistInv /\ UNCHANGED vars => PersistInv'
    BY DEF vars, PersistInv, TypeOK, OneSaves, TmpPrivate, FileWhole, Whole
  <2> QED
    BY <2>1, PersistStep
<1> QED
  BY <1>1, <1>2, PTL DEF Spec

(* persistJSON without overlapping saves (persist.go): at no moment is the  *)
(* file torn or empty, so no crash loses more than the change under way.    *)
THEOREM SpacedFileWhole ==
  ASSUME NoOverlap
  PROVE  Spec => []FileWhole
<1>1. PersistInv => FileWhole
  BY DEF PersistInv
<1> QED
  BY <1>1, PersistInvariant, PTL

(* persistJSON without overlapping saves implements a file that is replaced *)
(* in one step.                                                             *)
THEOREM SpacedRefines ==
  ASSUME NoOverlap
  PROVE  Spec => AtomicSaves
<1> DEFINE saved == IF file = None THEN 0 ELSE content[file].head
<1>1. Init => Abstract!Init
  BY DEF Init, Abstract!Init
<1>2. PersistInv /\ [Next]_vars => [Abstract!Next]_<<mem, saved>>
  <2> SUFFICES ASSUME PersistInv, [Next]_vars
               PROVE  Abstract!Next \/ UNCHANGED <<mem, saved>>
    OBVIOUS
  <2> USE PersistAssumption
      DEF PersistInv, Abstract!Next, Abstract!Change, Abstract!Save, Abstract!Restart, Holding
  <2>1. ASSUME NEW w \in Writer, Change(w) PROVE Abstract!Change
    BY <2>1 DEF Change
  <2>2. ASSUME NEW w \in Writer, Capture(w) \/ RLock(w) PROVE UNCHANGED <<mem, saved>>
    BY <2>2 DEF Capture, RLock
  <2>3. ASSUME NEW w \in Writer, Open(w) PROVE UNCHANGED <<mem, saved>>
    BY <2>3 DEF Open, Free, TypeOK, TmpPrivate
  <2>4. ASSUME NEW w \in Writer, Write(w) PROVE UNCHANGED <<mem, saved>>
    BY <2>4 DEF Write, TypeOK, TmpPrivate
  <2>5. ASSUME NEW w \in Writer, WriteFails(w) PROVE UNCHANGED <<mem, saved>>
    BY <2>5 DEF WriteFails
  <2>6. ASSUME NEW w \in Writer, Rename(w) PROVE Abstract!Save
    BY <2>6 DEF Rename, TmpPrivate, OneSaves
  <2>7. ASSUME Restart PROVE Abstract!Restart
    BY <2>7 DEF Restart, FileWhole
  <2>8. CASE UNCHANGED vars
    BY <2>8 DEF vars
  <2> QED
    BY <2>1, <2>2, <2>3, <2>4, <2>5, <2>6, <2>7, <2>8 DEF Next, Step
<1> QED
  BY <1>1, <1>2, PersistInvariant, PTL DEF Spec, AtomicSaves, Abstract!Spec
=============================================================================
