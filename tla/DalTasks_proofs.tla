--------------------------- MODULE DalTasks_proofs ---------------------------
(***************************************************************************)
(* The gate, the one-shot limiter and the store keep their promises for any *)
(* number of requests and dals and for every value of the limits.  The      *)
(* limiter comes first, as a specification of its own (LimiterSpec).        *)
(***************************************************************************)
EXTENDS DalTasks, FiniteSetTheorems, WellFoundedInduction, TLAPS

-----------------------------------------------------------------------------
(* The limiter alone. *)

(* Every set of tasks is finite, so it has a size. *)
LEMMA HasSize ==
  ASSUME NEW S \in SUBSET Task
  PROVE  IsFiniteSet(S) /\ Cardinality(S) \in Nat
BY LimiterAssumption, FS_Subset, FS_CardinalityType

(* A restart puts the limiter back in a state that satisfies the invariant. *)
LEMMA EmptyLimiter ==
  ASSUME counter = 0, stage = [w \in Task |-> "idle"],
         current = [w \in Task |-> 0]
  PROVE  LimiterInv
<1>1. Busy = {} /\ Entitled = {}
  BY DEF Busy, Entitled
<1>2. Cardinality({}) = 0
  BY FS_EmptySet
<1> QED
  BY <1>1, <1>2, LimiterAssumption
  DEF LimiterInv, LimiterTypeOK, CounterExact, ClampIdle, Stage

(* One step of a task, or a restart, preserves the invariant. *)
LEMMA LimiterInvStep ==
  ASSUME LimiterInv, LimiterNext
  PROVE  LimiterInv'
<1> USE DEF LimiterInv, LimiterTypeOK, CounterExact, ClampIdle, Stage
<1>f. /\ IsFiniteSet(Busy) /\ Cardinality(Busy) \in Nat
      /\ IsFiniteSet(Entitled) /\ Cardinality(Entitled) \in Nat
      /\ Cardinality(Entitled) <= Cardinality(Busy)
  <2>1. Busy \in SUBSET Task /\ Entitled \in SUBSET Busy
    BY DEF Busy, Entitled
  <2> QED
    BY <2>1, HasSize, FS_Subset
<1>m. MaxOneshot \in Nat \ {0}
  BY LimiterAssumption
<1>1. ASSUME NEW w \in Task, Add(w) PROVE LimiterInv'
  <2>1. Busy' = Busy \cup {w} /\ w \notin Busy
    BY <1>1 DEF Add, Busy
  <2>2. Entitled' = IF counter + 1 <= MaxOneshot THEN Entitled \cup {w} ELSE Entitled
    BY <1>1 DEF Add, Entitled, Busy
  <2>3. Cardinality(Busy') = counter + 1
    BY <2>1, <1>f, FS_AddElement
  <2>4. Cardinality(Entitled') <= MaxOneshot
    <3>1. CASE counter + 1 <= MaxOneshot
      <4>1. Cardinality(Entitled \cup {w}) = Cardinality(Entitled) + 1
        <5>1. w \notin Entitled
          BY <2>1 DEF Entitled
        <5> QED
          BY <5>1, <1>f, FS_AddElement
      <4>2. Entitled' = Entitled \cup {w}
        BY <3>1, <2>2
      <4>3. Cardinality(Entitled) + 1 <= MaxOneshot
        BY <3>1, <1>f, <1>m
      <4> QED
        BY <4>1, <4>2, <4>3
    <3>2. CASE ~(counter + 1 <= MaxOneshot)
      BY <3>2, <2>2
    <3> QED
      BY <3>1, <3>2
  <2> QED
    BY <1>1, <2>3, <2>4 DEF Add
<1>2. ASSUME NEW w \in Task, Admit(w) PROVE LimiterInv'
  <2>1. Busy' = Busy /\ Entitled' = Entitled
    BY <1>2 DEF Admit, Busy, Entitled
  <2> QED
    BY <1>2, <2>1 DEF Admit
<1>3. ASSUME NEW w \in Task, Reject(w) PROVE LimiterInv'
  <2>1. Busy' = Busy \ {w} /\ w \in Busy
    BY <1>3 DEF Reject, Busy
  <2>2. Entitled' = Entitled
    BY <1>3, <1>m DEF Reject, Entitled, Busy
  <2>3. Cardinality(Busy') = counter - 1
    BY <2>1, <1>f, FS_RemoveElement
  <2> QED
    BY <1>3, <2>2, <2>3 DEF Reject
<1>4. ASSUME NEW w \in Task, Release(w) PROVE LimiterInv'
  <2>1. Busy' = Busy \ {w} /\ w \in Busy
    BY <1>4 DEF Release, Busy
  <2>2. Entitled' = Entitled \ {w}
    BY <1>4 DEF Release, Entitled, Busy
  <2>3. Cardinality(Busy') = counter - 1 /\ Cardinality(Busy') \in Nat
    <3>1. IsFiniteSet(Busy \ {w}) /\ Cardinality(Busy \ {w}) = counter - 1
      BY <2>1, <1>f, FS_RemoveElement
    <3> QED
      BY <3>1, <2>1, FS_CardinalityType
  <2>4. Cardinality(Entitled') <= MaxOneshot
    <3>1. Cardinality(Entitled \ {w}) <= Cardinality(Entitled)
      <4>1. Entitled \ {w} \in SUBSET Entitled
        OBVIOUS
      <4> QED
        BY <4>1, <1>f, FS_Subset
    <3>2. Cardinality(Entitled \ {w}) \in Nat
      BY <1>f, FS_RemoveElement, FS_CardinalityType
    <3> QED
      BY <3>1, <3>2, <2>2, <1>f, <1>m
  <2> QED
    BY <1>4, <2>3, <2>4 DEF Release
<1>5. ASSUME NEW w \in Task, Clamp(w) PROVE LimiterInv'
  <2>1. counter' = counter
    BY <1>5 DEF Clamp
  <2>2. Busy' = Busy /\ Entitled' = Entitled
    BY <1>5 DEF Clamp, Busy, Entitled
  <2>3. LimiterTypeOK' /\ ClampIdle'
    BY <1>5, <2>1 DEF Clamp
  <2>4. CounterExact' /\ Cardinality(Entitled)' <= MaxOneshot
    BY <2>1, <2>2
  <2> QED
    BY <2>3, <2>4
<1>6. CASE Reset
  <2>1. Busy' = {} /\ Entitled' = {}
    BY <1>6 DEF Reset, Busy, Entitled
  <2> QED
    BY <1>6, <2>1, <1>m, FS_EmptySet DEF Reset
<1> QED
  BY <1>1, <1>2, <1>3, <1>4, <1>5, <1>6 DEF LimiterNext, LimiterStep

(* The invariant holds in every state of the limiter. *)
THEOREM LimiterInvariant == LimiterSpec => []LimiterInv
<1>1. LimiterInit => LimiterInv
  BY EmptyLimiter DEF LimiterInit
<1>2. LimiterInv /\ [LimiterNext]_limiterVars => LimiterInv'
  <2>1. LimiterInv /\ UNCHANGED limiterVars => LimiterInv'
    BY DEF limiterVars, LimiterInv, LimiterTypeOK, CounterExact, ClampIdle,
           Busy, Entitled
  <2> QED
    BY <2>1, LimiterInvStep
<1> QED
  BY <1>1, <1>2, PTL DEF LimiterSpec

(* TaskLimiter.Acquire and Release (task_limiter.go): no interleaving lets  *)
(* more than MaxOneshot one-shot tasks hold a slot.                         *)
THEOREM LimiterBound == LimiterSpec => []HoldersBounded
<1>1. LimiterInv => HoldersBounded
  <2> SUFFICES ASSUME LimiterInv PROVE HoldersBounded
    OBVIOUS
  <2>1. Holders \in SUBSET Entitled /\ Entitled \in SUBSET Task
    BY DEF Holders, Entitled, Busy
  <2>2. Cardinality(Holders) <= Cardinality(Entitled)
    BY <2>1, HasSize, FS_Subset
  <2>3. Holders \in SUBSET Task
    BY DEF Holders
  <2> QED
    BY <2>1, <2>2, <2>3, HasSize, LimiterAssumption
    DEF LimiterInv, HoldersBounded
<1> QED
  BY <1>1, LimiterInvariant, PTL

(* The counter of task_limiter.go never drifts from the slots in use, and   *)
(* its clamp at zero never acts.                                            *)
THEOREM LimiterExact == LimiterSpec => [](CounterExact /\ ClampIdle)
<1>1. LimiterInv => CounterExact /\ ClampIdle
  BY DEF LimiterInv
<1> QED
  BY <1>1, LimiterInvariant, PTL

-----------------------------------------------------------------------------
(* Every set of tasks is finite and its parts are no larger. *)
LEMMA TasksFinite ==
  ASSUME NEW S \in SUBSET Task, NEW R \in SUBSET S
  PROVE  /\ IsFiniteSet(S) /\ Cardinality(S) \in Nat
         /\ IsFiniteSet(R) /\ Cardinality(R) \in Nat
         /\ Cardinality(R) <= Cardinality(S)
BY TasksAssumption, LimiterAssumption, FS_Subset, FS_CardinalityType

(* A nonempty set with a rank has a member of the lowest rank. *)
LEMMA Oldest ==
  ASSUME NEW S \in SUBSET Task, S # {}, NEW b \in [Task -> Nat]
  PROVE  \E u \in S : \A v \in S : b[u] <= b[v]
<1> DEFINE T == {b[u] : u \in S}
           Below == {p \in Nat \X Nat : p[1] < p[2]}
<1>1. T \in SUBSET Nat /\ T # {}
  OBVIOUS
<1>2. IsWellFoundedOn(Below, Nat)
  <2>1. OpToRel(<, Nat) = Below
    BY Zenon DEF OpToRel
  <2> QED
    BY <2>1, NatLessThanWellFounded
<1>3. PICK n \in T : \A m \in T : ~(<<m, n>> \in Below)
  <2> HIDE DEF T, Below
  <2> QED
    BY <1>1, <1>2, WFMin
<1>4. ASSUME NEW m \in T PROVE n <= m
  <2>1. m \in Nat /\ n \in Nat
    <3> HIDE DEF T
    <3> QED
      BY <1>1
  <2>2. ~(m < n)
    BY <1>3, <2>1
  <2> QED
    BY <2>1, <2>2
<1> QED
  BY <1>4

(* ... and, if the ranks are bounded, one of the highest. *)
LEMMA Youngest ==
  ASSUME NEW S \in SUBSET Task, S # {}, NEW b \in [Task -> Nat], NEW n \in Nat,
         \A u \in S : b[u] < n
  PROVE  \E u \in S : \A v \in S : b[v] <= b[u]
<1> DEFINE c == [u \in Task |-> IF u \in S THEN n - b[u] ELSE 0]
<1>1. c \in [Task -> Nat]
  OBVIOUS
<1>2. PICK u \in S : \A v \in S : c[u] <= c[v]
  <2> HIDE DEF c
  <2> QED
    BY <1>1, Oldest
<1>3. \A v \in S : n - b[u] <= n - b[v] /\ b[u] \in Nat /\ b[v] \in Nat
  BY <1>2
<1> QED
  BY <1>3

(* New's eviction drops at most one task, and one that is not running. *)
LEMMA EvictKeeps ==
  ASSUME NEW s \in SUBSET Task, NEW st \in [Task -> Status], NEW b \in [Task -> Nat]
  PROVE  /\ Evict(s, st, b) \subseteq s
         /\ \A t \in s : st[t] = "running" => t \in Evict(s, st, b)
<1> DEFINE old == {u \in s : st[u] # "running"}
           least == CHOOSE u \in old : \A v \in old : b[u] <= b[v]
<1>1. CASE old = {}
  BY <1>1 DEF Evict
<1>2. CASE old # {}
  <2>1. \E u \in old : \A v \in old : b[u] <= b[v]
    <3>1. old \in SUBSET Task
      OBVIOUS
    <3> HIDE DEF old
    <3> QED
      BY <1>2, <3>1, Oldest
  <2>2. least \in old
    BY <2>1
  <2> QED
    BY <2>2 DEF Evict
<1> QED
  BY <1>1, <1>2

-----------------------------------------------------------------------------
(* A step that creates no task and makes none run. *)
NoNewWork ==
  /\ NotCreated' = NotCreated
  /\ UNCHANGED <<store, born, clock>>
  /\ \A t \in Task \ NotCreated : req'[t] = req[t]
  /\ \A t \in Task : status'[t] = "running" => status[t] = "running"

(* ... nor touches a record or the file, ... *)
StoreQuiet == NoNewWork /\ UNCHANGED <<status, disk>>

(* ... or settles one record, and saves the store or does not. *)
StoreSettles(t) ==
  /\ NoNewWork
  /\ t \in Task \ NotCreated
  /\ \E st \in Settled : status' = [status EXCEPT ![t] = st]
  /\ disk' \in {disk, Saved(store, status')}

PastGate == {"gated", "acquiring", "executing"}

(* A step in which no task lists others or passes its gate. *)
GateQuiet ==
  /\ NoNewWork
  /\ \A t \in Task :
       /\ pc'[t] = "gating" => pc[t] = "gating" /\ snap'[t] = snap[t]
       /\ pc'[t] \in PastGate => pc[t] \in PastGate

(* The tasks a gate must count can only become fewer. *)
LEMMA EarlierShrinks ==
  ASSUME TypeOK, Traceless, NoNewWork, NEW t \in Task \ NotCreated
  PROVE  Earlier(t)' \subseteq Earlier(t)
<1> SUFFICES ASSUME NEW u \in Earlier(t)' PROVE u \in Earlier(t)
  OBVIOUS
<1>1. u \in store /\ status'[u] = "running" /\ req'[u].dal = req'[t].dal /\ born[u] < born[t]
  BY DEF Earlier, Running, NoNewWork
<1>2. u \in Task /\ status[u] = "running"
  BY <1>1 DEF TypeOK, NoNewWork
<1>3. u \notin NotCreated
  BY <1>1, <1>2 DEF Traceless
<1> QED
  BY <1>1, <1>2, <1>3 DEF Earlier, Running, NoNewWork

(* A step that touches neither a record nor the file keeps what the store  *)
(* promises.                                                                *)
LEMMA QuietStoreKept ==
  ASSUME TypeOK, StoreInv, StoreQuiet
  PROVE  StoreInv'
<1>1. Traceless' /\ StoreRecorded' /\ FileListsStore' /\ FileNeverAhead'
  BY DEF StoreInv, StoreQuiet, NoNewWork, Traceless, StoreRecorded,
         FileListsStore, FileNeverAhead
<1>2. LiveTaskKept'
  <2> SUFFICES ASSUME NEW t \in Task, status[t] = "running" PROVE t \in store
    BY DEF StoreQuiet, NoNewWork, LiveTaskKept
  <2>1. t \notin NotCreated
    BY DEF StoreInv, Traceless
  <2> QED
    BY <2>1 DEF StoreInv, LiveTaskKept, NotCreated, TypeOK
<1> QED
  BY <1>1, <1>2 DEF StoreInv

(* So does one that settles a record, saved or not. *)
LEMMA SettledStoreKept ==
  ASSUME TypeOK, StoreInv, NEW t \in Task, StoreSettles(t)
  PROVE  StoreInv'
<1>1. PICK st \in Settled : status' = [status EXCEPT ![t] = st]
  BY DEF StoreSettles
<1>2. /\ NotCreated' = NotCreated /\ store' = store
      /\ t \notin NotCreated
      /\ store \subseteq Task /\ status \in [Task -> Status] /\ disk \in [Task -> Status]
      /\ disk' \in {disk, Saved(store, status')}
  BY DEF StoreSettles, NoNewWork, TypeOK
<1>3. \A u \in Task : status'[u] = IF u = t THEN st ELSE status[u]
  BY <1>1, <1>2
<1>4. \A u \in Task :
        disk'[u] = disk[u] \/ disk'[u] = IF u \in store THEN status'[u] ELSE "none"
  BY <1>2 DEF Saved
<1>5. StoreRecorded'
  BY <1>2, <1>3 DEF StoreInv, StoreRecorded, Settled
<1>6. Traceless'
  BY <1>2, <1>3, <1>4 DEF StoreInv, Traceless, NotCreated
<1>7. FileListsStore'
  BY <1>2, <1>4, <1>5 DEF StoreInv, FileListsStore, StoreRecorded
<1>8. FileNeverAhead'
  BY <1>2, <1>3, <1>4 DEF StoreInv, FileNeverAhead, Settled
<1>9. LiveTaskKept'
  <2> SUFFICES ASSUME NEW u \in Task, status'[u] = "running" PROVE u \in store
    BY <1>2 DEF LiveTaskKept
  <2>1. status[u] = "running"
    BY <1>3 DEF Settled
  <2>2. u \notin NotCreated
    BY <2>1 DEF StoreInv, Traceless
  <2> QED
    BY <2>1, <2>2 DEF StoreInv, LiveTaskKept, NotCreated, TypeOK
<1> QED
  BY <1>5, <1>6, <1>7, <1>8, <1>9 DEF StoreInv

(* A task that passed its gate stays within the limit as long as no work    *)
(* is added.                                                                *)
LEMMA StillCounted ==
  ASSUME TypeOK, StoreInv, GateInv, NoNewWork,
         NEW t \in Task \ NotCreated, pc[t] \in PastGate
  PROVE  Cardinality(Earlier(t)') < req'[t].limit
<1>1. Earlier(t)' \subseteq Earlier(t)
  BY EarlierShrinks DEF StoreInv
<1>2. Earlier(t) \in SUBSET Task
  BY DEF Earlier, Running, TypeOK
<1>3. /\ Cardinality(Earlier(t)') \in Nat /\ Cardinality(Earlier(t)) \in Nat
      /\ Cardinality(Earlier(t)') <= Cardinality(Earlier(t))
  BY <1>1, <1>2, TasksFinite
<1>4. Cardinality(Earlier(t)) < req[t].limit
  BY DEF GateInv, GateCounted, PastGate
<1>5. req'[t].limit = req[t].limit /\ req[t].limit \in Nat
  BY DEF NoNewWork, TypeOK, Request
<1> QED
  BY <1>3, <1>4, <1>5

(* A step in which nobody lists tasks or passes a gate keeps what the gates *)
(* have seen and counted.                                                   *)
LEMMA QuietGateKept ==
  ASSUME TypeOK, StoreInv, GateInv, GateQuiet
  PROVE  GateInv'
<1>1. BirthOrder'
  BY DEF GateInv, GateQuiet, NoNewWork, BirthOrder
<1>2. GateSees'
  <2> SUFFICES ASSUME NEW t \in Task, pc'[t] = "gating" PROVE Earlier(t)' \subseteq snap'[t]
    BY DEF GateSees
  <2>1. pc[t] = "gating" /\ snap'[t] = snap[t]
    BY DEF GateQuiet
  <2>2. Earlier(t)' \subseteq Earlier(t)
    BY <2>1, EarlierShrinks DEF GateQuiet, StoreInv, NotCreated
  <2> QED
    BY <2>1, <2>2 DEF GateInv, GateSees
<1>3. GateCounted'
  <2> SUFFICES ASSUME NEW t \in Task, pc'[t] \in PastGate
               PROVE  Cardinality(Earlier(t)') < req'[t].limit
    BY DEF GateCounted, PastGate
  <2>1. pc[t] \in PastGate
    BY DEF GateQuiet
  <2>2. t \in Task \ NotCreated
    BY <2>1 DEF NotCreated, PastGate
  <2> QED
    BY <2>1, <2>2, StillCounted DEF GateQuiet
<1> QED
  BY <1>1, <1>2, <1>3 DEF GateInv

(* A task is created for a request that had none. *)
BeginsWork(t) ==
  /\ t \in NotCreated
  /\ NotCreated' = NotCreated \ {t}
  /\ pc'[t] \in {"created", "tracked"}
  /\ snap' = snap
  /\ \A u \in Task \ {t} : pc'[u] = pc[u] /\ req'[u] = req[u]

(* taskStore.New keeps what the store promises: the eviction drops a task   *)
(* that has settled, and the file is written after it.                      *)
LEMMA NewTaskStore ==
  ASSUME TypeOK, StoreInv, NEW t \in Task, BeginsWork(t), NewTask(t)
  PROVE  /\ StoreInv'
         /\ status' \in [Task -> Status] /\ disk' \in [Task -> Status]
         /\ born' \in [Task -> Nat] /\ clock' \in Nat /\ store' \subseteq Task
<1> DEFINE s == store \cup {t}
<1>1. /\ status' \in [Task -> Status] /\ born' \in [Task -> Nat] /\ clock' \in Nat
      /\ s \in SUBSET Task
  BY DEF TypeOK, NewTask, Status
<1>2. /\ store' \subseteq s
      /\ \A u \in s : status'[u] = "running" => u \in store'
  BY <1>1, EvictKeeps DEF NewTask
<1>3. \A u \in Task : status'[u] = IF u = t THEN "running" ELSE status[u]
  BY DEF NewTask, TypeOK
<1>4. \A u \in Task : disk'[u] = IF u \in store' THEN status'[u] ELSE "none"
  BY DEF NewTask, Saved
<1>5. disk' \in [Task -> Status]
  BY <1>1 DEF NewTask, Saved, Status
<1>6. Traceless'
  BY <1>2, <1>3, <1>4 DEF StoreInv, Traceless, BeginsWork, NotCreated
<1>7. StoreRecorded'
  BY <1>1, <1>2, <1>3 DEF StoreInv, StoreRecorded
<1>8. LiveTaskKept'
  <2> SUFFICES ASSUME NEW u \in Task, status'[u] = "running" PROVE u \in store'
    BY DEF LiveTaskKept
  <2>1. CASE u = t
    BY <2>1, <1>2
  <2>2. CASE u # t
    <3>1. status[u] = "running" /\ u \notin NotCreated
      BY <2>2, <1>3 DEF StoreInv, Traceless
    <3>2. u \in store
      BY <3>1 DEF StoreInv, LiveTaskKept, NotCreated, TypeOK
    <3> QED
      BY <3>2, <1>2
  <2> QED
    BY <2>1, <2>2
<1>9. FileListsStore'
  BY <1>1, <1>2, <1>4, <1>7 DEF FileListsStore, StoreRecorded
<1>10. FileNeverAhead'
  BY <1>4 DEF FileNeverAhead, Settled
<1> QED
  BY <1>1, <1>2, <1>5, <1>6, <1>7, <1>8, <1>9, <1>10 DEF StoreInv

(* A new task is younger than all others, so no gate had to count it. *)
LEMMA NewTaskGate ==
  ASSUME TypeOK, StoreInv, GateInv, NEW t \in Task, BeginsWork(t), NewTask(t)
  PROVE  GateInv'
<1>1. clock \in Nat /\ clock' = clock + 1 /\ born \in [Task -> Nat]
      /\ \A u \in Task : born'[u] = IF u = t THEN clock ELSE born[u]
  BY DEF TypeOK, NewTask
<1>2. BirthOrder'
  BY <1>1 DEF GateInv, BirthOrder, BeginsWork, NotCreated
<1>3. ASSUME NEW u \in Task \ NotCreated PROVE Earlier(u)' \subseteq Earlier(u)
  <2> SUFFICES ASSUME NEW v \in Earlier(u)' PROVE v \in Earlier(u)
    OBVIOUS
  <2>1. u # t /\ born[u] < clock
    BY <1>3 DEF BeginsWork, GateInv, BirthOrder
  <2>2. /\ v \in store' /\ status'[v] = "running" /\ req'[v].dal = req'[u].dal
        /\ born'[v] < born'[u]
    BY DEF Earlier, Running
  <2>3. v \in store \cup {t} /\ v \in Task
    <3>1. /\ status' \in [Task -> Status] /\ born' \in [Task -> Nat]
          /\ store \cup {t} \in SUBSET Task
      BY DEF TypeOK, NewTask, Status
    <3> QED
      BY <2>2, <3>1, EvictKeeps DEF NewTask
  <2>4. v # t
    BY <1>1, <2>1, <2>2
  <2>5. status[v] = "running" /\ req'[v] = req[v] /\ req'[u] = req[u] /\ born[v] < born[u]
    BY <1>1, <2>1, <2>2, <2>3, <2>4 DEF NewTask, TypeOK, BeginsWork
  <2> QED
    BY <2>2, <2>3, <2>4, <2>5 DEF Earlier, Running
<1>4. ASSUME NEW u \in Task, pc'[u] \in PastGate \cup {"gating"}
      PROVE  u \notin NotCreated /\ pc'[u] = pc[u] /\ req'[u] = req[u] /\ snap'[u] = snap[u]
  BY <1>4 DEF BeginsWork, PastGate, NotCreated
<1>5. GateSees'
  BY <1>3, <1>4 DEF GateInv, GateSees
<1>6. GateCounted'
  <2> SUFFICES ASSUME NEW u \in Task, pc'[u] \in PastGate
               PROVE  Cardinality(Earlier(u)') < req'[u].limit
    BY DEF GateCounted, PastGate
  <2>1. u \notin NotCreated /\ pc[u] \in PastGate /\ req'[u] = req[u]
    BY <1>4
  <2>2. Earlier(u) \in SUBSET Task
    BY DEF Earlier, Running, TypeOK
  <2>3. /\ Cardinality(Earlier(u)') \in Nat /\ Cardinality(Earlier(u)) \in Nat
        /\ Cardinality(Earlier(u)') <= Cardinality(Earlier(u))
    BY <1>3, <2>1, <2>2, TasksFinite
  <2>4. Cardinality(Earlier(u)) < req[u].limit /\ req[u].limit \in Nat
    BY <2>1 DEF GateInv, GateCounted, PastGate, TypeOK, Request
  <2> QED
    BY <2>1, <2>3, <2>4
<1> QED
  BY <1>2, <1>5, <1>6 DEF GateInv

(* Complete settles a task of the store, or does nothing. *)
LEMMA CompleteKept ==
  ASSUME TypeOK, StoreInv, NEW t \in Task, NEW outcome \in Settled, Complete(t, outcome),
         NotCreated' = NotCreated, req' = req
  PROVE  /\ NoNewWork /\ StoreInv'
         /\ status' \in [Task -> Status] /\ disk' \in [Task -> Status]
<1>1. CASE t \in store
  <2>1. /\ status' = [status EXCEPT ![t] = outcome] /\ disk' = Saved(store, status')
        /\ UNCHANGED <<store, born, clock>>
    BY <1>1 DEF Complete, Record
  <2>2. t \in Task \ NotCreated
    BY <1>1 DEF StoreInv, Traceless
  <2>3. status' \in [Task -> Status]
    BY <2>1 DEF TypeOK, Status
  <2>4. NoNewWork
    BY <2>1 DEF NoNewWork, TypeOK, Settled
  <2>5. StoreSettles(t)
    BY <2>1, <2>2, <2>4 DEF StoreSettles
  <2>6. disk' \in [Task -> Status]
    BY <2>1, <2>3 DEF Saved, Status
  <2> QED
    BY <2>3, <2>4, <2>5, <2>6, SettledStoreKept
<1>2. CASE t \notin store
  <2>1. StoreQuiet
    BY <1>2 DEF Complete, storeVars, StoreQuiet, NoNewWork
  <2> QED
    BY <2>1, QuietStoreKept DEF StoreQuiet, TypeOK
<1> QED
  BY <1>1, <1>2

(* A step that leaves the limiter alone keeps its invariant. *)
LEMMA SlotsKept ==
  ASSUME LimiterInv, UNCHANGED limiterVars
  PROVE  LimiterInv'
BY DEF limiterVars, LimiterInv, LimiterTypeOK, CounterExact,
       ClampIdle, Busy, Entitled

-----------------------------------------------------------------------------
(* The step lemma: every action keeps the inductive invariant.                *)
LEMMA TasksInvStep ==
  ASSUME TasksInv, Next
  PROVE  TasksInv'
<1>t. TypeOK /\ StoreInv /\ GateInv /\ SlotHeld /\ LimiterInv
  BY DEF TasksInv
<1>l. \A isLeader \in BOOLEAN : GateLimit(isLeader) \in Nat
  BY TasksAssumption, LimiterAssumption DEF GateLimit
<1>1. ASSUME NEW t \in Task, NEW d \in Dal, NEW m \in Mode, Submit(t, d, m) PROVE TasksInv'
  <2>1. LimiterInv'
    BY <1>1, <1>t, SlotsKept DEF Submit
  <2>0. [dal |-> d, mode |-> m, limit |-> GateLimit(d \in Leader)] \in Request
    <3>1. GateLimit(d \in Leader) \in Nat
      BY TasksAssumption, LimiterAssumption DEF GateLimit
    <3>2. d \in Dal \cup {None} /\ m \in AllModes
      BY TasksAssumption, LimiterAssumption
    <3> QED
      BY <3>1, <3>2 DEF Request
  <2>2. TypeOK'
    BY <1>1, <2>0, <2>1, <1>t, TasksAssumption, LimiterAssumption
    DEF Submit, TypeOK, LimiterInv, AllModes, Pc, Status, Settled,
        SameDal, storeVars, handlerVars, expiryVars, limiterVars, Record, GoTo
  <2>3. StoreQuiet
    BY <1>1, <1>t DEF Submit, AllModes, StoreQuiet, NoNewWork, NotCreated, GoTo, TypeOK, Pc,
       storeVars, handlerVars
  <2>4. StoreInv'
    BY <2>3, <1>t, QuietStoreKept
  <2>5. GateQuiet
    BY <1>1, <2>3, <1>t DEF Submit, AllModes, GateQuiet, StoreQuiet, PastGate, GoTo, TypeOK, Pc, handlerVars
  <2>6. GateInv'
    BY <2>5, <1>t, QuietGateKept
  <2>9. SlotHeld'
    BY <1>1, <1>t DEF Submit, AllModes, SlotHeld, GoTo, TypeOK, handlerVars, limiterVars, NoRequest
  <2> QED
    BY <2>1, <2>2, <2>4, <2>6, <2>9 DEF TasksInv
<1>2. ASSUME NEW t \in Task, Accept(t) PROVE TasksInv'
  <2>1. LimiterInv'
    BY <1>2, <1>t, SlotsKept DEF Accept
  <2>2. TypeOK'
    BY <1>2, <2>1, <1>t, <1>l, TasksAssumption, LimiterAssumption
    DEF Accept, TypeOK, LimiterInv, Pc, Status, Settled, Request, NoRequest,
        SameDal, storeVars, handlerVars, expiryVars, limiterVars, Record, GoTo
  <2>3. StoreQuiet
    BY <1>2, <1>t DEF Accept, StoreQuiet, NoNewWork, NotCreated, GoTo, TypeOK, Pc,
       storeVars, handlerVars
  <2>4. StoreInv'
    BY <2>3, <1>t, QuietStoreKept
  <2>5. GateQuiet
    BY <1>2, <2>3, <1>t DEF Accept, GateQuiet, StoreQuiet, PastGate, GoTo, TypeOK, Pc, handlerVars
  <2>6. GateInv'
    BY <2>5, <1>t, QuietGateKept
  <2>9. SlotHeld'
    BY <1>2, <1>t DEF Accept, SlotHeld, GoTo, TypeOK, handlerVars, limiterVars, NoRequest
  <2> QED
    BY <2>1, <2>2, <2>4, <2>6, <2>9 DEF TasksInv
<1>3. ASSUME NEW t \in Task, Refuse(t) PROVE TasksInv'
  <2>1. LimiterInv'
    BY <1>3, <1>t, SlotsKept DEF Refuse
  <2>2. TypeOK'
    BY <1>3, <2>1, <1>t, <1>l, TasksAssumption, LimiterAssumption
    DEF Refuse, TypeOK, LimiterInv, AllModes, Pc, Status, Settled, Request, NoRequest,
        SameDal, storeVars, handlerVars, expiryVars, limiterVars, Record, GoTo
  <2>3. StoreQuiet
    BY <1>3, <1>t DEF Refuse, AllModes, StoreQuiet, NoNewWork, NotCreated, GoTo, TypeOK, Pc,
       storeVars, handlerVars
  <2>4. StoreInv'
    BY <2>3, <1>t, QuietStoreKept
  <2>5. GateQuiet
    BY <1>3, <2>3, <1>t DEF Refuse, AllModes, GateQuiet, StoreQuiet, PastGate, GoTo, TypeOK, Pc, handlerVars
  <2>6. GateInv'
    BY <2>5, <1>t, QuietGateKept
  <2>9. SlotHeld'
    BY <1>3, <1>t DEF Refuse, AllModes, SlotHeld, GoTo, TypeOK, handlerVars, limiterVars, NoRequest
  <2> QED
    BY <2>1, <2>2, <2>4, <2>6, <2>9 DEF TasksInv
<1>4. ASSUME NEW t \in Task, GateList(t) PROVE TasksInv'
  <2>1. LimiterInv'
    BY <1>4, <1>t, SlotsKept DEF GateList
  <2>2. TypeOK'
    BY <1>4, <2>1, <1>t, <1>l, TasksAssumption, LimiterAssumption
    DEF GateList, TypeOK, LimiterInv, Pc, Status, Settled, Request, NoRequest,
        SameDal, storeVars, handlerVars, expiryVars, limiterVars, Record, GoTo
  <2>3. StoreQuiet
    BY <1>4, <1>t DEF GateList, StoreQuiet, NoNewWork, NotCreated, GoTo, TypeOK, Pc,
       storeVars, handlerVars
  <2>4. StoreInv'
    BY <2>3, <1>t, QuietStoreKept
  <2>5. NoNewWork /\ BirthOrder'
    BY <2>3, <1>t DEF StoreQuiet, NoNewWork, GateInv, BirthOrder
  <2>6. GateSees'
    <3> SUFFICES ASSUME NEW u \in Task, pc'[u] = "gating" PROVE Earlier(u)' \subseteq snap'[u]
      BY DEF GateSees
    <3>1. CASE u = t
      <4>1. snap'[t] = SameDal(t, req[t].dal) /\ t \notin NotCreated
        BY <1>4, <1>t DEF GateList, TypeOK, NotCreated
      <4>2. Earlier(t)' \subseteq Earlier(t)
        BY <4>1, <2>5, <1>t, EarlierShrinks DEF StoreInv
      <4>3. Earlier(t) \subseteq SameDal(t, req[t].dal)
        BY <1>t DEF Earlier, Running, SameDal, TypeOK
      <4> QED
        BY <3>1, <4>1, <4>2, <4>3
    <3>2. CASE u # t
      <4>1. pc[u] = "gating" /\ snap'[u] = snap[u] /\ u \notin NotCreated
        BY <1>4, <1>t, <3>2 DEF GateList, GoTo, TypeOK, NotCreated
      <4>2. Earlier(u)' \subseteq Earlier(u)
        BY <4>1, <2>5, <1>t, EarlierShrinks DEF StoreInv
      <4> QED
        BY <4>1, <4>2, <1>t DEF GateInv, GateSees
    <3> QED
      BY <3>1, <3>2
  <2>7. GateCounted'
    <3> SUFFICES ASSUME NEW u \in Task, pc'[u] \in PastGate
                 PROVE  Cardinality(Earlier(u)') < req'[u].limit
      BY DEF GateCounted, PastGate
    <3>1. pc[u] \in PastGate /\ u \in Task \ NotCreated
      BY <1>4, <1>t DEF GateList, GoTo, TypeOK, NotCreated, PastGate
    <3> QED
      BY <3>1, <2>5, <1>t, StillCounted
  <2>8. GateInv'
    BY <2>5, <2>6, <2>7 DEF GateInv
  <2>9. SlotHeld'
    BY <1>4, <1>t DEF GateList, SlotHeld, GoTo, TypeOK, handlerVars, limiterVars, NoRequest
  <2> QED
    BY <2>1, <2>2, <2>4, <2>8, <2>9 DEF TasksInv
<1>5. ASSUME NEW t \in Task, GatePass(t) PROVE TasksInv'
  <2>1. LimiterInv'
    BY <1>5, <1>t, SlotsKept DEF GatePass
  <2>2. TypeOK'
    BY <1>5, <2>1, <1>t, <1>l, TasksAssumption, LimiterAssumption
    DEF GatePass, TypeOK, LimiterInv, Pc, Status, Settled, Request, NoRequest,
        SameDal, storeVars, handlerVars, expiryVars, limiterVars, Record, GoTo
  <2>3. StoreQuiet
    BY <1>5, <1>t DEF GatePass, StoreQuiet, NoNewWork, NotCreated, GoTo, TypeOK, Pc,
       storeVars, handlerVars
  <2>4. StoreInv'
    BY <2>3, <1>t, QuietStoreKept
  <2>5. NoNewWork /\ BirthOrder'
    BY <2>3, <1>t DEF StoreQuiet, NoNewWork, GateInv, BirthOrder
  <2>6. GateSees'
    <3> SUFFICES ASSUME NEW u \in Task, pc'[u] = "gating" PROVE Earlier(u)' \subseteq snap'[u]
      BY DEF GateSees
    <3>1. pc[u] = "gating" /\ snap'[u] = snap[u] /\ u \notin NotCreated
      BY <1>5, <1>t DEF GatePass, GoTo, TypeOK, NotCreated
    <3>2. Earlier(u)' \subseteq Earlier(u)
      BY <3>1, <2>5, <1>t, EarlierShrinks DEF StoreInv
    <3> QED
      BY <3>1, <3>2, <1>t DEF GateInv, GateSees
  <2>7. GateCounted'
    <3> SUFFICES ASSUME NEW u \in Task, pc'[u] \in PastGate
                 PROVE  Cardinality(Earlier(u)') < req'[u].limit
      BY DEF GateCounted, PastGate
    <3>1. CASE u = t
      <4>1. pc[t] = "gating" /\ RunningCount(t) < req[t].limit /\ req' = req
        BY <1>5 DEF GatePass
      <4>2. Earlier(t)' \subseteq Earlier(t)
        BY <4>1, <2>5, <1>t, EarlierShrinks DEF StoreInv, NotCreated
      <4>3. Earlier(t) \subseteq snap[t] \cap {u_1 \in Task : status[u_1] = "running"}
        BY <4>1, <1>t DEF GateInv, GateSees, Earlier, Running, TypeOK
      <4>4. Cardinality(Earlier(t)') <= RunningCount(t) /\ RunningCount(t) \in Nat
            /\ Cardinality(Earlier(t)') \in Nat
        <5>1. snap[t] \cap {u_1 \in Task : status[u_1] = "running"} \in SUBSET Task
          OBVIOUS
        <5> QED
          BY <4>2, <4>3, <5>1, TasksFinite DEF RunningCount
      <4>5. req[t].limit \in Nat
        BY <1>t DEF TypeOK, Request
      <4> QED
        BY <3>1, <4>1, <4>4, <4>5
    <3>2. CASE u # t
      <4>1. pc[u] \in PastGate /\ u \in Task \ NotCreated
        BY <1>5, <1>t, <3>2 DEF GatePass, GoTo, TypeOK, NotCreated, PastGate
      <4> QED
        BY <4>1, <2>5, <1>t, StillCounted
    <3> QED
      BY <3>1, <3>2
  <2>8. GateInv'
    BY <2>5, <2>6, <2>7 DEF GateInv
  <2>9. SlotHeld'
    BY <1>5, <1>t DEF GatePass, SlotHeld, GoTo, TypeOK, handlerVars, limiterVars, NoRequest
  <2> QED
    BY <2>1, <2>2, <2>4, <2>8, <2>9 DEF TasksInv
<1>6. ASSUME NEW t \in Task, GateFail(t) PROVE TasksInv'
  <2>1. LimiterInv'
    BY <1>6, <1>t, SlotsKept DEF GateFail
  <2>2. TypeOK'
    BY <1>6, <2>1, <1>t, <1>l, TasksAssumption, LimiterAssumption
    DEF GateFail, TypeOK, LimiterInv, Pc, Status, Settled, Request, NoRequest,
        SameDal, storeVars, handlerVars, expiryVars, limiterVars, Record, GoTo
  <2>3. StoreSettles(t)
    BY <1>6, <1>t DEF GateFail, StoreSettles, NoNewWork, NotCreated, Record, GoTo, Settled, TypeOK, Pc
  <2>4. StoreInv'
    BY <2>3, <1>t, SettledStoreKept
  <2>5. GateQuiet
    BY <1>6, <2>3, <1>t DEF GateFail, GateQuiet, StoreSettles, PastGate, GoTo, TypeOK, Pc, handlerVars
  <2>6. GateInv'
    BY <2>5, <1>t, QuietGateKept
  <2>9. SlotHeld'
    BY <1>6, <1>t DEF GateFail, SlotHeld, GoTo, TypeOK, handlerVars, limiterVars, NoRequest
  <2> QED
    BY <2>1, <2>2, <2>4, <2>6, <2>9 DEF TasksInv
<1>7. ASSUME NEW t \in Task, CloneFails(t) PROVE TasksInv'
  <2>1. LimiterInv'
    BY <1>7, <1>t, SlotsKept DEF CloneFails
  <2>2. TypeOK'
    BY <1>7, <2>1, <1>t, <1>l, TasksAssumption, LimiterAssumption
    DEF CloneFails, TypeOK, LimiterInv, Pc, Status, Settled, Request, NoRequest,
        SameDal, storeVars, handlerVars, expiryVars, limiterVars, Record, GoTo
  <2>3. StoreSettles(t)
    BY <1>7, <1>t DEF CloneFails, StoreSettles, NoNewWork, NotCreated, Record, GoTo, Settled, TypeOK, Pc
  <2>4. StoreInv'
    BY <2>3, <1>t, SettledStoreKept
  <2>5. GateQuiet
    BY <1>7, <2>3, <1>t DEF CloneFails, GateQuiet, StoreSettles, PastGate, GoTo, TypeOK, Pc, handlerVars
  <2>6. GateInv'
    BY <2>5, <1>t, QuietGateKept
  <2>9. SlotHeld'
    BY <1>7, <1>t DEF CloneFails, SlotHeld, GoTo, TypeOK, handlerVars, limiterVars, NoRequest
  <2> QED
    BY <2>1, <2>2, <2>4, <2>6, <2>9 DEF TasksInv
<1>8. ASSUME NEW t \in Task, AcquireAdd(t) PROVE TasksInv'
  <2>1. LimiterInv'
    BY <1>8, <1>t, LimiterInvStep DEF AcquireAdd, LimiterNext, LimiterStep
  <2>2. TypeOK'
    BY <1>8, <2>1, <1>t, <1>l, TasksAssumption, LimiterAssumption
    DEF AcquireAdd, TypeOK, LimiterInv, Pc, Status, Settled, Request, NoRequest,
        SameDal, storeVars, handlerVars, expiryVars, limiterVars, Record, GoTo
  <2>3. StoreQuiet
    BY <1>8, <1>t DEF AcquireAdd, StoreQuiet, NoNewWork, NotCreated, GoTo, TypeOK, Pc,
       storeVars, handlerVars
  <2>4. StoreInv'
    BY <2>3, <1>t, QuietStoreKept
  <2>5. GateQuiet
    BY <1>8, <2>3, <1>t DEF AcquireAdd, GateQuiet, StoreQuiet, PastGate, GoTo, TypeOK, Pc, handlerVars
  <2>6. GateInv'
    BY <2>5, <1>t, QuietGateKept
  <2>9. SlotHeld'
    BY <1>8, <1>t DEF AcquireAdd, SlotHeld, GoTo, TypeOK, handlerVars, limiterVars, NoRequest, Add, Admit, Reject, Release, Clamp, LimiterInv, LimiterTypeOK
  <2> QED
    BY <2>1, <2>2, <2>4, <2>6, <2>9 DEF TasksInv
<1>9. ASSUME NEW t \in Task, AcquireOk(t) PROVE TasksInv'
  <2>1. LimiterInv'
    BY <1>9, <1>t, LimiterInvStep DEF AcquireOk, LimiterNext, LimiterStep
  <2>2. TypeOK'
    BY <1>9, <2>1, <1>t, <1>l, TasksAssumption, LimiterAssumption
    DEF AcquireOk, TypeOK, LimiterInv, Pc, Status, Settled, Request, NoRequest,
        SameDal, storeVars, handlerVars, expiryVars, limiterVars, Record, GoTo
  <2>3. StoreQuiet
    BY <1>9, <1>t DEF AcquireOk, StoreQuiet, NoNewWork, NotCreated, GoTo, TypeOK, Pc,
       storeVars, handlerVars
  <2>4. StoreInv'
    BY <2>3, <1>t, QuietStoreKept
  <2>5. GateQuiet
    BY <1>9, <2>3, <1>t DEF AcquireOk, GateQuiet, StoreQuiet, PastGate, GoTo, TypeOK, Pc, handlerVars
  <2>6. GateInv'
    BY <2>5, <1>t, QuietGateKept
  <2>9. SlotHeld'
    BY <1>9, <1>t DEF AcquireOk, SlotHeld, GoTo, TypeOK, handlerVars, limiterVars, NoRequest, Add, Admit, Reject, Release, Clamp, LimiterInv, LimiterTypeOK
  <2> QED
    BY <2>1, <2>2, <2>4, <2>6, <2>9 DEF TasksInv
<1>10. ASSUME NEW t \in Task, AcquireFull(t) PROVE TasksInv'
  <2>1. LimiterInv'
    BY <1>10, <1>t, LimiterInvStep DEF AcquireFull, LimiterNext, LimiterStep
  <2>2. TypeOK'
    BY <1>10, <2>1, <1>t, <1>l, TasksAssumption, LimiterAssumption
    DEF AcquireFull, TypeOK, LimiterInv, Pc, Status, Settled, Request, NoRequest,
        SameDal, storeVars, handlerVars, expiryVars, limiterVars, Record, GoTo
  <2>3. StoreSettles(t)
    BY <1>10, <1>t DEF AcquireFull, StoreSettles, NoNewWork, NotCreated, Record, GoTo, Settled, TypeOK, Pc
  <2>4. StoreInv'
    BY <2>3, <1>t, SettledStoreKept
  <2>5. GateQuiet
    BY <1>10, <2>3, <1>t DEF AcquireFull, GateQuiet, StoreSettles, PastGate, GoTo, TypeOK, Pc, handlerVars
  <2>6. GateInv'
    BY <2>5, <1>t, QuietGateKept
  <2>9. SlotHeld'
    BY <1>10, <1>t DEF AcquireFull, SlotHeld, GoTo, TypeOK, handlerVars, limiterVars, NoRequest, Add, Admit, Reject, Release, Clamp, LimiterInv, LimiterTypeOK
  <2> QED
    BY <2>1, <2>2, <2>4, <2>6, <2>9 DEF TasksInv
<1>11. ASSUME NEW t \in Task, NEW outcome \in Settled, Finish(t, outcome) PROVE TasksInv'
  <2>1. LimiterInv'
    BY <1>11, <1>t, SlotsKept DEF Finish
  <2>2. TypeOK'
    BY <1>11, <2>1, <1>t, <1>l, TasksAssumption, LimiterAssumption
    DEF Finish, TypeOK, LimiterInv, Pc, Status, Settled, Request, NoRequest,
        SameDal, storeVars, handlerVars, expiryVars, limiterVars, Record, GoTo
  <2>3. StoreSettles(t)
    BY <1>11, <1>t DEF Finish, StoreSettles, NoNewWork, NotCreated, Record, GoTo, Settled, TypeOK, Pc
  <2>4. StoreInv'
    BY <2>3, <1>t, SettledStoreKept
  <2>5. GateQuiet
    BY <1>11, <2>3, <1>t DEF Finish, GateQuiet, StoreSettles, PastGate, GoTo, TypeOK, Pc, handlerVars
  <2>6. GateInv'
    BY <2>5, <1>t, QuietGateKept
  <2>9. SlotHeld'
    BY <1>11, <1>t DEF Finish, SlotHeld, GoTo, TypeOK, handlerVars, limiterVars, NoRequest
  <2> QED
    BY <2>1, <2>2, <2>4, <2>6, <2>9 DEF TasksInv
<1>12. ASSUME NEW t \in Task, ReleaseSub(t) PROVE TasksInv'
  <2>1. LimiterInv'
    BY <1>12, <1>t, LimiterInvStep DEF ReleaseSub, LimiterNext, LimiterStep
  <2>2. TypeOK'
    BY <1>12, <2>1, <1>t, <1>l, TasksAssumption, LimiterAssumption
    DEF ReleaseSub, TypeOK, LimiterInv, Pc, Status, Settled, Request, NoRequest,
        SameDal, storeVars, handlerVars, expiryVars, limiterVars, Record, GoTo
  <2>3. StoreQuiet
    BY <1>12, <1>t DEF ReleaseSub, StoreQuiet, NoNewWork, NotCreated, GoTo, TypeOK, Pc,
       storeVars, handlerVars
  <2>4. StoreInv'
    BY <2>3, <1>t, QuietStoreKept
  <2>5. GateQuiet
    BY <1>12, <2>3, <1>t DEF ReleaseSub, GateQuiet, StoreQuiet, PastGate, GoTo, TypeOK, Pc, handlerVars
  <2>6. GateInv'
    BY <2>5, <1>t, QuietGateKept
  <2>9. SlotHeld'
    BY <1>12, <1>t DEF ReleaseSub, SlotHeld, GoTo, TypeOK, handlerVars, limiterVars, NoRequest, Add, Admit, Reject, Release, Clamp, LimiterInv, LimiterTypeOK
  <2> QED
    BY <2>1, <2>2, <2>4, <2>6, <2>9 DEF TasksInv
<1>13. ASSUME NEW t \in Task, ReleaseClamp(t) PROVE TasksInv'
  <2>1. LimiterInv'
    BY <1>13, <1>t, LimiterInvStep DEF ReleaseClamp, LimiterNext, LimiterStep
  <2>2. TypeOK'
    BY <1>13, <2>1, <1>t, <1>l, TasksAssumption, LimiterAssumption
    DEF ReleaseClamp, TypeOK, LimiterInv, Pc, Status, Settled, Request, NoRequest,
        SameDal, storeVars, handlerVars, expiryVars, limiterVars, Record, GoTo
  <2>3. StoreQuiet
    BY <1>13, <1>t DEF ReleaseClamp, StoreQuiet, NoNewWork, NotCreated, GoTo, TypeOK, Pc,
       storeVars, handlerVars
  <2>4. StoreInv'
    BY <2>3, <1>t, QuietStoreKept
  <2>5. GateQuiet
    BY <1>13, <2>3, <1>t DEF ReleaseClamp, GateQuiet, StoreQuiet, PastGate, GoTo, TypeOK, Pc, handlerVars
  <2>6. GateInv'
    BY <2>5, <1>t, QuietGateKept
  <2>9. SlotHeld'
    BY <1>13, <1>t DEF ReleaseClamp, SlotHeld, GoTo, TypeOK, handlerVars, limiterVars, NoRequest, Add, Admit, Reject, Release, Clamp, LimiterInv, LimiterTypeOK
  <2> QED
    BY <2>1, <2>2, <2>4, <2>6, <2>9 DEF TasksInv
<1>14. ASSUME NEW t \in Task, Create(t) PROVE TasksInv'
  <2>1. LimiterInv'
    BY <1>14, <1>t, SlotsKept DEF Create
  <2>2. NewTask(t) /\ BeginsWork(t)
    BY <1>14, <1>t DEF Create, BeginsWork, NotCreated, GoTo, TypeOK, Pc
  <2>3. TypeOK'
    BY <1>14, <2>1, <2>2, <1>t, NewTaskStore
    DEF Create, TypeOK, LimiterInv, Pc, GoTo, expiryVars
  <2>4. StoreInv' /\ GateInv'
    BY <2>2, <1>t, NewTaskStore, NewTaskGate
  <2>5. SlotHeld'
    BY <1>14, <1>t DEF Create, SlotHeld, GoTo, TypeOK, limiterVars
  <2> QED
    BY <2>1, <2>3, <2>4, <2>5 DEF TasksInv
<1>15. ASSUME NEW t \in Task, NEW d \in Dal, NEW m \in Mode, NEW isLeader \in BOOLEAN,
            Dispatch(t, d, m, isLeader)
      PROVE  TasksInv'
  <2>1. LimiterInv'
    BY <1>15, <1>t, SlotsKept DEF Dispatch
  <2>2. NewTask(t) /\ BeginsWork(t)
    BY <1>15, <1>t DEF Dispatch, BeginsWork, NotCreated, GoTo, TypeOK, Pc
  <2>3. [dal |-> d, mode |-> m, limit |-> GateLimit(isLeader)] \in Request
    BY <1>l, TasksAssumption, LimiterAssumption DEF Request
  <2>4. TypeOK'
    BY <1>15, <2>1, <2>2, <2>3, <1>t, NewTaskStore
    DEF Dispatch, TypeOK, LimiterInv, Pc, GoTo, expiryVars
  <2>5. StoreInv' /\ GateInv'
    BY <2>2, <1>t, NewTaskStore, NewTaskGate
  <2>6. SlotHeld'
    BY <1>15, <1>t DEF Dispatch, SlotHeld, GoTo, TypeOK, limiterVars
  <2> QED
    BY <2>1, <2>4, <2>5, <2>6 DEF TasksInv
<1>16. ASSUME NEW t \in Task, NEW outcome \in Settled, ClientFinish(t, outcome) PROVE TasksInv'
  <2>1. LimiterInv'
    BY <1>16, <1>t, SlotsKept DEF ClientFinish
  <2>2. Complete(t, outcome) /\ t \in Task
    BY <1>16, <1>t, TasksAssumption, LimiterAssumption DEF ClientFinish, TypeOK
  <2>3. NotCreated' = NotCreated /\ req' = req
    BY <1>16, <1>t DEF ClientFinish, NotCreated, GoTo, TypeOK, handlerVars
  <2>4. NoNewWork /\ StoreInv' /\ status' \in [Task -> Status] /\ disk' \in [Task -> Status]
    BY <2>2, <2>3, <1>t, CompleteKept DEF Settled
  <2>5. TypeOK'
    BY <1>16, <2>1, <2>4, <1>t
    DEF ClientFinish, NoNewWork, TypeOK, LimiterInv, Pc, GoTo, handlerVars, expiryVars
  <2>6. GateQuiet
    BY <1>16, <2>4, <1>t DEF ClientFinish, GateQuiet, PastGate, GoTo, TypeOK, handlerVars
  <2>7. GateInv'
    BY <2>6, <1>t, QuietGateKept
  <2>8. SlotHeld'
    BY <1>16, <1>t DEF ClientFinish, SlotHeld, GoTo, TypeOK, handlerVars, limiterVars
  <2> QED
    BY <2>1, <2>4, <2>5, <2>7, <2>8 DEF TasksInv
<1>17. ASSUME ExpireComplete PROVE TasksInv'
  <2>1. LimiterInv'
    BY <1>17, <1>t, SlotsKept DEF ExpireComplete
  <2>2. Complete(doomed, "failed") /\ doomed \in Task
    BY <1>17, <1>t, TasksAssumption, LimiterAssumption DEF ExpireComplete, TypeOK
  <2>3. NotCreated' = NotCreated /\ req' = req
    BY <1>17, <1>t DEF ExpireComplete, NotCreated, GoTo, TypeOK, handlerVars
  <2>4. NoNewWork /\ StoreInv' /\ status' \in [Task -> Status] /\ disk' \in [Task -> Status]
    BY <2>2, <2>3, <1>t, CompleteKept DEF Settled
  <2>5. TypeOK'
    BY <1>17, <2>1, <2>4, <1>t
    DEF ExpireComplete, NoNewWork, TypeOK, LimiterInv, Pc, GoTo, handlerVars, expiryVars
  <2>6. GateQuiet
    BY <1>17, <2>4, <1>t DEF ExpireComplete, GateQuiet, PastGate, GoTo, TypeOK, handlerVars
  <2>7. GateInv'
    BY <2>6, <1>t, QuietGateKept
  <2>8. SlotHeld'
    BY <1>17, <1>t DEF ExpireComplete, SlotHeld, GoTo, TypeOK, handlerVars, limiterVars
  <2> QED
    BY <2>1, <2>4, <2>5, <2>7, <2>8 DEF TasksInv
<1>18. ASSUME NEW t \in Task, ClientUpdate(t) PROVE TasksInv'
  <2>1. LimiterInv'
    BY <1>18, <1>t, SlotsKept DEF ClientUpdate
  <2>2. NoNewWork /\ GateQuiet
    BY <1>18 DEF ClientUpdate, NoNewWork, GateQuiet, NotCreated, handlerVars
  <2>3. disk' \in [Task -> Status] /\ TypeOK'
    BY <1>18, <2>1, <1>t
    DEF ClientUpdate, Saved, Status, TypeOK, LimiterInv, handlerVars, expiryVars
  <2>4. StoreInv'
    <3>1. /\ NotCreated' = NotCreated /\ store' = store /\ status' = status /\ pc' = pc
          /\ disk' = Saved(store, status) /\ store \subseteq Task
      BY <1>18, <2>2, <1>t DEF ClientUpdate, NoNewWork, TypeOK, handlerVars
    <3>2. Traceless'
      BY <3>1, <1>t DEF StoreInv, Traceless, Saved, NotCreated
    <3>3. FileListsStore'
      BY <3>1, <1>t DEF StoreInv, FileListsStore, StoreRecorded, Saved
    <3>4. FileNeverAhead'
      BY <3>1, <1>t DEF StoreInv, FileNeverAhead, Saved, Settled
    <3>5. StoreRecorded' /\ LiveTaskKept'
      BY <3>1, <1>t DEF StoreInv, StoreRecorded, LiveTaskKept
    <3> QED
      BY <3>2, <3>3, <3>4, <3>5 DEF StoreInv
  <2>5. GateInv' /\ SlotHeld'
    BY <1>18, <2>2, <1>t, QuietGateKept DEF ClientUpdate, SlotHeld, handlerVars, limiterVars
  <2> QED
    BY <2>1, <2>3, <2>4, <2>5 DEF TasksInv
<1>19. CASE Age
  <2>1. LimiterInv'
    BY <1>19, <1>t, SlotsKept DEF Age
  <2>2. StoreQuiet /\ GateQuiet
    BY <1>19 DEF Age, StoreQuiet, NoNewWork, GateQuiet, NotCreated, storeVars, handlerVars
  <2>3. TypeOK'
    BY <1>19, <2>1, <1>t
    DEF Age, TypeOK, LimiterInv, Running, storeVars, handlerVars, expiryVars
  <2>4. StoreInv' /\ GateInv'
    BY <2>2, <1>t, QuietStoreKept, QuietGateKept
  <2>5. SlotHeld'
    BY <1>19, <1>t DEF Age, SlotHeld, handlerVars, limiterVars
  <2> QED
    BY <2>1, <2>3, <2>4, <2>5 DEF TasksInv
<1>20. ASSUME NEW t \in Task, ExpireFind(t) PROVE TasksInv'
  <2>1. LimiterInv'
    BY <1>20, <1>t, SlotsKept DEF ExpireFind
  <2>2. StoreQuiet /\ GateQuiet
    BY <1>20 DEF ExpireFind, StoreQuiet, NoNewWork, GateQuiet, NotCreated, storeVars, handlerVars
  <2>3. TypeOK'
    BY <1>20, <2>1, <1>t
    DEF ExpireFind, TypeOK, LimiterInv, Running, storeVars, handlerVars, expiryVars
  <2>4. StoreInv' /\ GateInv'
    BY <2>2, <1>t, QuietStoreKept, QuietGateKept
  <2>5. SlotHeld'
    BY <1>20, <1>t DEF ExpireFind, SlotHeld, handlerVars, limiterVars
  <2> QED
    BY <2>1, <2>3, <2>4, <2>5 DEF TasksInv
<1>21. ASSUME NEW d \in Dal, SetAwake(d) PROVE TasksInv'
  <2>1. LimiterInv'
    BY <1>21, <1>t, SlotsKept DEF SetAwake
  <2>2. StoreQuiet /\ GateQuiet
    BY <1>21 DEF SetAwake, StoreQuiet, NoNewWork, GateQuiet, NotCreated, storeVars, handlerVars
  <2>3. TypeOK'
    BY <1>21, <2>1, <1>t
    DEF SetAwake, TypeOK, LimiterInv, Running, storeVars, handlerVars, expiryVars
  <2>4. StoreInv' /\ GateInv'
    BY <2>2, <1>t, QuietStoreKept, QuietGateKept
  <2>5. SlotHeld'
    BY <1>21, <1>t DEF SetAwake, SlotHeld, handlerVars, limiterVars
  <2> QED
    BY <2>1, <2>3, <2>4, <2>5 DEF TasksInv
<1>22. CASE Restart
  <2>1. LimiterInv'
    BY <1>22, <1>t, LimiterInvStep DEF Restart, LimiterNext
  <2>2. \A t \in Task : pc'[t] \in {"idle", "tracked", "over"}
    BY <1>22 DEF Restart
  <2>3. TypeOK'
    BY <1>22, <2>1, <1>t
    DEF Restart, Abandoned, Ephemeral, TypeOK, LimiterInv, Pc, Request, NoRequest, AllModes
  <2>4. NotCreated' = NotCreated
    BY <1>22 DEF Restart, NotCreated
  <2>5. store' = store /\ status' = disk /\ disk' = disk /\ store \subseteq Task
    BY <1>22, <1>t DEF Restart, StoreInv, FileListsStore, TypeOK
  <2>6. StoreInv'
    BY <2>4, <2>5, <1>t
    DEF StoreInv, Traceless, StoreRecorded, LiveTaskKept, FileListsStore, FileNeverAhead,
        NotCreated
  <2>7. BirthOrder'
    BY <1>22, <2>4, <1>t DEF Restart, GateInv, BirthOrder
  <2>8. GateInv' /\ SlotHeld'
    BY <2>2, <2>7 DEF GateInv, GateSees, GateCounted, SlotHeld
  <2> QED
    BY <2>1, <2>3, <2>6, <2>8 DEF TasksInv
<1>23. ASSUME NEW t \in Task, OrphanExits(t) PROVE TasksInv'
  <2>1. LimiterInv'
    BY <1>23, <1>t, SlotsKept DEF OrphanExits
  <2>2. StoreQuiet /\ GateQuiet
    BY <1>23 DEF OrphanExits, StoreQuiet, NoNewWork, GateQuiet, NotCreated, storeVars, handlerVars
  <2>3. TypeOK'
    BY <1>23, <2>1, <1>t
    DEF OrphanExits, TypeOK, LimiterInv, storeVars, handlerVars, expiryVars
  <2>4. StoreInv' /\ GateInv'
    BY <2>2, <1>t, QuietStoreKept, QuietGateKept
  <2>5. SlotHeld'
    BY <1>23, <1>t DEF OrphanExits, SlotHeld, handlerVars, limiterVars
  <2> QED
    BY <2>1, <2>3, <2>4, <2>5 DEF TasksInv
<1> QED
  BY <1>1, <1>2, <1>3, <1>4, <1>5, <1>6, <1>7, <1>8, <1>9, <1>10, <1>11, <1>12, <1>13, <1>14, <1>15, <1>16, <1>17, <1>18, <1>19, <1>20, <1>21, <1>22,
     <1>23
  DEF Next, Handler, Executor, Client, QueueManager

-----------------------------------------------------------------------------
(* The daemon starts in a state that satisfies the invariant. *)
LEMMA TasksInvInit ==
  ASSUME Init
  PROVE  TasksInv
<1>1. LimiterInv
  BY EmptyLimiter DEF Init, LimiterInit
<1>2. TypeOK
  BY <1>1, TasksAssumption, LimiterAssumption
  DEF Init, TypeOK, LimiterInv, Pc, Status, Request, NoRequest, AllModes
<1>3. NotCreated = Task
  BY DEF Init, NotCreated
<1>4. StoreInv
  BY <1>3 DEF Init, StoreInv, Traceless, StoreRecorded, LiveTaskKept, FileListsStore,
             FileNeverAhead, Settled
<1>5. GateInv /\ SlotHeld
  BY <1>3 DEF Init, GateInv, BirthOrder, GateSees, GateCounted, SlotHeld
<1> QED
  BY <1>1, <1>2, <1>4, <1>5 DEF TasksInv

(* Doing nothing keeps the invariant. *)
LEMMA TasksInvStutter ==
  ASSUME TasksInv, UNCHANGED vars
  PROVE  TasksInv'
<1> USE DEF TasksInv, vars
<1>1. LimiterInv'
  BY SlotsKept DEF limiterVars
<1>2. TypeOK'
  BY <1>1 DEF TypeOK, LimiterInv, handlerVars, storeVars, expiryVars
<1>3. StoreQuiet /\ GateQuiet
  BY DEF StoreQuiet, NoNewWork, GateQuiet, NotCreated, storeVars, handlerVars
<1>4. StoreInv' /\ GateInv'
  BY <1>3, QuietStoreKept, QuietGateKept
<1>5. SlotHeld'
  BY DEF SlotHeld, handlerVars, limiterVars
<1> QED
  BY <1>1, <1>2, <1>4, <1>5

(* The invariant holds in every state of the daemon's task machinery. *)
THEOREM TasksInvariant == Spec => []TasksInv
<1>1. Init => TasksInv
  BY TasksInvInit
<1>2. TasksInv /\ [Next]_vars => TasksInv'
  BY TasksInvStep, TasksInvStutter
<1> QED
  BY <1>1, <1>2, PTL DEF Spec

(* Every variable keeps its type. *)
THEOREM TypeCorrect == Spec => []TypeOK
<1>1. TasksInv => TypeOK
  BY DEF TasksInv
<1> QED
  BY <1>1, TasksInvariant, PTL

(* taskStore (task.go): a task somebody works on is never evicted, the file *)
(* lists the store, and never records an outcome the memory does not have.  *)
THEOREM StoreKept == Spec => [](LiveTaskKept /\ FileListsStore /\ FileNeverAhead)
<1>1. TasksInv => LiveTaskKept /\ FileListsStore /\ FileNeverAhead
  BY DEF TasksInv, StoreInv
<1> QED
  BY <1>1, TasksInvariant, PTL

(* The youngest of a set of admitted tasks has counted all the others. *)
LEMMA YoungestCounts ==
  ASSUME TasksInv, NEW d \in Dal, NEW l \in {MaxLeader, MaxMember}
  PROVE  Cardinality({t \in Admitted : req[t].dal = d /\ req[t].limit <= l}) <= l
<1> DEFINE S == {t \in Admitted : req[t].dal = d /\ req[t].limit <= l}
<1>1. l \in Nat
  BY TasksAssumption, LimiterAssumption
<1>2. S \in SUBSET Task /\ S \subseteq Running /\ S \cap NotCreated = {}
  BY DEF Admitted, Running, TasksInv, StoreInv, LiveTaskKept, NotCreated, Pc
<1>3. \A t \in S : pc[t] \in PastGate /\ req[t].dal = d /\ req[t].limit <= l
  BY DEF Admitted, PastGate
<1>4. CASE S = {}
  <2>1. Cardinality({}) = 0
    BY FS_EmptySet
  <2>2. Cardinality(S) = 0
    BY <1>4, <2>1
  <2> QED
    BY <1>1, <2>2
<1>5. CASE S # {}
  <2> HIDE DEF S
  <2>1. born \in [Task -> Nat] /\ clock \in Nat /\ \A t \in S : born[t] < clock
    BY <1>2 DEF TasksInv, TypeOK, GateInv, BirthOrder
  <2>2. PICK m \in S : \A t \in S : born[t] <= born[m]
    BY <1>2, <1>5, <2>1, Youngest
  <2>3. \A t \in S : t # m => t \in Earlier(m)
    <3> SUFFICES ASSUME NEW t \in S, t # m PROVE t \in Earlier(m)
      OBVIOUS
    <3>1. born[t] # born[m]
      BY <1>2 DEF TasksInv, GateInv, BirthOrder
    <3>2. born[t] < born[m]
      BY <1>2, <2>1, <2>2, <3>1
    <3> QED
      BY <1>2, <1>3, <3>2 DEF Earlier
  <2>4. Earlier(m) \in SUBSET Task /\ S \ {m} \in SUBSET Earlier(m)
    BY <2>3 DEF Earlier, Running, TasksInv, TypeOK
  <2>5. Cardinality(S \ {m}) <= Cardinality(Earlier(m)) /\ Cardinality(Earlier(m)) \in Nat
    BY <2>4, TasksFinite
  <2>6. IsFiniteSet(S) /\ Cardinality(S) \in Nat
    BY <1>2, TasksFinite
  <2>7. Cardinality(S \ {m}) = Cardinality(S) - 1
    BY <2>6, FS_RemoveElement
  <2>8. Cardinality(Earlier(m)) < req[m].limit /\ req[m].limit \in Nat
    BY <1>2, <1>3 DEF TasksInv, GateInv, GateCounted, PastGate, TypeOK, Request
  <2>9. req[m].limit <= l
    BY <1>3
  <2>10. Cardinality(S) <= l
    BY <1>1, <2>5, <2>6, <2>7, <2>8, <2>9
  <2> QED
    BY <2>10 DEF S
<1> QED
  BY <1>4, <1>5

(* preTaskGate (harness.go): although nothing makes the check and the       *)
(* creation of a task atomic, the gate holds for every number of requests.  *)
THEOREM GateBounds == Spec => []GateBound
<1>1. TasksInv => GateBound
  BY YoungestCounts DEF GateBound
<1> QED
  BY <1>1, TasksInvariant, PTL

(* A daemon has started no more ephemeral containers than slots are held. *)
LEMMA EphemeralFits ==
  ASSUME TasksInv
  PROVE  IsFiniteSet(Ephemeral) /\ Cardinality(Ephemeral) \in Nat
         /\ Cardinality(Ephemeral) <= MaxOneshot
<1>1. Ephemeral \in SUBSET Entitled /\ Entitled \in SUBSET Task
  BY DEF TasksInv, SlotHeld, Entitled, Busy, Ephemeral
<1>2. Cardinality(Entitled) <= MaxOneshot
  BY DEF TasksInv, LimiterInv
<1>3. /\ Cardinality(Ephemeral) <= Cardinality(Entitled) /\ IsFiniteSet(Ephemeral)
      /\ Cardinality(Ephemeral) \in Nat /\ Cardinality(Entitled) \in Nat
  BY <1>1, TasksFinite
<1> QED
  BY <1>2, <1>3, TasksAssumption, LimiterAssumption

OrphansFit == Cardinality(orphans) <= restarts * MaxOneshot

(* A death of the daemon adds at most the containers it had started. *)
LEMMA OrphansFitStep ==
  ASSUME TasksInv, OrphansFit, Next
  PROVE  OrphansFit'
<1>t. /\ orphans \in SUBSET Task /\ IsFiniteSet(orphans) /\ Cardinality(orphans) \in Nat
      /\ restarts \in Nat /\ MaxOneshot \in Nat
  BY TasksFinite, LimiterAssumption DEF TasksInv, TypeOK
<1>1. CASE Restart
  <2>1. restarts' = restarts + 1
    BY <1>1 DEF Restart
  <2>2. PICK left \in SUBSET Ephemeral : orphans' = orphans \cup left
    BY <1>1 DEF Restart, Abandoned
  <2>3. /\ IsFiniteSet(left) /\ Cardinality(left) \in Nat
        /\ Cardinality(left) <= Cardinality(Ephemeral)
    BY EphemeralFits, FS_Subset, FS_CardinalityType
  <2>4. Cardinality(Ephemeral) \in Nat /\ Cardinality(Ephemeral) <= MaxOneshot
    BY EphemeralFits
  <2>5. /\ Cardinality(orphans') = Cardinality(orphans) + Cardinality(left)
                                    - Cardinality(orphans \cap left)
        /\ IsFiniteSet(orphans \cap left)
    BY <2>2, <2>3, <1>t, FS_Union, FS_Intersection
  <2>6. Cardinality(orphans \cap left) \in Nat
    BY <2>5, FS_CardinalityType
  <2>7. Cardinality(orphans') <= restarts * MaxOneshot + MaxOneshot
    BY <2>3, <2>4, <2>5, <2>6, <1>t DEF OrphansFit
  <2>8. (restarts + 1) * MaxOneshot = restarts * MaxOneshot + MaxOneshot
    BY <1>t
  <2> QED
    BY <2>1, <2>7, <2>8 DEF OrphansFit
<1>2. CASE \E t \in Task : OrphanExits(t)
  <2>1. orphans' \in SUBSET orphans /\ restarts' = restarts
    BY <1>2 DEF OrphanExits
  <2>2. Cardinality(orphans') <= Cardinality(orphans) /\ Cardinality(orphans') \in Nat
    BY <2>1, <1>t, FS_Subset, FS_CardinalityType
  <2> QED
    BY <2>1, <2>2, <1>t DEF OrphansFit
<1>3. CASE ~Restart /\ ~\E t \in Task : OrphanExits(t)
  <2>1. UNCHANGED <<orphans, restarts>>
    BY <1>3
    DEF Next, Handler, Submit, Accept, Refuse, Create, Dispatch, Executor, GateList, GatePass,
        GateFail, CloneFails, AcquireAdd, AcquireOk, AcquireFull, Finish, ReleaseSub,
        ReleaseClamp, Client, ClientUpdate, ClientFinish, QueueManager, ExpireComplete,
        ExpireFind, Age, SetAwake
  <2> QED
    BY <2>1 DEF OrphansFit
<1> QED
  BY <1>1, <1>2, <1>3

(* execTaskOneShot (task_oneshot.go): a daemon's ephemeral containers stay  *)
(* within the limiter's maximum, those of expired tasks included, and each  *)
(* of its deaths leaves at most that many behind, uncounted by the next.    *)
THEOREM OneshotBounds == Spec => []OneshotBound
<1>1. Init => OrphansFit
  <2>1. Cardinality({}) = 0
    BY FS_EmptySet
  <2> QED
    BY <2>1, LimiterAssumption DEF Init, OrphansFit
<1>2. TasksInv /\ OrphansFit /\ [Next]_vars => OrphansFit'
  <2>1. OrphansFit /\ UNCHANGED vars => OrphansFit'
    BY DEF OrphansFit, vars
  <2> QED
    BY <2>1, OrphansFitStep
<1>3. TasksInv /\ OrphansFit => OneshotBound
  BY EphemeralFits DEF OneshotBound, OrphansFit
<1> QED
  BY <1>1, <1>2, <1>3, TasksInvariant, PTL DEF Spec

(* The executors use the limiter as its own specification says: a step of   *)
(* the tasks is one of Acquire's or Release's, or a restart, or none of the *)
(* limiter's business (task_oneshot.go: execTaskOneShot).                   *)
LEMMA LimiterUsed == [Next]_vars => [LimiterNext]_limiterVars
<1> SUFFICES ASSUME Next, ~UNCHANGED limiterVars
             PROVE  LimiterNext
  BY DEF vars
<1>1. ASSUME NEW t \in Task, Executor(t)
      PROVE  LimiterStep(t)
  BY <1>1
  DEF Executor, GateList, GatePass, GateFail, CloneFails, AcquireAdd, AcquireOk, AcquireFull,
      Finish, ReleaseSub, ReleaseClamp, LimiterStep
<1>2. \A t \in Task : ~Handler(t) /\ ~Client(t)
  BY DEF Handler, Submit, Accept, Refuse, Create, Dispatch, Client, ClientUpdate, ClientFinish
<1>3. /\ ~QueueManager /\ ~Age /\ \A d \in Dal : ~SetAwake(d)
      /\ \A t \in Task : ~OrphanExits(t)
  BY DEF QueueManager, ExpireComplete, ExpireFind, Age, SetAwake, OrphanExits
<1>4. CASE Restart
  BY <1>4 DEF Restart, LimiterNext
<1> QED
  BY <1>1, <1>2, <1>3, <1>4 DEF Next, LimiterNext

(* So the tasks implement the limiter, and whatever holds of the limiter    *)
(* with any callers that keep to its protocol holds of these.               *)
THEOREM TasksImplementLimiter == Spec => LimiterSpec
<1>1. Init => LimiterInit
  BY DEF Init
<1> QED
  BY <1>1, LimiterUsed, PTL DEF Spec, LimiterSpec

(* The limiter's own claims (task_limiter.go) hold in the composition,       *)
(* through restarts as well.                                                *)
THEOREM SlotsBound == Spec => [](HoldersBounded /\ CounterExact /\ ClampIdle)
BY TasksImplementLimiter, LimiterBound, LimiterExact, PTL

(* Where a "running" status comes from: it was there, the task is new, or   *)
(* the daemon restarted and the file says so.                               *)
LEMMA WhoRuns ==
  ASSUME TasksInv, Next, NEW t \in Task, status'[t] = "running"
  PROVE  status[t] = "running" \/ t \in NotCreated \/ disk[t] = "running"
<1> SUFFICES ASSUME status[t] # "running", t \notin NotCreated
             PROVE  disk[t] = "running"
  OBVIOUS
<1>t. status \in [Task -> Status] /\ pc[t] \notin {"idle", "listed", "accepted"}
  BY DEF TasksInv, TypeOK, NotCreated
<1>1. ASSUME NEW u \in Task, Handler(u) PROVE FALSE
  BY <1>1, <1>t DEF Handler, Submit, Accept, Refuse, Create, Dispatch, NewTask, storeVars
<1>2. ASSUME NEW u \in Task, Executor(u) PROVE FALSE
  BY <1>2, <1>t
  DEF Executor, GateList, GatePass, GateFail, CloneFails, AcquireAdd, AcquireOk, AcquireFull,
      Finish, ReleaseSub, ReleaseClamp, Record, Settled, storeVars
<1>3. ASSUME NEW u \in Task, NEW outcome \in Settled, Complete(u, outcome) PROVE FALSE
  BY <1>3, <1>t DEF Complete, Record, Settled, storeVars
<1>4. ASSUME NEW u \in Task, Client(u) PROVE FALSE
  BY <1>4, <1>3 DEF Client, ClientUpdate, ClientFinish
<1>5. ASSUME QueueManager PROVE FALSE
  <2>1. CASE ExpireComplete
    <3>1. doomed \in Task /\ Complete(doomed, "failed")
      BY <2>1, TasksAssumption, LimiterAssumption DEF ExpireComplete, TasksInv, TypeOK
    <3> QED
      BY <3>1, <1>3 DEF Settled
  <2>2. ASSUME NEW u \in Task, ExpireFind(u) PROVE FALSE
    BY <2>2 DEF ExpireFind, storeVars
  <2> QED
    BY <1>5, <2>1, <2>2 DEF QueueManager
<1>6. ASSUME Age \/ (\E d \in Dal : SetAwake(d)) \/ (\E u \in Task : OrphanExits(u))
      PROVE  FALSE
  BY <1>6 DEF Age, SetAwake, OrphanExits, storeVars
<1>7. CASE Restart
  BY <1>7 DEF Restart
<1> QED
  BY <1>1, <1>2, <1>4, <1>5, <1>6, <1>7 DEF Next

(* taskStore.load (task.go): what the file records as settled never runs    *)
(* again, whatever the daemon went through.                                 *)
THEOREM SettledForGood == Spec => SettledOnFileStaysSettled
<1> DEFINE Stays == \A t \in Task : disk[t] \in Settled => status'[t] # "running"
<1>1. TasksInv /\ [Next]_vars => [Stays]_vars
  <2> SUFFICES ASSUME TasksInv, Next, NEW t \in Task, disk[t] \in Settled,
                      status'[t] = "running"
               PROVE  FALSE
    OBVIOUS
  <2>1. status[t] \in Settled /\ t \notin NotCreated
    BY DEF TasksInv, StoreInv, FileNeverAhead, Traceless, Settled
  <2> QED
    BY <2>1, WhoRuns DEF Settled
<1> QED
  BY <1>1, TasksInvariant, PTL DEF Spec, SettledOnFileStaysSettled

-----------------------------------------------------------------------------
(* The first outcome of a task, and who may replace it.                      *)

(* A step that lets nobody start, decides nothing and dooms nobody. *)
Undisturbed ==
  /\ UNCHANGED <<status, born, horizon, doomed>>
  /\ NotCreated' = NotCreated
  /\ \A t \in Task : pc'[t] \in Undecided => pc[t] \in Undecided

LEMMA UndisturbedKept ==
  ASSUME FreshInv, Undisturbed
  PROVE  FreshInv'
BY DEF FreshInv, OwnersRun, DoomedIsStale, Undisturbed, Stale

(* A step in which the owner of one task gives its outcome and is done. *)
Decided(t) ==
  /\ pc[t] \in Undecided /\ pc'[t] \notin Undecided /\ t \in Task
  /\ \A u \in Task : u # t => status'[u] = status[u] /\ pc'[u] = pc[u]
  /\ NotCreated' = NotCreated
  /\ UNCHANGED <<born, horizon, doomed>>

LEMMA DecidedKept ==
  ASSUME FreshInv, NEW t \in Task, Decided(t)
  PROVE  FreshInv'
BY DEF FreshInv, OwnersRun, DoomedIsStale, Decided, Stale

(* A new task runs, and the queue manager is not after it. *)
LEMMA NewTaskFresh ==
  ASSUME TypeOK, FreshInv, NEW t \in Task, BeginsWork(t), NewTask(t),
         UNCHANGED <<horizon, doomed>>
  PROVE  FreshInv'
<1>1. /\ \A u \in Task : u # t => status'[u] = status[u] /\ born'[u] = born[u]
      /\ status'[t] = "running"
  BY DEF NewTask, TypeOK
<1>2. /\ t \in NotCreated /\ NotCreated' \subseteq NotCreated
      /\ \A u \in Task : u # t => pc'[u] = pc[u]
  BY DEF BeginsWork, NotCreated
<1>3. OwnersRun'
  BY <1>1, <1>2 DEF FreshInv, OwnersRun, Stale
<1>4. DoomedIsStale'
  <2> SUFFICES ASSUME doomed # None
               PROVE  doomed \notin NotCreated' /\ born'[doomed] < horizon
    BY DEF DoomedIsStale, Stale
  <2>1. doomed \in Task /\ doomed \notin NotCreated /\ born[doomed] < horizon
    BY DEF FreshInv, DoomedIsStale, Stale, TypeOK
  <2> QED
    BY <1>1, <1>2, <2>1
<1> QED
  BY <1>3, <1>4 DEF FreshInv

(* The owners' steps, one by one: each starts nothing, or decides its task. *)
LEMMA ExecutorShape ==
  ASSUME TypeOK, NEW t \in Task, Executor(t)
  PROVE  Undisturbed \/ Decided(t)
<1>t. pc \in [Task -> Pc] /\ status \in [Task -> Status]
  BY DEF TypeOK
<1>1. CASE GateList(t) \/ GatePass(t)
  <2>1. /\ \A u \in Task : u # t => pc'[u] = pc[u]
        /\ pc[t] \in {"created", "gating"} /\ pc'[t] \in {"gating", "gated", "executing"}
        /\ UNCHANGED <<status, born, horizon, doomed>>
    BY <1>1, <1>t DEF GateList, GatePass, GoTo, storeVars, expiryVars
  <2> QED
    BY <2>1 DEF Undisturbed, Undecided, NotCreated
<1>2. CASE AcquireAdd(t) \/ AcquireOk(t)
  <2>1. /\ \A u \in Task : u # t => pc'[u] = pc[u]
        /\ pc[t] \in {"gated", "acquiring"} /\ pc'[t] \in {"acquiring", "executing"}
        /\ UNCHANGED <<status, born, horizon, doomed>>
    BY <1>2, <1>t DEF AcquireAdd, AcquireOk, GoTo, storeVars, expiryVars
  <2> QED
    BY <2>1 DEF Undisturbed, Undecided, NotCreated
<1>3. CASE ReleaseSub(t) \/ ReleaseClamp(t)
  <2>1. /\ \A u \in Task : u # t => pc'[u] = pc[u]
        /\ pc[t] \in {"releasing", "clamping"} /\ pc'[t] \in {"clamping", "over"}
        /\ UNCHANGED <<status, born, horizon, doomed>>
    BY <1>3, <1>t DEF ReleaseSub, ReleaseClamp, GoTo, storeVars, expiryVars
  <2> QED
    BY <2>1 DEF Undisturbed, Undecided, NotCreated
<1>4. CASE GateFail(t) \/ CloneFails(t) \/ AcquireFull(t)
           \/ \E outcome \in Settled : Finish(t, outcome)
  <2>1. /\ \A u \in Task : u # t => pc'[u] = pc[u] /\ status'[u] = status[u]
        /\ pc[t] \in {"gating", "executing", "acquiring"} /\ pc'[t] \in {"over", "releasing"}
        /\ UNCHANGED <<born, horizon, doomed>>
    BY <1>4, <1>t
    DEF GateFail, CloneFails, AcquireFull, Finish, GoTo, Record, expiryVars
  <2> QED
    BY <2>1 DEF Decided, Undecided, NotCreated
<1> QED
  BY <1>1, <1>2, <1>3, <1>4 DEF Executor

(* What Complete leaves alone. *)
LEMMA CompleteTouches ==
  ASSUME TypeOK, NEW t \in Task, NEW outcome \in Settled, Complete(t, outcome)
  PROVE  born' = born /\ \A u \in Task : u # t => status'[u] = status[u]
BY DEF Complete, Record, storeVars, TypeOK

LEMMA FreshStep ==
  ASSUME TasksInv, FreshInv, Next
  PROVE  FreshInv'
<1>t. TypeOK /\ StoreInv /\ pc \in [Task -> Pc] /\ status \in [Task -> Status]
  BY DEF TasksInv, TypeOK
<1>1. ASSUME NEW t \in Task, Handler(t) PROVE FreshInv'
  <2>1. ASSUME NEW d \in Dal, NEW m \in Mode, Submit(t, d, m) PROVE Undisturbed
    BY <2>1, <1>t DEF Submit, GoTo, storeVars, expiryVars, Undisturbed, Undecided, NotCreated
  <2>2. CASE Accept(t) \/ Refuse(t)
    <3>1. /\ \A u \in Task : u # t => pc'[u] = pc[u]
          /\ pc[t] \in {"listed", "accepted"} /\ pc'[t] \in {"accepted", "idle"}
          /\ UNCHANGED <<status, born, horizon, doomed>>
      BY <2>2, <1>t DEF Accept, Refuse, GoTo, storeVars, expiryVars
    <3>2. Undisturbed
      BY <3>1 DEF Undisturbed, Undecided, NotCreated
    <3> QED
      BY <3>2, UndisturbedKept
  <2>3. CASE Create(t)
    BY <2>3, <1>t, NewTaskFresh DEF Create, BeginsWork, NotCreated, GoTo, expiryVars
  <2>4. ASSUME NEW d \in Dal, NEW m \in Mode, NEW isLeader \in BOOLEAN,
               Dispatch(t, d, m, isLeader)
        PROVE  FreshInv'
    <3>1. BeginsWork(t)
      BY <2>4, <1>t DEF Dispatch, BeginsWork, NotCreated, GoTo, TypeOK
    <3> QED
      BY <2>4, <3>1, <1>t, NewTaskFresh DEF Dispatch, expiryVars
  <2> QED
    BY <1>1, <2>1, <2>2, <2>3, <2>4, UndisturbedKept DEF Handler
<1>2. ASSUME NEW t \in Task, Executor(t) PROVE FreshInv'
  BY <1>2, <1>t, ExecutorShape, UndisturbedKept, DecidedKept
<1>3. ASSUME NEW t \in Task, Client(t) PROVE FreshInv'
  <2>1. CASE ClientUpdate(t)
    <3>1. Undisturbed
      BY <2>1 DEF ClientUpdate, handlerVars, expiryVars, Undisturbed, NotCreated
    <3> QED
      BY <3>1, UndisturbedKept
  <2>2. ASSUME NEW outcome \in Settled, ClientFinish(t, outcome) PROVE FreshInv'
    <3>1. /\ \A u \in Task : u # t => pc'[u] = pc[u]
          /\ pc[t] = "tracked" /\ pc'[t] = "over"
          /\ UNCHANGED <<horizon, doomed>>
      BY <2>2, <1>t DEF ClientFinish, GoTo, expiryVars
    <3>2. born' = born /\ \A u \in Task : u # t => status'[u] = status[u]
      BY <2>2, <1>t, CompleteTouches DEF ClientFinish
    <3>3. Decided(t)
      BY <3>1, <3>2 DEF Decided, Undecided, NotCreated
    <3> QED
      BY <3>3, DecidedKept
  <2> QED
    BY <1>3, <2>1, <2>2 DEF Client
<1>4. ASSUME QueueManager PROVE FreshInv'
  <2>1. CASE ExpireComplete
    <3>1. doomed \in Task /\ Complete(doomed, "failed") /\ "failed" \in Settled
      BY <2>1, <1>t DEF ExpireComplete, TypeOK, Settled
    <3>2. born' = born /\ \A u \in Task : u # doomed => status'[u] = status[u]
      BY <3>1, <1>t, CompleteTouches
    <3>3. UNCHANGED <<pc, horizon>> /\ doomed' = None /\ born[doomed] < horizon
      BY <2>1 DEF ExpireComplete, handlerVars, FreshInv, DoomedIsStale, Stale
    <3> QED
      BY <3>2, <3>3 DEF FreshInv, OwnersRun, DoomedIsStale, Stale
  <2>2. ASSUME NEW t \in Task, ExpireFind(t) PROVE FreshInv'
    <3>1. /\ doomed' = t /\ born[t] < horizon /\ status[t] = "running"
          /\ UNCHANGED <<pc, status, born, horizon>>
      BY <2>2 DEF ExpireFind, Running, Stale, handlerVars, storeVars
    <3>2. t \notin NotCreated
      BY <3>1, <1>t DEF StoreInv, Traceless
    <3> QED
      BY <3>1, <3>2 DEF FreshInv, OwnersRun, DoomedIsStale, Stale, NotCreated
  <2> QED
    BY <1>4, <2>1, <2>2 DEF QueueManager
<1>5. CASE Age
  <2>1. /\ horizon' = horizon + 1 /\ UNCHANGED <<pc, status, born, doomed>>
        /\ horizon \in Nat /\ born \in [Task -> Nat]
    BY <1>5, <1>t DEF Age, handlerVars, storeVars, TypeOK
  <2>2. \A t \in Task : Stale(t) => Stale(t)'
    BY <2>1 DEF Stale
  <2>3. OwnersRun'
    BY <2>1, <2>2 DEF FreshInv, OwnersRun
  <2>4. DoomedIsStale'
    <3> SUFFICES ASSUME doomed # None
                 PROVE  doomed \notin NotCreated /\ born[doomed] < horizon + 1
      BY <2>1 DEF DoomedIsStale, Stale, NotCreated
    <3>1. doomed \in Task /\ doomed \notin NotCreated /\ born[doomed] < horizon
      BY <1>t DEF FreshInv, DoomedIsStale, Stale, TypeOK
    <3> QED
      BY <2>1, <3>1
  <2> QED
    BY <2>3, <2>4 DEF FreshInv
<1>6. ASSUME NEW d \in Dal, SetAwake(d) PROVE FreshInv'
  <2>1. Undisturbed
    BY <1>6 DEF SetAwake, handlerVars, storeVars, expiryVars, Undisturbed, NotCreated
  <2> QED
    BY <2>1, UndisturbedKept
<1>7. CASE Restart
  <2>1. doomed' = None /\ status' = disk /\ UNCHANGED <<born, horizon>>
    BY <1>7 DEF Restart
  <2>2. \A t \in Task : pc'[t] \in Undecided => pc[t] = "tracked"
    BY <1>7, <1>t DEF Restart, Undecided
  <2>3. ASSUME NEW t \in Task, pc[t] = "tracked", status[t] = "running"
        PROVE  disk[t] = "running"
    <3>1. t \in store
      BY <2>3 DEF TasksInv, StoreInv, LiveTaskKept, Pc
    <3>2. disk[t] # "none" /\ disk[t] \notin Settled /\ disk[t] \in Status
      BY <2>3, <3>1, <1>t DEF StoreInv, FileListsStore, FileNeverAhead, Settled, TypeOK
    <3> QED
      BY <3>2 DEF Status
  <2>4. OwnersRun'
    BY <2>1, <2>2, <2>3 DEF FreshInv, OwnersRun, Undecided, Stale
  <2> QED
    BY <2>1, <2>4 DEF FreshInv, DoomedIsStale
<1>8. ASSUME NEW t \in Task, OrphanExits(t) PROVE FreshInv'
  <2>1. Undisturbed
    BY <1>8 DEF OrphanExits, handlerVars, storeVars, expiryVars, Undisturbed, NotCreated
  <2> QED
    BY <2>1, UndisturbedKept
<1> QED
  BY <1>1, <1>2, <1>3, <1>4, <1>5, <1>6, <1>7, <1>8 DEF Next

(* Whoever still owes a task its outcome finds it undecided, unless it is   *)
(* older than the expiry: the owners (task.go, task_oneshot.go, dalcli) and *)
(* the queue manager (queue_manager.go) do not get in each other's way      *)
(* earlier, although no lock keeps them apart.                              *)
THEOREM OwnersDecide == Spec => []FreshInv
<1>1. Init => FreshInv
  BY DEF Init, FreshInv, OwnersRun, DoomedIsStale, Undecided
<1>2. FreshInv /\ UNCHANGED vars => FreshInv'
  <2> SUFFICES ASSUME FreshInv, UNCHANGED vars PROVE Undisturbed
    BY UndisturbedKept
  <2> QED
    BY DEF vars, handlerVars, storeVars, expiryVars, Undisturbed, NotCreated
<1>3. TasksInv /\ FreshInv /\ [Next]_vars => FreshInv'
  BY <1>2, FreshStep
<1> QED
  BY <1>1, <1>3, TasksInvariant, PTL DEF Spec

(* Who replaces an outcome: nobody but the queue manager and a restart. *)
LEMMA WhoReplaces ==
  ASSUME TasksInv, FreshInv, Next, NEW t \in Task,
         status[t] \in Settled, status'[t] # status[t], ~Stale(t)
  PROVE  restarts' # restarts
<1>t. TypeOK /\ restarts \in Nat
  BY DEF TasksInv, TypeOK
<1>0. status[t] # "running" /\ t \notin NotCreated /\ pc[t] \notin Undecided
  BY DEF TasksInv, StoreInv, Traceless, FreshInv, OwnersRun, Settled
<1>1. ASSUME NEW u \in Task, Handler(u) PROVE FALSE
  BY <1>1, <1>0, <1>t
  DEF Handler, Submit, Accept, Refuse, Create, Dispatch, NewTask, storeVars, NotCreated, TypeOK
<1>2. ASSUME NEW u \in Task, Executor(u) PROVE FALSE
  BY <1>2, <1>0, <1>t, ExecutorShape DEF Undisturbed, Decided
<1>3. ASSUME NEW u \in Task, Client(u) PROVE FALSE
  <2>1. ASSUME NEW outcome \in Settled, ClientFinish(u, outcome) PROVE FALSE
    BY <2>1, <1>0, <1>t, CompleteTouches DEF ClientFinish, Undecided
  <2>2. ~ClientUpdate(u)
    BY DEF ClientUpdate
  <2> QED
    BY <1>3, <2>1, <2>2 DEF Client
<1>4. ASSUME QueueManager PROVE FALSE
  <2>1. CASE ExpireComplete
    <3>1. doomed \in Task /\ Complete(doomed, "failed") /\ "failed" \in Settled
      BY <2>1, <1>t DEF ExpireComplete, TypeOK, Settled
    <3>2. doomed # t
      BY <2>1 DEF ExpireComplete, FreshInv, DoomedIsStale
    <3> QED
      BY <3>1, <3>2, <1>t, CompleteTouches
  <2>2. \A u \in Task : ~ExpireFind(u)
    BY DEF ExpireFind, storeVars
  <2> QED
    BY <1>4, <2>1, <2>2 DEF QueueManager
<1>5. ~Age /\ (\A d \in Dal : ~SetAwake(d)) /\ (\A u \in Task : ~OrphanExits(u))
  BY DEF Age, SetAwake, OrphanExits, storeVars
<1>6. CASE Restart
  BY <1>6, <1>t DEF Restart
<1> QED
  BY <1>1, <1>2, <1>3, <1>4, <1>5, <1>6 DEF Next

(* queue_manager.go and task.go: within taskExpireTimeout the first outcome *)
(* of a task is its last, whoever else acts on it; only a restart, which    *)
(* goes back to the file, may replace it.                                   *)
THEOREM FirstOutcomeStays == Spec => OutcomeFinalWhileFresh
<1> DEFINE Final == \A t \in Task :
                      status[t] \in Settled /\ status'[t] # status[t]
                        => Stale(t) \/ restarts' # restarts
<1>1. TasksInv /\ FreshInv /\ [Next]_vars => [Final]_vars
  BY WhoReplaces
<1> QED
  BY <1>1, TasksInvariant, OwnersDecide, PTL DEF Spec, OutcomeFinalWhileFresh
=============================================================================
