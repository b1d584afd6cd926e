---------------------------- MODULE TaskLimiter ----------------------------
(***************************************************************************)
(* One role's counter of TaskLimiter (internal/daemon/task_limiter.go), as  *)
(* the goroutines of the daemon use it.  Acquire is an atomic add, a        *)
(* comparison of the value that add returned and, past the maximum, an      *)
(* atomic subtract; Release is an atomic subtract and, below zero, an       *)
(* atomic store of zero.  Each atomic operation is a step of its own, so    *)
(* any number of tasks may stand between the two halves of an Acquire.      *)
(***************************************************************************)
EXTENDS Integers, FiniteSets

CONSTANTS
  Task,        \* the tasks, each executed by one goroutine that calls Acquire
  MaxOneshot   \* l.max[role]: 3 for the role "oneshot", the only one in use

ASSUME LimiterAssumption == IsFiniteSet(Task) /\ MaxOneshot \in Nat \ {0}

VARIABLES
  counter,  \* *l.counts[role]
  stage,    \* where each task stands in Acquire / Release
  current   \* what the task's last atomic add returned

limiterVars == <<counter, stage, current>>

Stage == {"idle", "added", "holding", "released"}

LimiterTypeOK ==
  /\ counter \in Int
  /\ stage \in [Task -> Stage]
  /\ current \in [Task -> Int]

LimiterInit ==
  /\ counter = 0
  /\ stage = [w \in Task |-> "idle"]
  /\ current = [w \in Task |-> 0]

-----------------------------------------------------------------------------
(* Acquire: current := atomic.AddInt64(counter, 1). *)
Add(w) ==
  /\ stage[w] = "idle"
  /\ counter' = counter + 1
  /\ current' = [current EXCEPT ![w] = counter + 1]
  /\ stage' = [stage EXCEPT ![w] = "added"]

(* Mutant of Admit: one slot too many. *)
AdmitOffByOne(w) ==
  /\ stage[w] = "added"
  /\ current[w] <= MaxOneshot + 1
  /\ stage' = [stage EXCEPT ![w] = "holding"]
  /\ UNCHANGED <<counter, current>>

(* Acquire: the value is within the maximum, the caller holds a slot. *)
Admit(w) ==
  /\ stage[w] = "added"
  /\ current[w] <= MaxOneshot
  /\ stage' = [stage EXCEPT ![w] = "holding"]
  /\ UNCHANGED <<counter, current>>

(* Acquire: the value is past the maximum, the add is undone. *)
Reject(w) ==
  /\ stage[w] = "added"
  /\ current[w] > MaxOneshot
  /\ counter' = counter - 1
  /\ current' = [current EXCEPT ![w] = 0]
  /\ stage' = [stage EXCEPT ![w] = "idle"]

(* Release: newVal := atomic.AddInt64(counter, -1). *)
Release(w) ==
  /\ stage[w] = "holding"
  /\ counter' = counter - 1
  /\ current' = [current EXCEPT ![w] = counter - 1]
  /\ stage' = [stage EXCEPT ![w] = "released"]

(* Release: a negative value is replaced by zero. *)
Clamp(w) ==
  /\ stage[w] = "released"
  /\ counter' = IF current[w] < 0 THEN 0 ELSE counter
  /\ current' = [current EXCEPT ![w] = 0]
  /\ stage' = [stage EXCEPT ![w] = "idle"]

(* The daemon restarts: newTaskLimiter starts from an empty map. *)
Reset ==
  /\ counter' = 0
  /\ stage' = [w \in Task |-> "idle"]
  /\ current' = [w \in Task |-> 0]

LimiterStep(w) == Add(w) \/ Admit(w) \/ Reject(w) \/ Release(w) \/ Clamp(w)

LimiterNext == Reset \/ \E w \in Task : LimiterStep(w)

LimiterSpec == LimiterInit /\ [][LimiterNext]_limiterVars

-----------------------------------------------------------------------------
Holders == {w \in Task : stage[w] = "holding"}

(* The tasks whose add the counter contains. *)
Busy == {w \in Task : stage[w] \in {"added", "holding"}}

(* The holders, and those whose add already entitles them to a slot. *)
Entitled == {w \in Busy : stage[w] = "holding" \/ current[w] <= MaxOneshot}

(* At no time do more than MaxOneshot tasks hold a slot, whatever the       *)
(* interleaving of the adds, comparisons and subtracts.                     *)
HoldersBounded == Cardinality(Holders) <= MaxOneshot

(* The counter is exactly the number of tasks between their add and their   *)
(* subtract: a rejected Acquire leaves nothing behind, so no slot leaks.    *)
CounterExact == counter = Cardinality(Busy)

(* The store of zero in Release never happens: it could erase the adds of   *)
(* other tasks and hand out more slots than there are.                      *)
ClampIdle == \A w \in Task : stage[w] = "released" => current[w] >= 0

(* The inductive invariant behind the three. *)
LimiterInv ==
  /\ LimiterTypeOK
  /\ CounterExact
  /\ Cardinality(Entitled) <= MaxOneshot
  /\ ClampIdle
=============================================================================
