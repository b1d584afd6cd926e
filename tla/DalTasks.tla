------------------------------ MODULE DalTasks ------------------------------
(***************************************************************************)
(* The life of a task in a dalcenter daemon: the HTTP handlers and watchers *)
(* that create it (task.go, task_oneshot.go, a2a.go, issue_watcher.go,      *)
(* daemon.go), the goroutine that executes it behind the harness gate       *)
(* (harness.go) and the one-shot limiter (task_limiter.go), the queue       *)
(* manager that expires it (queue_manager.go), the task store and its file, *)
(* and a restart of the daemon.                                             *)
(*                                                                         *)
(* A step is what one goroutine does between two points where another can   *)
(* be seen: a critical section of taskStore.mu, one read of the containers  *)
(* map, one atomic operation, one off-lock write of tr.Status, one external *)
(* command.                                                                 *)
(***************************************************************************)
EXTENDS TaskLimiter

CONSTANTS
  Dal,         \* dal names
  Leader,      \* the dals whose role is "leader"; the others are members
  Mode,        \* the kinds of task explored, out of the three of AllModes
  MaxTasks,    \* maxTasks = 50
  MaxLeader,   \* maxRunningLeader = 1
  MaxMember,   \* maxRunningMember = 2
  MaxRestarts, \* bound on the daemon restarts explored
  None         \* no task, no dal

(* "container" runs in the dal's container, "oneshot" in one of its own,    *)
(* "tracked" is run by dalcli outside the daemon.                           *)
AllModes == {"container", "oneshot", "tracked"}

ASSUME TasksAssumption ==
  /\ Mode \subseteq AllModes
  /\ Leader \subseteq Dal
  /\ MaxTasks \in Nat \ {0}
  /\ MaxLeader \in Nat \ {0} /\ MaxMember \in Nat \ {0}
  /\ MaxRestarts \in Nat
  /\ None \notin Task /\ None \notin Dal

VARIABLES
  awake,     \* the dals in d.containers
  req,       \* what each request asks for, and the limit its gate applies
  pc,        \* where the goroutine that owns the request stands
  snap,      \* the tasks of its dal that its last tasks.List() returned
  store,     \* the keys of taskStore.tasks
  status,    \* tr.Status of each task record
  born,      \* the rank of tr.StartedAt among all tasks
  clock,     \* the number of tasks created so far
  horizon,   \* tasks born before it are older than taskExpireTimeout
  doomed,    \* the task expireStaleTasks has found stale, not yet completed
  disk,      \* tasks.json: the status last saved for each task, or "none"
  restarts,  \* restarts so far
  orphans    \* tasks whose ephemeral container outlived its daemon

handlerVars == <<req, pc, snap>>
storeVars   == <<store, status, born, clock, disk>>
expiryVars  == <<horizon, doomed>>
vars == <<awake, handlerVars, storeVars, expiryVars, restarts, orphans, limiterVars>>

-----------------------------------------------------------------------------
Settled == {"done", "failed"}
Status  == {"none", "running"} \cup Settled

Request   == [dal : Dal \cup {None}, mode : AllModes, limit : Nat]
NoRequest == [dal |-> None, mode |-> "tracked", limit |-> 0]

Pc == {"idle", "listed", "accepted",      \* before tasks.New
       "created", "gating", "gated",      \* up to the harness gate
       "acquiring", "executing", "releasing", "clamping",
       "tracked", "over"}

(* maxRunning of preTaskGate, from the role the caller passes. *)
GateLimit(isLeader) == IF isLeader THEN MaxLeader ELSE MaxMember

(* maxRunningForDal: a dal that is not awake gets the member's limit. *)
MaxRunning(d) == GateLimit(d \in Leader \cap awake)

Running == {t \in store : status[t] = "running"}

(* tasks.List() filtered by dal, without the task itself. *)
SameDal(t, d) == {u \in store \ {t} : req[u].dal = d}

(* How many of the listed tasks are still running.  The code reads their    *)
(* statuses one after the other; they only ever leave "running", one at a   *)
(* time, so every count it can reach is the count at some single moment.    *)
RunningCount(t) == Cardinality(snap[t] \cap {u \in Task : status[u] = "running"})

(* save(): the whole store, with the statuses of the moment. *)
Saved(s, st) == [t \in Task |-> IF t \in s THEN st[t] ELSE "none"]

(* Mutant of Evict: the oldest task is dropped even while it runs. *)
EvictRunning(s, st, b) ==
  IF Cardinality(s) > MaxTasks
  THEN s \ {CHOOSE u \in s : \A v \in s : b[u] <= b[v]}
  ELSE s

(* New: past the cap, the oldest task that is not running is dropped. *)
Evict(s, st, b) ==
  LET old == {u \in s : st[u] # "running"} IN
  IF Cardinality(s) > MaxTasks /\ old # {}
  THEN s \ {CHOOSE u \in old : \A v \in old : b[u] <= b[v]}
  ELSE s

Init ==
  /\ awake \in SUBSET Dal
  /\ req = [t \in Task |-> NoRequest]
  /\ pc = [t \in Task |-> "idle"]
  /\ snap = [t \in Task |-> {}]
  /\ store = {}
  /\ status = [t \in Task |-> "none"]
  /\ born = [t \in Task |-> 0]
  /\ clock = 0
  /\ horizon = 0
  /\ doomed = None
  /\ disk = [t \in Task |-> "none"]
  /\ restarts = 0 /\ orphans = {}
  /\ LimiterInit

-----------------------------------------------------------------------------
(* Creating a task.                                                         *)

GoTo(t, label) == pc' = [pc EXCEPT ![t] = label]

(* tasks.New under the lock: record, eviction, save. *)
NewTask(t) ==
  /\ status' = [status EXCEPT ![t] = "running"]
  /\ born' = [born EXCEPT ![t] = clock]
  /\ clock' = clock + 1
  /\ store' = Evict(store \cup {t}, status', born')
  /\ disk' = Saved(store', status')

(* handleTask and handleTaskStart: the request is decoded, handleTask       *)
(* refuses a dal that is not awake, and canAcceptTask lists the tasks.      *)
Submit(t, d, m) ==
  /\ pc[t] = "idle"
  /\ m # "tracked" => d \in awake
  /\ req' = [req EXCEPT ![t] = [dal |-> d, mode |-> m, limit |-> GateLimit(d \in Leader)]]
  /\ snap' = [snap EXCEPT ![t] = SameDal(t, d)]
  /\ GoTo(t, "listed")
  /\ UNCHANGED <<awake, storeVars, expiryVars, restarts, orphans, limiterVars>>

(* canAcceptTask counts, and asks for the limit of the dal. *)
Accept(t) ==
  /\ pc[t] = "listed"
  /\ RunningCount(t) < MaxRunning(req[t].dal)
  /\ snap' = [snap EXCEPT ![t] = {}]
  /\ GoTo(t, "accepted")
  /\ UNCHANGED <<awake, req, storeVars, expiryVars, restarts, orphans, limiterVars>>

(* 429 from canAcceptTask, or 403 from enforceTaskRules: a member that is   *)
(* awake takes no task that is not one-shot.                                *)
RuleAllows(t) ==
  req[t].mode = "container" => req[t].dal \in Leader \/ req[t].dal \notin awake

Refuse(t) ==
  /\ \/ pc[t] = "listed" /\ RunningCount(t) >= MaxRunning(req[t].dal)
     \/ pc[t] = "accepted" /\ ~RuleAllows(t)
  /\ req' = [req EXCEPT ![t] = NoRequest]
  /\ snap' = [snap EXCEPT ![t] = {}]
  /\ GoTo(t, "idle")
  /\ UNCHANGED <<awake, storeVars, expiryVars, restarts, orphans, limiterVars>>

(* The rule holds, the task is created; a tracked one is left to its client. *)
Create(t) ==
  /\ pc[t] = "accepted"
  /\ RuleAllows(t)
  /\ NewTask(t)
  /\ GoTo(t, IF req[t].mode = "tracked" THEN "tracked" ELSE "created")
  /\ UNCHANGED <<awake, req, snap, expiryVars, restarts, orphans, limiterVars>>

(* The callers of tasks.New that ask nobody: handleTasksSend, the issue     *)
(* watcher and the message fallback on a container they looked up;          *)
(* handleTaskOneShot with the role of its body, the issue workflow and the  *)
(* auto-task scheduler as a member, on any dal, awake or not.               *)
Dispatch(t, d, m, isLeader) ==
  /\ pc[t] = "idle"
  /\ \/ m = "container" /\ d \in awake /\ isLeader = (d \in Leader)
     \/ m = "oneshot"
  /\ req' = [req EXCEPT ![t] = [dal |-> d, mode |-> m, limit |-> GateLimit(isLeader)]]
  /\ NewTask(t)
  /\ GoTo(t, "created")
  /\ UNCHANGED <<awake, snap, expiryVars, restarts, orphans, limiterVars>>

-----------------------------------------------------------------------------
(* Executing it.                                                            *)

(* Off-lock write of tr.Status by the goroutine that executes the task.     *)
Record(t, st) == status' = [status EXCEPT ![t] = st]

(* preTaskGate lists the tasks ... *)
GateList(t) ==
  /\ pc[t] = "created"
  /\ snap' = [snap EXCEPT ![t] = SameDal(t, req[t].dal)]
  /\ GoTo(t, "gating")
  /\ UNCHANGED <<awake, req, storeVars, expiryVars, restarts, orphans, limiterVars>>

(* Mutant of GatePass: one task too many. *)
GatePassOffByOne(t) ==
  /\ pc[t] = "gating"
  /\ RunningCount(t) <= req[t].limit
  /\ snap' = [snap EXCEPT ![t] = {}]
  /\ GoTo(t, IF req[t].mode = "container" THEN "executing" ELSE "gated")
  /\ UNCHANGED <<awake, req, storeVars, expiryVars, restarts, orphans, limiterVars>>

(* ... and counts the others that run. *)
GatePass(t) ==
  /\ pc[t] = "gating"
  /\ RunningCount(t) < req[t].limit
  /\ snap' = [snap EXCEPT ![t] = {}]
  /\ GoTo(t, IF req[t].mode = "container" THEN "executing" ELSE "gated")
  /\ UNCHANGED <<awake, req, storeVars, expiryVars, restarts, orphans, limiterVars>>

GateFail(t) ==
  /\ pc[t] = "gating"
  /\ RunningCount(t) >= req[t].limit
  /\ snap' = [snap EXCEPT ![t] = {}]
  /\ Record(t, "failed")
  /\ GoTo(t, "over")
  /\ UNCHANGED <<awake, req, store, born, clock, disk, expiryVars, restarts, orphans, limiterVars>>

(* execTaskInContainer: setupCrossRepo fails, nothing is run. *)
CloneFails(t) ==
  /\ pc[t] = "executing" /\ req[t].mode = "container"
  /\ Record(t, "failed")
  /\ GoTo(t, "over")
  /\ UNCHANGED <<awake, req, snap, store, born, clock, disk, expiryVars, restarts, orphans, limiterVars>>

(* execTaskOneShot: taskLimiter.Acquire("oneshot"), the add ... *)
AcquireAdd(t) ==
  /\ pc[t] = "gated"
  /\ Add(t)
  /\ GoTo(t, "acquiring")
  /\ UNCHANGED <<awake, req, snap, storeVars, expiryVars, restarts, orphans>>

(* ... and its verdict. *)
AcquireOk(t) ==
  /\ pc[t] = "acquiring"
  /\ Admit(t)
  /\ GoTo(t, "executing")
  /\ UNCHANGED <<awake, req, snap, storeVars, expiryVars, restarts, orphans>>

AcquireFull(t) ==
  /\ pc[t] = "acquiring"
  /\ Reject(t)
  /\ Record(t, "failed")
  /\ GoTo(t, "over")
  /\ UNCHANGED <<awake, req, snap, store, born, clock, disk, expiryVars, restarts, orphans>>

(* The command returns: the outcome is written over whatever the status is. *)
Finish(t, outcome) ==
  /\ pc[t] = "executing"
  /\ Record(t, outcome)
  /\ GoTo(t, IF req[t].mode = "oneshot" THEN "releasing" ELSE "over")
  /\ UNCHANGED <<awake, req, snap, store, born, clock, disk, expiryVars, restarts, orphans, limiterVars>>

(* execTaskOneShot returns: the deferred Release. *)
ReleaseSub(t) ==
  /\ pc[t] = "releasing"
  /\ Release(t)
  /\ GoTo(t, "clamping")
  /\ UNCHANGED <<awake, req, snap, storeVars, expiryVars, restarts, orphans>>

ReleaseClamp(t) ==
  /\ pc[t] = "clamping"
  /\ Clamp(t)
  /\ GoTo(t, "over")
  /\ UNCHANGED <<awake, req, snap, storeVars, expiryVars, restarts, orphans>>

-----------------------------------------------------------------------------
(* Completing it from outside.                                              *)

(* taskStore.Complete under the lock: nothing for a task no longer there. *)
Complete(t, outcome) ==
  IF t \in store
  THEN /\ Record(t, outcome)
       /\ disk' = Saved(store, status')
       /\ UNCHANGED <<store, born, clock>>
  ELSE UNCHANGED storeVars

(* handleTaskFinish, called once by the dalcli that runs a tracked task;    *)
(* "blocked" and "noop" count as "done", they differ in wording only.       *)
ClientFinish(t, outcome) ==
  /\ pc[t] = "tracked"
  /\ Complete(t, outcome)
  /\ GoTo(t, "over")
  /\ UNCHANGED <<awake, req, snap, expiryVars, restarts, orphans, limiterVars>>

(* handleTaskEvent and handleTaskMetadata change no status, but save. *)
ClientUpdate(t) ==
  /\ pc[t] = "tracked" /\ t \in store
  /\ disk' = Saved(store, status)
  /\ UNCHANGED <<awake, handlerVars, store, status, born, clock, expiryVars, restarts, orphans, limiterVars>>

(* Time passes: the oldest task not yet stale reaches taskExpireTimeout. *)
Age ==
  /\ horizon < clock
  /\ horizon' = horizon + 1
  /\ UNCHANGED <<awake, handlerVars, storeVars, doomed, restarts, orphans, limiterVars>>

Stale(t) == born[t] < horizon

(* Mutant of ExpireFind: the age is not looked at. *)
ExpireFindAnyAge(t) ==
  /\ doomed = None
  /\ t \in Running
  /\ doomed' = t
  /\ UNCHANGED <<awake, handlerVars, storeVars, horizon, restarts, orphans, limiterVars>>

(* Mutant of ExpireFind: only tasks that somebody still works on expire. *)
ExpireFindOwned(t) ==
  /\ doomed = None
  /\ t \in Running
  /\ Stale(t)
  /\ pc[t] # "over"
  /\ doomed' = t
  /\ UNCHANGED <<awake, handlerVars, storeVars, horizon, restarts, orphans, limiterVars>>

(* expireStaleTasks reads a listed task's status and age off the lock ... *)
ExpireFind(t) ==
  /\ doomed = None
  /\ t \in Running
  /\ Stale(t)
  /\ doomed' = t
  /\ UNCHANGED <<awake, handlerVars, storeVars, horizon, restarts, orphans, limiterVars>>

(* ... and completes it as failed, whatever happened since. *)
ExpireComplete ==
  /\ doomed # None
  /\ Complete(doomed, "failed")
  /\ doomed' = None
  /\ UNCHANGED <<awake, handlerVars, horizon, restarts, orphans, limiterVars>>

-----------------------------------------------------------------------------
(* The surroundings.                                                        *)

(* A dal wakes or goes to sleep (module DalLifecycle says how). *)
SetAwake(d) ==
  /\ awake' = IF d \in awake THEN awake \ {d} ELSE awake \cup {d}
  /\ UNCHANGED <<handlerVars, storeVars, expiryVars, restarts, orphans, limiterVars>>

(* The tasks whose ephemeral container this daemon has started. *)
Ephemeral == {t \in Task : pc[t] = "executing" /\ req[t].mode = "oneshot"}

(* docker run --rm removes a container when it exits, not when the daemon    *)
(* that waits for it dies: it may go on, and nobody counts it any more.      *)
Abandoned == \E left \in SUBSET Ephemeral : orphans' = orphans \cup left

OrphanExits(t) ==
  /\ t \in orphans
  /\ orphans' = orphans \ {t}
  /\ UNCHANGED <<awake, handlerVars, storeVars, expiryVars, restarts, limiterVars>>

(* Mutant of Restart: what the file lists is queued again. *)
RestartRequeues ==
  /\ restarts < MaxRestarts
  /\ restarts' = restarts + 1
  /\ store' = {t \in Task : disk[t] # "none"}
  /\ status' = [t \in Task |-> IF disk[t] = "none" THEN "none" ELSE "running"]
  /\ pc' = [t \in Task |->
              CASE pc[t] \in {"idle", "listed", "accepted"} -> "idle"
                [] pc[t] = "tracked" -> "tracked"
                [] OTHER -> "over"]
  /\ req' = [t \in Task |-> IF pc[t] \in {"listed", "accepted"} THEN NoRequest ELSE req[t]]
  /\ snap' = [t \in Task |-> {}]
  /\ doomed' = None
  /\ Abandoned
  /\ Reset
  /\ UNCHANGED <<awake, born, clock, disk, horizon>>

(* The daemon dies and starts again: the store is what tasks.json holds, no *)
(* goroutine is left; the dalcli that runs a tracked task lives elsewhere.  *)
Restart ==
  /\ restarts < MaxRestarts
  /\ restarts' = restarts + 1
  /\ store' = {t \in Task : disk[t] # "none"}
  /\ status' = disk
  /\ pc' = [t \in Task |->
              CASE pc[t] \in {"idle", "listed", "accepted"} -> "idle"
                [] pc[t] = "tracked" -> "tracked"
                [] OTHER -> "over"]
  /\ req' = [t \in Task |-> IF pc[t] \in {"listed", "accepted"} THEN NoRequest ELSE req[t]]
  /\ snap' = [t \in Task |-> {}]
  /\ doomed' = None
  /\ Abandoned
  /\ Reset
  /\ UNCHANGED <<awake, born, clock, disk, horizon>>

-----------------------------------------------------------------------------
Handler(t) ==
  \/ \E d \in Dal, m \in Mode : Submit(t, d, m)
  \/ Accept(t) \/ Refuse(t) \/ Create(t)
  \/ \E d \in Dal, m \in Mode, isLeader \in BOOLEAN :
       Dispatch(t, d, m, isLeader)

Executor(t) ==
  \/ GateList(t) \/ GatePass(t) \/ GateFail(t)
  \/ CloneFails(t)
  \/ AcquireAdd(t) \/ AcquireOk(t) \/ AcquireFull(t)
  \/ \E outcome \in Settled : Finish(t, outcome)
  \/ ReleaseSub(t) \/ ReleaseClamp(t)

Client(t) == ClientUpdate(t) \/ \E outcome \in Settled : ClientFinish(t, outcome)

QueueManager == ExpireComplete \/ \E t \in Task : ExpireFind(t)

Next ==
  \/ \E t \in Task : Handler(t) \/ Executor(t) \/ Client(t)
  \/ QueueManager
  \/ Age
  \/ \E d \in Dal : SetAwake(d)
  \/ Restart
  \/ \E t \in Task : OrphanExits(t)

Spec == Init /\ [][Next]_vars

(* Time passes and the queue manager's ticker fires; nobody owes a handler, *)
(* a container command or a client anything.                                *)
Fairness ==
  /\ WF_vars(Age)
  /\ WF_vars(ExpireComplete)
  /\ \A t \in Task : WF_vars(ExpireFind(t))

FairSpec == Spec /\ Fairness

-----------------------------------------------------------------------------
TypeOK ==
  /\ awake \subseteq Dal
  /\ req \in [Task -> Request]
  /\ pc \in [Task -> Pc]
  /\ snap \in [Task -> SUBSET Task]
  /\ store \subseteq Task
  /\ status \in [Task -> Status]
  /\ born \in [Task -> Nat]
  /\ clock \in Nat
  /\ horizon \in Nat
  /\ doomed \in Task \cup {None}
  /\ disk \in [Task -> Status]
  /\ restarts \in Nat
  /\ orphans \subseteq Task
  /\ LimiterTypeOK

(* Past the gate, and neither settled nor expired. *)
Admitted == {t \in Task : /\ pc[t] \in {"gated", "acquiring", "executing"}
                          /\ status[t] = "running"}

(* harness.go preTaskGate, "double safety" behind canAcceptTask: although   *)
(* the check and the creation of a task are never atomic, of the tasks of a *)
(* dal that passed the gate under a limit l at most l run at a time.        *)
GateBound ==
  \A d \in Dal, l \in {MaxLeader, MaxMember} :
    Cardinality({t \in Admitted : req[t].dal = d /\ req[t].limit <= l}) <= l

(* execTaskOneShot: of the ephemeral containers that run at a time, over all *)
(* dals and even those whose task has expired, a daemon has started at most  *)
(* the limiter's maximum, and those it no longer counts, because it has died *)
(* since, are at most that many for each of its deaths.                      *)
OneshotBound ==
  /\ Cardinality(Ephemeral) <= MaxOneshot
  /\ Cardinality(orphans) <= restarts * MaxOneshot

(* taskStore.New's eviction: a task somebody still works on can be found by *)
(* id as long as it has not settled, so its events and its outcome are kept. *)
LiveTaskKept ==
  \A t \in Task :
    status[t] = "running" /\ pc[t] \in Pc \ {"idle", "listed", "accepted"} => t \in store

(* taskStore.save: the file lists exactly the tasks of the store, so a task *)
(* whose id a client was given is still known after a restart.              *)
FileListsStore == store = {t \in Task : disk[t] # "none"}

(* Off-lock status writes are not saved, so the file may lag; it is never   *)
(* ahead: what it says has settled has settled in memory.                   *)
FileNeverAhead == \A t \in Task : disk[t] \in Settled => status[t] \in Settled

(* queue_manager.go and task.go: within taskExpireTimeout the first outcome *)
(* of a task is its last; only a restart or the expiry may replace it.      *)
OutcomeFinalWhileFresh ==
  [][\A t \in Task :
       status[t] \in Settled /\ status'[t] # status[t]
         => Stale(t) \/ restarts' # restarts]_vars

(* A task that tasks.json records as settled never runs again, not even     *)
(* through a restart.                                                       *)
SettledOnFileStaysSettled ==
  [][\A t \in Task : disk[t] \in Settled => status'[t] # "running"]_vars

(* startQueueManager: every task settles, also the one whose client or      *)
(* daemon died, and also through a restart.                                 *)
EveryTaskSettles == \A t \in Task : t \in Running ~> t \notin Running

-----------------------------------------------------------------------------
(* The inductive invariant behind the four state invariants above.          *)

NotCreated == {t \in Task : pc[t] \in {"idle", "listed", "accepted"}}

(* The running tasks of t's dal that were created before it: the only ones  *)
(* its gate is sure to see, and the only ones it has to.                    *)
Earlier(t) == {u \in Running : req[u].dal = req[t].dal /\ born[u] < born[t]}

(* A request whose task is not created has left no trace. *)
Traceless ==
  \A t \in NotCreated : t \notin store /\ status[t] = "none" /\ disk[t] = "none"

StoreRecorded == \A t \in store : status[t] # "none"

(* Creation times are distinct and in the past. *)
BirthOrder ==
  \A t \in Task \ NotCreated :
    /\ born[t] < clock
    /\ \A u \in Task \ NotCreated : u # t => born[u] # born[t]

GateSees == \A t \in Task : pc[t] = "gating" => Earlier(t) \subseteq snap[t]

GateCounted ==
  \A t \in Task :
    pc[t] \in {"gated", "acquiring", "executing"} => Cardinality(Earlier(t)) < req[t].limit

SlotHeld ==
  \A t \in Task : pc[t] = "executing" /\ req[t].mode = "oneshot" => stage[t] = "holding"

(* Whoever still owes a task its first outcome finds it running, unless it   *)
(* is stale: only then may the queue manager have been there before.        *)
Undecided == {"created", "gating", "gated", "acquiring", "executing", "tracked"}
OwnersRun == \A t \in Task : pc[t] \in Undecided => status[t] = "running" \/ Stale(t)

(* What the queue manager is about to complete was created and is stale. *)
DoomedIsStale == doomed # None => doomed \notin NotCreated /\ Stale(doomed)

FreshInv == OwnersRun /\ DoomedIsStale

StoreInv == Traceless /\ StoreRecorded /\ LiveTaskKept /\ FileListsStore /\ FileNeverAhead

GateInv == BirthOrder /\ GateSees /\ GateCounted

TasksInv == TypeOK /\ StoreInv /\ GateInv /\ SlotHeld /\ LimiterInv

-----------------------------------------------------------------------------

=============================================================================
