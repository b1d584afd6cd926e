---------------------------- MODULE DalLifecycle ----------------------------
(***************************************************************************)
(* The containers of the dals and the map the daemon keeps of them.        *)
(* handleWake, handleSleep, handleRestart, handleReplace and runSync       *)
(* (daemon.go) run concurrently, the leader watcher (leader_watcher.go)    *)
(* beside them.  None of them holds d.mu while it talks to docker.         *)
(*                                                                         *)
(* A step is one critical section of d.mu or one call of docker (docker.go *)
(* and the library under it).  A refused request changes nothing and is    *)
(* left out; a wake inside a restart or a replace that is refused is not.  *)
(* Ids are recycled: only "the same container or another" matters.         *)
(***************************************************************************)
EXTENDS Integers, FiniteSets

CONSTANTS
  Dal,           \* the dals of the team
  Leader,        \* those whose dal.cue says role = leader
  Handler,       \* concurrent requests and runs of the repository watcher
  Id,            \* container ids
  None,          \* no container, no dal
  FailThreshold, \* leaderFailThreshold = 3
  MaxRetry       \* leaderMaxRestartRetry = 3

ASSUME LifecycleAssumption ==
  /\ IsFiniteSet(Dal) /\ Leader \subseteq Dal /\ IsFiniteSet(Handler)
  /\ None \notin Dal \cup Id
  (* box, reg and every operation, the watcher's too, refer to ids: *)
  /\ IsFiniteSet(Id)
  /\ Cardinality(Id) > 2 * (Cardinality(Dal) + Cardinality(Handler) + 1)
       + Cardinality(Handler) * Cardinality(Dal)
  /\ FailThreshold \in Nat \ {0} /\ MaxRetry \in Nat

VARIABLES
  box,     \* docker: the container under the dal's name, a name is given once
  reg,     \* d.containers: the id registered for the dal
  h,       \* the handlers
  w,       \* the leader watcher and its leaderHealth
  failed,  \* leaders whose recovery failed, nobody told, nobody registered again
  slipped, \* dals with an ignored docker error that left a container behind
  clashed  \* dals on which operations overlapped that do not tolerate it

vars == <<box, reg, h, w, failed, slipped, clashed>>
ghosts == <<failed, slipped>>

-----------------------------------------------------------------------------
Gone == [id |-> None, up |-> FALSE]
Free == [op |-> "none", pc |-> "idle", dal |-> None, seen |-> None,
         made |-> None, left |-> 0, todo |-> {}]
Calm == [pc |-> "idle", dal |-> None, seen |-> None, made |-> None,
         fails |-> 0, tries |-> 0]

TypeOK ==
  /\ box \in [Dal -> [id : Id \cup {None}, up : BOOLEAN]]
  /\ \A d \in Dal : box[d].up => box[d].id # None
  /\ reg \in [Dal -> Id \cup {None}]
  /\ h \in [Handler ->
       [op : {"none", "wake", "sleep", "restart", "replace", "sync"},
        pc : {"idle", "check", "clean", "run", "set", "stop", "delete",
              "pick", "drop"},
        dal : Dal \cup {None}, seen : Id \cup {None}, made : Id \cup {None},
        left : 0..2, todo : SUBSET (Dal \X Id)]]
  /\ w \in [pc : {"idle", "inspect", "lookup", "stop", "delete", "run", "set"},
            dal : Dal \cup {None}, seen : Id \cup {None}, made : Id \cup {None},
            fails : 0..(FailThreshold + MaxRetry), tries : 0..MaxRetry]
  /\ failed \subseteq Leader /\ slipped \subseteq Dal /\ clashed \subseteq Dal

(* An id nobody holds, as good as one never given. *)
Held ==
  {box[d].id : d \in Dal} \cup {reg[d] : d \in Dal}
  \cup {h[r].seen : r \in Handler} \cup {h[r].made : r \in Handler}
  \cup (UNION {{p[2] : p \in h[r].todo} : r \in Handler}) \cup {w.seen, w.made}
NewId == CHOOSE i \in Id : i \notin Held

(* reconcile at the start: running containers are adopted, found by the     *)
(* UUID of the dal.cue they are labelled with, except those that docker did *)
(* not list or whose dal.cue cannot be read.                                *)
Adopted(missed) ==
  [d \in Dal |-> IF box[d].up /\ d \notin missed THEN box[d].id ELSE None]
Running == {d \in Dal : box[d].up}

FirstId == CHOOSE f \in [Dal -> Id] : \A d, e \in Dal : f[d] = f[e] => d = e

Init ==
  /\ box \in [Dal -> {Gone} \cup [id : Id, up : BOOLEAN]]
  /\ \A d \in Dal : box[d].id \in {None, FirstId[d]}
  /\ slipped \in SUBSET Running /\ reg = Adopted(slipped)
  /\ h = [r \in Handler |-> Free] /\ w = Calm
  /\ failed = {} /\ clashed = {}

-----------------------------------------------------------------------------
(* docker *)

(* dockerStop stops and removes the container, if it is still there.        *)
Stops(d, i)  == box[d].id = i /\ box' = [box EXCEPT ![d] = Gone]
(* It fails: the container is untouched, or stopped and not removed.        *)
StopFails(d, i) ==
  \/ UNCHANGED box
  \/ box[d].id = i /\ box' = [box EXCEPT ![d].up = FALSE]

(* dockerRun needs the name for itself. *)
Runs(d) ==
  /\ box[d] = Gone
  /\ box' = [box EXCEPT ![d] = [id |-> NewId, up |-> TRUE]]
(* It fails: nothing is created, or a container that did not start.         *)
RunFails(d) ==
  \/ UNCHANGED box
  \/ box[d] = Gone /\ box' = [box EXCEPT ![d] = [id |-> NewId, up |-> FALSE]]

(* A container's process ends. *)
Dies(d) ==
  /\ box[d].up
  /\ box' = [box EXCEPT ![d].up = FALSE]
  /\ UNCHANGED <<reg, h, w, ghosts>>

-----------------------------------------------------------------------------
(* The handlers.  Go(r, s) moves r to s. *)
Go(r, s) == h' = [h EXCEPT ![r] = s]
At(r, pc) == h[r].pc = pc
Arrives(r, op, d, pc) ==
  h[r] = Free /\ Go(r, [Free EXCEPT !.op = op, !.dal = d, !.pc = pc])

(* Mutant of WakeAllowed: no 409 for a dal that is running. *)
WakeAllowedAgain(d) == d \in Leader

(* enforceWakeRules: only a leader is woken.  409 when it is registered;    *)
(* every entry in the map has Status "running".                             *)
WakeAllowed(d) == d \in Leader /\ reg[d] = None

(* A wake ends: handleReplace makes two of them, then turns to the original. *)
AfterWake(r) ==
  CASE h[r].op = "replace" /\ h[r].left = 2 ->
         [h[r] EXCEPT !.pc = "check", !.left = 1, !.made = None]
    [] h[r].op = "replace" /\ h[r].left = 1 ->
         [h[r] EXCEPT !.pc = "stop", !.left = 0, !.made = None]
    [] OTHER -> Free

(* runSync turns to the next entry of its snapshot. *)
AfterSync(r) ==
  IF h[r].todo = {} THEN Free
  ELSE [Free EXCEPT !.op = "sync", !.pc = "pick", !.todo = h[r].todo]

(* Where an operation goes that could not start or has started a container. *)
AfterRun(r) == IF h[r].op = "sync" THEN AfterSync(r) ELSE AfterWake(r)

Wake(r, d) ==
  /\ WakeAllowed(d)
  /\ Arrives(r, "wake", d, "clean")
  /\ UNCHANGED <<box, reg, w, ghosts>>

(* The check of a wake that a restart or a replace makes. *)
WakeInside(r) ==
  /\ At(r, "check")
  /\ IF WakeAllowed(h[r].dal) THEN Go(r, [h[r] EXCEPT !.pc = "clean"])
     ELSE Go(r, AfterWake(r))
  /\ UNCHANGED <<box, reg, w, ghosts>>

(* cleanStaleContainer: rm -f by name; an error is logged. *)
Clean(r) ==
  LET d == h[r].dal IN
  /\ At(r, "clean")
  /\ Go(r, [h[r] EXCEPT !.pc = "run"])
  /\ \/ box' = [box EXCEPT ![d] = Gone] /\ UNCHANGED slipped
     \/ /\ UNCHANGED box
        /\ slipped' = IF box[d] = Gone THEN slipped ELSE slipped \cup {d}
  /\ UNCHANGED <<reg, w, failed>>

(* dockerRun, of a wake or of runSync. *)
Run(r) ==
  /\ At(r, "run")
  /\ Runs(h[r].dal)
  /\ Go(r, [h[r] EXCEPT !.pc = "set", !.made = NewId])
  /\ UNCHANGED <<reg, w, ghosts>>

RunError(r) ==
  /\ At(r, "run")
  /\ RunFails(h[r].dal)
  /\ Go(r, IF h[r].op = "sync" THEN [h[r] EXCEPT !.pc = "drop"] ELSE AfterWake(r))
  /\ UNCHANGED <<reg, w, ghosts>>

(* d.containers[name] = the new container. *)
Set(r) ==
  /\ At(r, "set")
  /\ reg' = [reg EXCEPT ![h[r].dal] = h[r].made]
  /\ failed' = failed \ {h[r].dal}
  /\ Go(r, AfterRun(r))
  /\ UNCHANGED <<box, w, slipped>>

(* handleSleep looks the container up. *)
Sleep(r, d) ==
  /\ reg[d] # None
  /\ h[r] = Free
  /\ Go(r, [Free EXCEPT !.op = "sleep", !.dal = d, !.pc = "stop", !.seen = reg[d]])
  /\ UNCHANGED <<box, reg, w, ghosts>>

(* handleRestart stops what is registered, or wakes at once. *)
Restart(r, d) ==
  /\ h[r] = Free
  /\ Go(r, [Free EXCEPT !.op = "restart", !.dal = d, !.seen = reg[d],
                        !.pc = IF reg[d] = None THEN "check" ELSE "stop"])
  /\ UNCHANGED <<box, reg, w, ghosts>>

(* handleReplace wakes twice first. *)
Replace(r, d) ==
  /\ reg[d] # None
  /\ h[r] = Free
  /\ Go(r, [Free EXCEPT !.op = "replace", !.dal = d, !.pc = "check",
                        !.seen = reg[d], !.left = 2])
  /\ UNCHANGED <<box, reg, w, ghosts>>

Stopped(r) ==
  /\ At(r, "stop")
  /\ Stops(h[r].dal, h[r].seen)
  /\ Go(r, [h[r] EXCEPT !.pc = IF h[r].op = "sync" THEN "run" ELSE "delete",
                        !.seen = None])
  /\ UNCHANGED <<reg, w, ghosts>>

(* Mutant of StopError: handleSleep takes no notice either. *)
StopErrorIgnored(r) ==
  /\ At(r, "stop")
  /\ StopFails(h[r].dal, h[r].seen)
  /\ Go(r, IF h[r].op = "sync" THEN AfterSync(r)
           ELSE [h[r] EXCEPT !.pc = "delete", !.seen = None])
  /\ UNCHANGED <<reg, w, ghosts>>

(* A failed stop ends handleSleep and runSync's turn; handleRestart and     *)
(* handleReplace take no notice, and nobody cleans up after them unless a   *)
(* wake follows.                                                            *)
StopError(r) ==
  LET d == h[r].dal IN
  /\ At(r, "stop")
  /\ StopFails(d, h[r].seen)
  /\ Go(r, CASE h[r].op = "sleep" -> Free
             [] h[r].op = "sync" -> AfterSync(r)
             [] OTHER -> [h[r] EXCEPT !.pc = "delete", !.seen = None])
  /\ slipped' = IF /\ h[r].op = "replace" \/ (h[r].op = "restart" /\ d \notin Leader)
                   /\ box[d].id = h[r].seen
                THEN slipped \cup {d} ELSE slipped
  /\ UNCHANGED <<reg, w, failed>>

(* delete(d.containers, name), whatever the entry is by now. *)
Delete(r) ==
  /\ At(r, "delete")
  /\ reg' = [reg EXCEPT ![h[r].dal] = None]
  /\ Go(r, IF h[r].op = "restart" THEN [h[r] EXCEPT !.pc = "check"] ELSE Free)
  /\ UNCHANGED <<box, w, ghosts>>

(* runSync: the snapshot, then entry by entry in the map's order.           *)
Sync(r) ==
  LET snapshot == {p \in Dal \X Id : reg[p[1]] = p[2]} IN
  /\ h[r] = Free
  /\ snapshot # {}
  /\ Go(r, [Free EXCEPT !.op = "sync", !.pc = "pick", !.todo = snapshot])
  /\ UNCHANGED <<box, reg, w, ghosts>>

(* dockerSync finds the profile changed; or no change, or an error, which   *)
(* it is for a container that no longer exists.                             *)
Pick(r, p) ==
  /\ At(r, "pick") /\ p \in h[r].todo
  /\ LET rest == [h[r] EXCEPT !.todo = @ \ {p}] IN
     \/ /\ box[p[1]].id = p[2]
        /\ Go(r, [rest EXCEPT !.pc = "stop", !.dal = p[1], !.seen = p[2]])
     \/ Go(r, IF rest.todo = {} THEN Free ELSE rest)
  /\ UNCHANGED <<box, reg, w, ghosts>>

(* The new container did not run: runSync deletes the entry. *)
Drop(r) ==
  /\ At(r, "drop")
  /\ reg' = [reg EXCEPT ![h[r].dal] = None]
  /\ Go(r, AfterSync(r))
  /\ UNCHANGED <<box, w, ghosts>>

Handle(r) ==
  \/ \E d \in Dal : Wake(r, d) \/ Sleep(r, d) \/ Restart(r, d) \/ Replace(r, d)
  \/ \E p \in Dal \X Id : Pick(r, p)
  \/ Sync(r) \/ WakeInside(r) \/ Clean(r) \/ Run(r) \/ RunError(r) \/ Set(r)
  \/ Stopped(r) \/ StopError(r) \/ Delete(r) \/ Drop(r)

-----------------------------------------------------------------------------
(* The leader watcher: checkLeaderHealth at every tick. *)

(* findLeader finds none. *)
WatchNone ==
  /\ w.pc = "idle"
  /\ \A l \in Leader : reg[l] = None
  /\ w.fails > 0
  /\ w' = [w EXCEPT !.fails = 0]
  /\ UNCHANGED <<box, reg, h, ghosts>>

WatchFind(l) ==
  /\ w.pc = "idle"
  /\ reg[l] # None
  /\ w' = [w EXCEPT !.pc = "inspect", !.dal = l, !.seen = reg[l]]
  /\ UNCHANGED <<box, reg, h, ghosts>>

Idle(fails, tries) == [Calm EXCEPT !.fails = fails, !.tries = tries]

WatchHealthy ==
  /\ w.pc = "inspect"
  /\ box[w.dal].up /\ box[w.dal].id = w.seen
  /\ w' = Calm
  /\ UNCHANGED <<box, reg, h, ghosts>>

(* Mutant of WatchSick: a failed check is not counted. *)
WatchSickUncounted ==
  /\ w.pc = "inspect"
  /\ w' = Idle(w.fails, w.tries)
  /\ UNCHANGED <<box, reg, h, ghosts>>

(* Not running, or the inspection failed.  Past the threshold the leader is *)
(* restarted, and when that was done too often dalroot is told instead.     *)
WatchSick ==
  LET n == w.fails + 1 IN
  /\ w.pc = "inspect"
  /\ \/ /\ n < FailThreshold
        /\ w' = Idle(n, w.tries) /\ UNCHANGED failed
     \/ /\ n >= FailThreshold /\ w.tries >= MaxRetry
        /\ w' = Calm /\ failed' = failed \ {w.dal}
     \/ /\ n >= FailThreshold /\ w.tries < MaxRetry
        /\ w' = [w EXCEPT !.pc = "lookup", !.fails = n] /\ UNCHANGED failed
  /\ UNCHANGED <<box, reg, h, slipped>>

(* restartLeader looks the leader up again: an error when it is gone.       *)
WatchLookup ==
  /\ w.pc = "lookup"
  /\ w' = IF reg[w.dal] = None THEN Idle(w.fails, w.tries + 1)
          ELSE [w EXCEPT !.pc = "stop", !.seen = reg[w.dal]]
  /\ UNCHANGED <<box, reg, h, ghosts>>

(* A failed stop is logged, and the name stays taken. *)
WatchStop ==
  LET d == w.dal IN
  /\ w.pc = "stop"
  /\ w' = [w EXCEPT !.pc = "delete", !.seen = None]
  /\ \/ Stops(d, w.seen) /\ UNCHANGED slipped
     \/ /\ StopFails(d, w.seen)
        /\ slipped' = IF box[d].id = w.seen THEN slipped \cup {d} ELSE slipped
  /\ UNCHANGED <<reg, h, failed>>

WatchDelete ==
  /\ w.pc = "delete"
  /\ reg' = [reg EXCEPT ![w.dal] = None]
  /\ w' = [w EXCEPT !.pc = "run"]
  /\ UNCHANGED <<box, h, ghosts>>

WatchRun ==
  /\ w.pc = "run"
  /\ Runs(w.dal)
  /\ w' = [w EXCEPT !.pc = "set", !.made = NewId]
  /\ UNCHANGED <<reg, h, ghosts>>

(* The restart failed and the leader is no longer in the map. *)
WatchRunError ==
  /\ w.pc = "run"
  /\ RunFails(w.dal)
  /\ w' = Idle(w.fails, w.tries + 1)
  /\ failed' = failed \cup {w.dal}
  /\ UNCHANGED <<reg, h, slipped>>

WatchSet ==
  /\ w.pc = "set"
  /\ reg' = [reg EXCEPT ![w.dal] = w.made]
  /\ failed' = failed \ {w.dal}
  /\ w' = Idle(0, w.tries + 1)
  /\ UNCHANGED <<box, h, slipped>>

Watch ==
  \/ WatchNone \/ (\E l \in Leader : WatchFind(l)) \/ WatchHealthy \/ WatchSick
  \/ WatchLookup \/ WatchStop \/ WatchDelete \/ WatchRun \/ WatchRunError
  \/ WatchSet

-----------------------------------------------------------------------------
(* Operations on d overlap that may undo one another's work: a restart, a   *)
(* replace or a recovery with anything, a wake with a wake.  Sleeps, syncs  *)
(* and one wake may overlap freely.                                         *)
Rude(d) ==
  {r \in Handler : h[r].dal = d /\ h[r].op \in {"restart", "replace"}}
Recovers(d) == w.dal = d /\ w.pc \in {"stop", "delete", "run", "set"}
Clash(d) ==
  LET on == {r \in Handler : h[r].dal = d}
  IN \/ Rude(d) # {} /\ Cardinality(on) > 1
     \/ Recovers(d) /\ on # {}
     \/ Cardinality({r \in on : h[r].op = "wake"}) > 1
Track == clashed' = clashed \cup {d \in Dal : Clash(d)'}

(* The daemon dies and starts again: what runs is found, who worked is gone. *)
Reboot ==
  /\ slipped' \in SUBSET Running /\ reg' = Adopted(slipped')
  /\ h' = [r \in Handler |-> Free] /\ w' = Calm
  /\ failed' = {} /\ clashed' = {}
  /\ UNCHANGED box

Next ==
  \/ Reboot
  \/ /\ \/ \E d \in Dal : Dies(d)
        \/ \E r \in Handler : Handle(r)
        \/ Watch
     /\ Track

Spec == Init /\ [][Next]_vars

(* The ticker goes on, docker answers.  Handlers may take for ever. *)
FairSpec == Spec /\ WF_vars(Watch /\ Track)

-----------------------------------------------------------------------------
(* Nobody works on d. *)
Quiet(d) == (\A r \in Handler : h[r].dal # d) /\ ~Recovers(d)

(* When nobody works on a dal, the map tells the truth about it: a          *)
(* registered container is the one docker has under the dal's name, and a   *)
(* running one is registered.  This survives any mixture of sleeps, syncs   *)
(* and single wakes on the dal and every docker error they meet, although   *)
(* handleSleep, handleWake and runSync release d.mu around docker calls and *)
(* then store or delete by name; it needs docker to stop a container once   *)
(* only and the 409 of handleWake.                                          *)
TruthfulMap == \A d \in Dal \ (clashed \cup slipped) : Quiet(d) =>
  /\ reg[d] # None => box[d].id = reg[d]
  /\ box[d].up => reg[d] = box[d].id

(* cleanStaleContainer, meant for stopped leftovers, force-removes whatever *)
(* has the name: outside the overlaps above it never hits a running one     *)
(* that the map knows.                                                      *)
CleanSparesRunning ==
  [][\A r \in Handler, d \in Dal \ (clashed \cup slipped) :
       /\ At(r, "clean") /\ h[r].dal = d /\ h'[r] # h[r]
       /\ box[d].up /\ reg[d] = box[d].id
       => box'[d] = box[d] \/ h'[r] = Free]_vars

(* A leader whose container has died is found by the watcher: it runs       *)
(* again, or its recovery has failed, or somebody has taken it out of the   *)
(* map.                                                                     *)
DeadLeaderHandled ==
  \A l \in Leader : (reg[l] # None /\ ~box[l].up) ~>
    box[l].up \/ l \in failed \/ (reg[l] = None /\ w.dal # l)

(* leader_watcher.go: "On recovery failure, it escalates to dalroot via the *)
(* escalation system."  It does so only for a leader that is in the map,    *)
(* which a failed restart has just left.                                    *)
RecoveryFailureEscalates == \A l \in Leader : l \in failed ~> l \notin failed
=============================================================================
