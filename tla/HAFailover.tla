----------------------------- MODULE HAFailover -----------------------------
(***************************************************************************)
(* Two dalcenters with one docker between them: a primary and a standby    *)
(* that promotes itself when it loses sight of the primary (ha.go,         *)
(* watcher.go), the leader watcher of each, and the operations watcher of  *)
(* a third that wakes a team it finds without dals (ops_watcher.go).       *)
(*                                                                         *)
(* The team is its leader.  Each daemon has its own map of the containers; *)
(* an entry refers to the container under the leader's name or to one that *)
(* is gone, and no step tells gone containers apart.  Within a daemon the  *)
(* steps of a request are those of DalLifecycle; here it is admitted in    *)
(* one step, by requireActive, and carried out in another.                 *)
(***************************************************************************)
EXTENDS Integers

CONSTANTS
  Primary, Standby,  \* the two daemons, DALCENTER_ROLE
  PeerFailThreshold, \* peerFailThreshold = 3
  WakeLimit,         \* failed wakes after which the limit speaks: 3
  MaxTrouble         \* bound on crashes, cuts, deaths, docker errors, requests

Daemon == {Primary, Standby}

ASSUME HAAssumption ==
  /\ Primary # Standby
  /\ PeerFailThreshold \in Nat \ {0} /\ WakeLimit \in Nat \ {0}
  /\ MaxTrouble \in Nat

VARIABLES
  up,       \* the daemons that run
  link,     \* whether health checks get through
  peer,     \* per peer watcher: its consecutive failures and whether it alerted
  promoted, \* haState.promoted of the standby
  adopting, \* the standby is promoted and has not reconciled yet
  box,      \* the leader's container: none, running or stopped
  reg,      \* per daemon: its entry for the leader
  req,      \* per daemon: a request that passed requireActive
  ops,      \* the operations watcher: about to wake, failures in a row
  trouble   \* disturbances so far

vars == <<up, link, peer, promoted, adopting, box, reg, req, ops, trouble>>
ha == <<up, link, peer, promoted, adopting>>
team == <<box, reg>>

-----------------------------------------------------------------------------
TypeOK ==
  /\ up \in [Daemon -> BOOLEAN] /\ link \in BOOLEAN
  /\ peer \in [Daemon -> [fails : 0..PeerFailThreshold, alerted : BOOLEAN]]
  /\ promoted \in BOOLEAN /\ adopting \in BOOLEAN
  /\ box \in {"none", "running", "stopped"}
  /\ reg \in [Daemon -> {"none", "this", "gone"}]
  /\ req \in [Daemon -> {"none", "wake", "sleep"}]
  /\ ops \in [waking : BOOLEAN, fails : 0..WakeLimit]
  /\ trouble \in 0..MaxTrouble

Calm == [fails |-> 0, alerted |-> FALSE]
Other(d) == IF d = Primary THEN Standby ELSE Primary

(* isActive: a standby only when it is promoted. *)
Active(d) == d = Primary \/ promoted

Trouble == trouble < MaxTrouble /\ trouble' = trouble + 1

(* Who reconciles adopts what runs; its other entries stay. *)
Adopts(d) == IF box = "running" THEN [reg EXCEPT ![d] = "this"] ELSE reg

Init ==
  /\ up = [d \in Daemon |-> TRUE] /\ link = TRUE
  /\ peer = [d \in Daemon |-> Calm]
  /\ promoted = FALSE /\ adopting = FALSE
  /\ box \in {"none", "running"}
  /\ reg = [d \in Daemon |->
              IF d = Primary /\ box = "running" THEN "this" ELSE "none"]
  /\ req = [d \in Daemon |-> "none"]
  /\ ops = [waking |-> FALSE, fails |-> 0] /\ trouble = 0

-----------------------------------------------------------------------------
(* The leader's container. *)

(* Every entry for it goes stale when it is removed. *)
Removed(r) == [d \in Daemon |-> IF r[d] = "this" THEN "gone" ELSE r[d]]

(* handleWake for a leader that is not registered: cleanStaleContainer      *)
(* removes whatever has the name, dockerRun starts a new one.               *)
Wakes(d) ==
  /\ reg[d] = "none"
  /\ box' = "running"
  /\ reg' = [Removed(reg) EXCEPT ![d] = "this"]
(* dockerRun fails: the old container is gone all the same. *)
WakeFails(d) ==
  /\ reg[d] = "none"
  /\ box' = "none" /\ reg' = Removed(reg)

(* handleSleep: an error, and the entry stays, when its container is gone.  *)
Sleeps(d) ==
  /\ reg[d] = "this"
  /\ box' = "none"
  /\ reg' = [Removed(reg) EXCEPT ![d] = "none"]

-----------------------------------------------------------------------------
(* The peer watchers. *)

(* checkPeerHealth: any daemon that answers will do. *)
Sees(d) == link /\ up[Other(d)]

(* Mutant of PeerFails: no promotion. *)
PeerFailsOnlyAlerts(d) ==
  LET n == IF peer[d].fails < PeerFailThreshold
           THEN peer[d].fails + 1 ELSE peer[d].fails
  IN /\ up[d] /\ ~Sees(d) /\ ~(d = Standby /\ adopting)
     /\ peer' = [peer EXCEPT ![d] =
                   [fails |-> n, alerted |-> @.alerted \/ n >= PeerFailThreshold]]
     /\ UNCHANGED <<up, link, promoted, adopting, team, req, ops, trouble>>

(* A failed check.  Past the threshold the peer is reported down, once, and *)
(* a standby promotes itself.  (Only whether the threshold is reached       *)
(* matters of the count.)                                                   *)
PeerFails(d) ==
  LET n == IF peer[d].fails < PeerFailThreshold
           THEN peer[d].fails + 1 ELSE peer[d].fails
      alert == n >= PeerFailThreshold /\ ~peer[d].alerted
  IN /\ up[d] /\ ~Sees(d) /\ ~(d = Standby /\ adopting)
     /\ peer' = [peer EXCEPT ![d] =
                   [fails |-> n, alerted |-> @.alerted \/ alert]]
     /\ IF alert /\ d = Standby /\ ~promoted
        THEN promoted' = TRUE /\ adopting' = TRUE
        ELSE UNCHANGED <<promoted, adopting>>
     /\ UNCHANGED <<up, link, team, req, ops, trouble>>

(* promoteStandby goes on to reconcile; requests are admitted meanwhile.    *)
Reconcile ==
  /\ up[Standby] /\ adopting
  /\ adopting' = FALSE
  /\ reg' = Adopts(Standby)
  /\ UNCHANGED <<up, link, peer, promoted, box, req, ops, trouble>>

(* Mutant of PeerAnswers: the standby keeps control. *)
PeerAnswersKeeps(d) ==
  /\ up[d] /\ Sees(d) /\ ~(d = Standby /\ adopting)
  /\ peer[d] # Calm
  /\ peer' = [peer EXCEPT ![d] = Calm]
  /\ UNCHANGED <<up, link, promoted, adopting, team, req, ops, trouble>>

(* A check succeeds: after an alert recovery is reported and a promoted     *)
(* standby is demoted.  Its map keeps its entries.                          *)
PeerAnswers(d) ==
  /\ up[d] /\ Sees(d) /\ ~(d = Standby /\ adopting)
  /\ peer[d] # Calm
  /\ peer' = [peer EXCEPT ![d] = Calm]
  /\ promoted' = IF d = Standby /\ peer[d].alerted THEN FALSE ELSE promoted
  /\ UNCHANGED <<up, link, adopting, team, req, ops, trouble>>

-----------------------------------------------------------------------------
(* Requests for the leader. *)

(* requireActive looks at the role once. *)
Admit(d, what) ==
  /\ up[d] /\ Active(d) /\ req[d] = "none"
  /\ Trouble
  /\ req' = [req EXCEPT ![d] = what]
  /\ UNCHANGED <<ha, team, ops>>

Carry(d) ==
  /\ up[d] /\ req[d] # "none"
  /\ req' = [req EXCEPT ![d] = "none"]
  /\ CASE req[d] = "wake" /\ reg[d] = "none" -> Wakes(d)
       [] req[d] = "sleep" /\ reg[d] = "this" -> Sleeps(d)
       [] OTHER -> UNCHANGED team
  /\ UNCHANGED <<ha, ops, trouble>>

-----------------------------------------------------------------------------
(* The leader watcher runs in every daemon, active or not. *)

Sick(d) == reg[d] = "gone" \/ (reg[d] = "this" /\ box # "running")

(* Mutant of LeaderRestart: a leader that could not be restarted keeps its   *)
(* entry.                                                                   *)
LeaderRestartKeeps(d) ==
  /\ up[d] /\ Sick(d)
  /\ IF reg[d] = "this" \/ box = "none"
     THEN box' = "running" /\ reg' = [Removed(reg) EXCEPT ![d] = "this"]
     ELSE UNCHANGED <<box, reg>>
  /\ UNCHANGED <<ha, req, ops, trouble>>

(* restartLeader: stop the container of the entry, drop the entry, run a    *)
(* new container.  That fails when another has the name, and then the       *)
(* leader has left the map.                                                 *)
LeaderRestart(d) ==
  /\ up[d] /\ Sick(d)
  /\ IF reg[d] = "this" \/ box = "none"
     THEN box' = "running" /\ reg' = [Removed(reg) EXCEPT ![d] = "this"]
     ELSE UNCHANGED box /\ reg' = [reg EXCEPT ![d] = "none"]
  /\ UNCHANGED <<ha, req, ops, trouble>>

(* Docker fails in the middle of it. *)
LeaderRestartFails(d) ==
  /\ up[d] /\ Sick(d)
  /\ Trouble
  /\ box' = IF reg[d] = "this" THEN "none" ELSE box
  /\ reg' = [Removed(reg) EXCEPT ![d] = "none"]
  /\ UNCHANGED <<ha, req, ops>>

-----------------------------------------------------------------------------
(* The operations watcher of another dalcenter, for the primary's team.     *)

(* opsCheckTeam: no dals in the map, a leader is configured. *)
OpsLook ==
  /\ up[Primary] /\ reg[Primary] = "none" /\ ~ops.waking
  /\ ops' = [ops EXCEPT !.waking = TRUE]
  /\ UNCHANGED <<ha, team, req, trouble>>

OpsFailure ==
  ops' = [waking |-> FALSE,
          fails |-> IF ops.fails < WakeLimit THEN ops.fails + 1 ELSE ops.fails]
OpsSuccess == ops' = [waking |-> FALSE, fails |-> 0]

(* wakeLeaderRemote.  It fails when the daemon has gone, when somebody else *)
(* was faster (409) or when docker fails.  enforceOpsWakeLimit then ends    *)
(* this attempt, not the next: the tick after tries again.                  *)
OpsWake ==
  /\ ops.waking
  /\ \/ /\ up[Primary] /\ Wakes(Primary)
        /\ OpsSuccess /\ UNCHANGED trouble
     \/ /\ up[Primary] /\ WakeFails(Primary)
        /\ Trouble /\ OpsFailure
     \/ /\ ~up[Primary] \/ reg[Primary] # "none"
        /\ OpsFailure /\ UNCHANGED <<team, trouble>>
  /\ UNCHANGED <<ha, req>>

-----------------------------------------------------------------------------
(* The world. *)

Dies ==
  /\ box = "running"
  /\ Trouble
  /\ box' = "stopped"
  /\ UNCHANGED <<ha, reg, req, ops>>

Crash(d) ==
  /\ up[d]
  /\ Trouble
  /\ up' = [up EXCEPT ![d] = FALSE]
  /\ peer' = [peer EXCEPT ![d] = Calm]
  /\ IF d = Standby THEN promoted' = FALSE /\ adopting' = FALSE
     ELSE UNCHANGED <<promoted, adopting>>
  /\ reg' = [reg EXCEPT ![d] = "none"]
  /\ req' = [req EXCEPT ![d] = "none"]
  /\ UNCHANGED <<link, box, ops>>

(* Mutant of Boot: a standby that starts reconciles as well. *)
BootAdopts(d) ==
  /\ ~up[d]
  /\ up' = [up EXCEPT ![d] = TRUE]
  /\ reg' = Adopts(d)
  /\ UNCHANGED <<link, peer, promoted, adopting, box, req, ops, trouble>>

(* Run: the role is as configured; a standby skips reconcile.               *)
Boot(d) ==
  /\ ~up[d]
  /\ up' = [up EXCEPT ![d] = TRUE]
  /\ reg' = IF Active(d) THEN Adopts(d) ELSE reg
  /\ UNCHANGED <<link, peer, promoted, adopting, box, req, ops, trouble>>

Cut ==
  /\ link
  /\ Trouble
  /\ link' = FALSE
  /\ UNCHANGED <<up, peer, promoted, adopting, team, req, ops>>

Heal ==
  /\ ~link
  /\ link' = TRUE
  /\ UNCHANGED <<up, peer, promoted, adopting, team, req, ops, trouble>>

Next ==
  \/ \E d \in Daemon :
       \/ PeerFails(d) \/ PeerAnswers(d) \/ Admit(d, "wake") \/ Admit(d, "sleep")
       \/ Carry(d) \/ LeaderRestart(d) \/ LeaderRestartFails(d)
       \/ Crash(d) \/ Boot(d)
  \/ Reconcile \/ OpsLook \/ OpsWake \/ Dies \/ Cut \/ Heal

Spec == Init /\ [][Next]_vars

(* The tickers go on, an admitted request is carried out, the network       *)
(* heals, the standby is started again.  The primary may stay away.         *)
FairSpec ==
  /\ Spec
  /\ \A d \in Daemon :
       /\ WF_vars(PeerFails(d)) /\ WF_vars(PeerAnswers(d))
       /\ WF_vars(Carry(d)) /\ WF_vars(LeaderRestart(d))
  /\ WF_vars(Reconcile) /\ WF_vars(OpsLook) /\ WF_vars(OpsWake)
  /\ WF_vars(Heal) /\ WF_vars(Boot(Standby))

-----------------------------------------------------------------------------
(* A standby is in charge only while its own watcher holds the primary for  *)
(* dead: otherwise nothing would ever demote it (the recovery branch of     *)
(* startPeerWatcher asks for alerted).                                      *)
PromotedIsAlerted ==
  /\ promoted => /\ up[Standby] /\ peer[Standby].alerted
                 /\ peer[Standby].fails = PeerFailThreshold
  /\ adopting => promoted

(* A passive standby that has no entry gets none: it does not adopt when it *)
(* starts.  The one exception is a wake that passed requireActive before    *)
(* the demotion and is carried out after it.                                *)
PassiveGetsNothing ==
  [][reg[Standby] = "none" /\ reg'[Standby] # "none" =>
       promoted \/ req[Standby] = "wake"]_vars

(* The team is not left without anybody in charge: of a primary that stays  *)
(* away the standby takes over, whatever happens to it meanwhile.           *)
StandbyTakesOver == <>[]~up[Primary] => <>[]promoted

(* It does not stay in charge beside a primary that is back. *)
StandbyYields == <>[]up[Primary] => <>[]~promoted

(* The two maps disagree after a failover, and each leader watcher and the  *)
(* operations watcher act on what its own side believes, killing or         *)
(* dropping what the other started.  It comes to an end: the leader runs    *)
(* and the primary has it, although the standby never clears its map.       *)
ControlReturns ==
  <>[]up[Primary] => <>[](box = "running" /\ reg[Primary] = "this")

=============================================================================
