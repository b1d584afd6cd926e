--------------------------- MODULE HAFailover_proofs ---------------------------
(***************************************************************************)
(* What HAFailover promises for any thresholds and any number of            *)
(* disturbances: its types, that the standby is in charge only with a       *)
(* reason its own watcher will take back, and that a passive standby is     *)
(* given no container.                                                      *)
(***************************************************************************)
EXTENDS HAFailover, TLAPS

HAInv == TypeOK /\ PromotedIsAlerted

USE HAAssumption

-----------------------------------------------------------------------------
(* What the steps that several actions share do to the map of the leader's  *)
(* container.                                                               *)
LEMMA RemovedType ==
  ASSUME NEW r \in [Daemon -> {"none", "this", "gone"}]
  PROVE  /\ Removed(r) \in [Daemon -> {"none", "this", "gone"}]
         /\ \A d \in Daemon : Removed(r)[d] = "none" <=> r[d] = "none"
BY DEF Removed

LEMMA AdoptsType ==
  ASSUME TypeOK, NEW d \in Daemon
  PROVE  /\ Adopts(d) \in [Daemon -> {"none", "this", "gone"}]
         /\ \A e \in Daemon \ {d} : Adopts(d)[e] = reg[e]
BY DEF TypeOK, Adopts

(* The map after a step of Next: an entry for the leader appears only where *)
(* a daemon wakes it, adopts it or already had an entry for it.             *)
LEMMA TeamStep ==
  ASSUME TypeOK, NEW d \in Daemon,
         Wakes(d) \/ WakeFails(d) \/ Sleeps(d)
  PROVE  /\ box' \in {"none", "running", "stopped"}
         /\ reg' \in [Daemon -> {"none", "this", "gone"}]
         /\ \A e \in Daemon \ {d} : reg'[e] = "none" <=> reg[e] = "none"
<1>1. reg \in [Daemon -> {"none", "this", "gone"}]
  BY DEF TypeOK
<1>2. /\ Removed(reg) \in [Daemon -> {"none", "this", "gone"}]
      /\ \A e \in Daemon : Removed(reg)[e] = "none" <=> reg[e] = "none"
  BY <1>1, RemovedType
<1>3. CASE Wakes(d)
  BY <1>2, <1>3 DEF Wakes
<1>4. CASE WakeFails(d)
  BY <1>2, <1>4 DEF WakeFails
<1>5. CASE Sleeps(d)
  BY <1>2, <1>5 DEF Sleeps
<1> QED
  BY <1>3, <1>4, <1>5

-----------------------------------------------------------------------------
LEMMA InitInv == Init => HAInv
<1> SUFFICES ASSUME Init
             PROVE  HAInv
  OBVIOUS
<1>1. peer \in [Daemon -> [fails : 0..PeerFailThreshold, alerted : BOOLEAN]]
  BY DEF Init, Calm
<1>2. reg \in [Daemon -> {"none", "this", "gone"}]
  BY DEF Init
<1>3. up \in [Daemon -> BOOLEAN] /\ req \in [Daemon -> {"none", "wake", "sleep"}]
  BY DEF Init
<1>4. link \in BOOLEAN /\ promoted \in BOOLEAN /\ adopting \in BOOLEAN
  BY DEF Init
<1>5. /\ box \in {"none", "running", "stopped"} /\ trouble \in 0..MaxTrouble
      /\ ops \in [waking : BOOLEAN, fails : 0..WakeLimit]
  BY DEF Init
<1>6. TypeOK
  BY <1>1, <1>2, <1>3, <1>4, <1>5 DEF TypeOK
<1> QED
  BY <1>6 DEF Init, HAInv, PromotedIsAlerted

LEMMA StepType == TypeOK /\ [Next]_vars => TypeOK'
<1> SUFFICES ASSUME TypeOK, [Next]_vars
             PROVE  TypeOK'
  OBVIOUS
<1>1. ASSUME NEW d \in Daemon, PeerFails(d)
      PROVE  TypeOK'
  <2> DEFINE n == IF peer[d].fails < PeerFailThreshold
                  THEN peer[d].fails + 1 ELSE peer[d].fails
             alert == n >= PeerFailThreshold /\ ~peer[d].alerted
             p == [fails |-> n, alerted |-> peer[d].alerted \/ alert]
  <2>1. peer[d] \in [fails : 0..PeerFailThreshold, alerted : BOOLEAN]
    BY DEF TypeOK
  <2>2. n \in 0..PeerFailThreshold
    BY <2>1
  <2>3. p \in [fails : 0..PeerFailThreshold, alerted : BOOLEAN]
    BY <2>1, <2>2
  <2>4. peer' = [peer EXCEPT ![d] = p]
    BY <1>1 DEF PeerFails
  <2>5. promoted' \in BOOLEAN /\ adopting' \in BOOLEAN
    BY <1>1 DEF PeerFails, TypeOK
  <2> QED
    BY <1>1, <2>3, <2>4, <2>5 DEF PeerFails, TypeOK, team
<1>2. ASSUME NEW d \in Daemon, PeerAnswers(d)
      PROVE  TypeOK'
  <2>1. Calm \in [fails : 0..PeerFailThreshold, alerted : BOOLEAN]
    BY DEF Calm
  <2> QED
    BY <1>2, <2>1 DEF PeerAnswers, TypeOK, team
<1>3. ASSUME NEW d \in Daemon, Admit(d, "wake") \/ Admit(d, "sleep")
      PROVE  TypeOK'
  BY <1>3 DEF Admit, Trouble, TypeOK, ha, team
<1>4. ASSUME NEW d \in Daemon, Carry(d)
      PROVE  TypeOK'
  <2>1. /\ box' \in {"none", "running", "stopped"}
        /\ reg' \in [Daemon -> {"none", "this", "gone"}]
    <3>1. Wakes(d) \/ Sleeps(d) \/ UNCHANGED team
      BY <1>4 DEF Carry
    <3>2. CASE UNCHANGED team
      BY <3>2 DEF team, TypeOK
    <3> QED
      BY <3>1, <3>2, TeamStep
  <2> QED
    BY <1>4, <2>1 DEF Carry, TypeOK, ha
<1>5. ASSUME NEW d \in Daemon, LeaderRestart(d)
      PROVE  TypeOK'
  <2>1. Removed(reg) \in [Daemon -> {"none", "this", "gone"}]
    BY RemovedType DEF TypeOK
  <2> QED
    BY <1>5, <2>1 DEF LeaderRestart, TypeOK, ha
<1>6. ASSUME NEW d \in Daemon, LeaderRestartFails(d)
      PROVE  TypeOK'
  <2>1. Removed(reg) \in [Daemon -> {"none", "this", "gone"}]
    BY RemovedType DEF TypeOK
  <2> QED
    BY <1>6, <2>1 DEF LeaderRestartFails, Trouble, TypeOK, ha
<1>7. ASSUME NEW d \in Daemon, Crash(d)
      PROVE  TypeOK'
  <2>1. Calm \in [fails : 0..PeerFailThreshold, alerted : BOOLEAN]
    BY DEF Calm
  <2>2. promoted' \in BOOLEAN /\ adopting' \in BOOLEAN
    BY <1>7 DEF Crash, TypeOK
  <2> QED
    BY <1>7, <2>1, <2>2 DEF Crash, Trouble, TypeOK
<1>8. ASSUME NEW d \in Daemon, Boot(d)
      PROVE  TypeOK'
  <2>1. Adopts(d) \in [Daemon -> {"none", "this", "gone"}]
    BY AdoptsType
  <2> QED
    BY <1>8, <2>1 DEF Boot, TypeOK
<1>9. CASE Reconcile
  <2>1. Adopts(Standby) \in [Daemon -> {"none", "this", "gone"}]
    BY AdoptsType DEF Daemon
  <2> QED
    BY <1>9, <2>1 DEF Reconcile, TypeOK
<1>10. CASE OpsLook
  BY <1>10 DEF OpsLook, TypeOK, ha, team
<1>11. CASE OpsWake
  <2>1. /\ box' \in {"none", "running", "stopped"}
        /\ reg' \in [Daemon -> {"none", "this", "gone"}]
    <3>1. Wakes(Primary) \/ WakeFails(Primary) \/ UNCHANGED team
      BY <1>11 DEF OpsWake
    <3>2. CASE UNCHANGED team
      BY <3>2 DEF team, TypeOK
    <3> QED
      BY <3>1, <3>2, TeamStep DEF Daemon
  <2>2. /\ ops' \in [waking : BOOLEAN, fails : 0..WakeLimit]
        /\ trouble' \in 0..MaxTrouble
    <3>1. ops.fails \in 0..WakeLimit
      BY DEF TypeOK
    <3>2. OpsFailure => ops' \in [waking : BOOLEAN, fails : 0..WakeLimit]
      BY <3>1 DEF OpsFailure
    <3>3. OpsSuccess => ops' \in [waking : BOOLEAN, fails : 0..WakeLimit]
      BY DEF OpsSuccess
    <3> QED
      BY <1>11, <3>2, <3>3 DEF OpsWake, Trouble, TypeOK
  <2> QED
    BY <1>11, <2>1, <2>2 DEF OpsWake, TypeOK, ha
<1>12. CASE Dies
  BY <1>12 DEF Dies, Trouble, TypeOK, ha
<1>13. CASE Cut
  <2>1. link' \in BOOLEAN
    BY <1>13 DEF Cut
  <2>2. trouble' \in 0..MaxTrouble
    BY <1>13 DEF Cut, Trouble, TypeOK
  <2>3. UNCHANGED <<up, peer, promoted, adopting, box, reg, req, ops>>
    BY <1>13 DEF Cut, team
  <2> QED
    BY <2>1, <2>2, <2>3 DEF TypeOK
<1>15. CASE Heal
  BY <1>15 DEF Heal, TypeOK, team
<1>14. CASE UNCHANGED vars
  BY <1>14 DEF vars, TypeOK
<1> QED
  BY <1>1, <1>2, <1>3, <1>4, <1>5, <1>6, <1>7, <1>8, <1>9, <1>10, <1>11,
     <1>12, <1>13, <1>14, <1>15 DEF Next

(* Only the watcher of the standby and its crash touch what the invariant   *)
(* speaks of.                                                               *)
LEMMA StepAlerted == HAInv /\ [Next]_vars => PromotedIsAlerted'
<1> SUFFICES ASSUME TypeOK, PromotedIsAlerted, [Next]_vars
             PROVE  PromotedIsAlerted'
  BY DEF HAInv
<1>1. ASSUME NEW d \in Daemon, PeerFails(d)
      PROVE  PromotedIsAlerted'
  BY <1>1 DEF PeerFails, TypeOK, PromotedIsAlerted, Daemon
<1>2. ASSUME NEW d \in Daemon, PeerAnswers(d)
      PROVE  PromotedIsAlerted'
  BY <1>2 DEF PeerAnswers, TypeOK, PromotedIsAlerted, Daemon, Calm
<1>3. ASSUME NEW d \in Daemon,
             \/ Admit(d, "wake") \/ Admit(d, "sleep") \/ Carry(d)
             \/ LeaderRestart(d) \/ LeaderRestartFails(d)
      PROVE  PromotedIsAlerted'
  BY <1>3 DEF Admit, Carry, LeaderRestart, LeaderRestartFails, ha, PromotedIsAlerted
<1>4. ASSUME NEW d \in Daemon, Crash(d)
      PROVE  PromotedIsAlerted'
  BY <1>4 DEF Crash, TypeOK, PromotedIsAlerted, Daemon
<1>5. ASSUME NEW d \in Daemon, Boot(d)
      PROVE  PromotedIsAlerted'
  BY <1>5 DEF Boot, TypeOK, PromotedIsAlerted, Daemon
<1>6. CASE Reconcile
  BY <1>6 DEF Reconcile, PromotedIsAlerted
<1>7. CASE OpsLook \/ OpsWake \/ Dies
  BY <1>7 DEF OpsLook, OpsWake, Dies, ha, PromotedIsAlerted
<1>8. CASE Cut \/ Heal
  BY <1>8 DEF Cut, Heal, PromotedIsAlerted
<1>9. CASE UNCHANGED vars
  BY <1>9 DEF vars, PromotedIsAlerted
<1> QED
  BY <1>1, <1>2, <1>3, <1>4, <1>5, <1>6, <1>7, <1>8, <1>9 DEF Next

(* The invariant of both: a standby is in charge, and adopting, only while  *)
(* its own watcher has alerted with the failures at the threshold, so the   *)
(* next check that gets through demotes it (watcher.go, ha.go).             *)
THEOREM HAInvariant == Spec => []HAInv
<1>1. HAInv /\ [Next]_vars => HAInv'
  BY StepType, StepAlerted DEF HAInv
<1> QED
  BY InitInv, <1>1, PTL DEF Spec

(* A standby that is not promoted gets no entry for the leader but by a     *)
(* wake that passed requireActive before (daemon.go: requireActive, Run).   *)
LEMMA StepPassive ==
  HAInv /\ [Next]_vars =>
    (reg[Standby] = "none" /\ reg'[Standby] # "none" =>
       promoted \/ req[Standby] = "wake")
<1> SUFFICES ASSUME TypeOK, PromotedIsAlerted, [Next]_vars,
                    reg[Standby] = "none", reg'[Standby] # "none"
             PROVE  promoted \/ req[Standby] = "wake"
  BY DEF HAInv
<1>1. Standby \in Daemon /\ Primary \in Daemon
  BY DEF Daemon
<1>2. /\ Removed(reg) \in [Daemon -> {"none", "this", "gone"}]
      /\ Removed(reg)[Standby] = "none"
  BY <1>1, RemovedType DEF TypeOK
<1>3. ASSUME NEW d \in Daemon, Carry(d)
      PROVE  req[Standby] = "wake"
  <2>1. CASE d = Standby
    BY <1>3, <2>1 DEF Carry, Wakes, Sleeps, team
  <2>2. CASE d # Standby
    <3>1. Standby \in Daemon \ {d}
      BY <1>1, <2>2
    <3>2. Wakes(d) \/ Sleeps(d) \/ UNCHANGED team
      BY <1>3 DEF Carry
    <3> QED
      BY <3>1, <3>2, TeamStep DEF team
  <2> QED
    BY <2>1, <2>2
<1>4. ASSUME NEW d \in Daemon, LeaderRestart(d) \/ LeaderRestartFails(d)
      PROVE  FALSE
  <2>1. d # Standby
    BY <1>4 DEF LeaderRestart, LeaderRestartFails, Sick
  <2> QED
    BY <1>1, <1>2, <1>4, <2>1 DEF LeaderRestart, LeaderRestartFails, TypeOK
<1>5. ASSUME NEW d \in Daemon, Boot(d)
      PROVE  promoted
  BY <1>1, <1>5, AdoptsType DEF Boot, Active, TypeOK
<1>6. ASSUME NEW d \in Daemon, Crash(d)
      PROVE  FALSE
  BY <1>1, <1>6 DEF Crash, TypeOK
<1>7. CASE Reconcile
  BY <1>7 DEF Reconcile, PromotedIsAlerted
<1>8. CASE OpsWake
  <2>1. Standby \in Daemon \ {Primary}
    BY <1>1
  <2>2. Wakes(Primary) \/ WakeFails(Primary) \/ UNCHANGED team
    BY <1>8 DEF OpsWake
  <2> QED
    BY <1>1, <2>1, <2>2, TeamStep DEF team
<1>9. ASSUME \/ \E d \in Daemon : \/ PeerFails(d) \/ PeerAnswers(d)
                                  \/ Admit(d, "wake") \/ Admit(d, "sleep")
             \/ OpsLook \/ Dies \/ Cut \/ Heal \/ UNCHANGED vars
      PROVE  FALSE
  BY <1>9 DEF PeerFails, PeerAnswers, Admit, OpsLook, Dies, Cut, Heal, vars, team
<1> QED
  BY <1>3, <1>4, <1>5, <1>6, <1>7, <1>8, <1>9 DEF Next

THEOREM StandbyStaysPassive == Spec => PassiveGetsNothing
<1>1. Spec => []HAInv
  BY HAInvariant
<1>2. HAInv /\ [Next]_vars =>
        [reg[Standby] = "none" /\ reg'[Standby] # "none" =>
           promoted \/ req[Standby] = "wake"]_vars
  BY StepPassive
<1> QED
  BY <1>1, <1>2, PTL DEF Spec, PassiveGetsNothing
=============================================================================
