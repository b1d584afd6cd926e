------------------------------ MODULE Ledgers -------------------------------
(***************************************************************************)
(* The daemon's ledgers: escalations with the notices they cause           *)
(* (escalation.go), feedback (feedback.go) and costs (cost_tracker.go).    *)
(* Each is a list that drops its oldest entries and is saved whole, under  *)
(* the store's lock, with every change.                                    *)
(*                                                                         *)
(* An escalation's key is its dal and error class.  Its number, the text,  *)
(* and the thresholds of costs (no callback is set for them) are left out. *)
(***************************************************************************)
EXTENDS Integers, SequencesExt, Books

CONSTANTS
  Key,              \* dal and error class
  MaxEscalations,   \* 100
  MaxRecords,       \* maxFeedback = 500, maxCostRecords
  MaxCost,          \* bound on the costs recorded
  Cooldown,         \* escalationNoticeCooldown, in ticks
  MaxLedgerTrouble  \* bound on failures and restarts

ASSUME LedgerAssumption ==
  /\ MaxEscalations \in Nat \ {0} /\ MaxRecords \in Nat \ {0} /\ MaxCost \in Nat
  /\ Cooldown \in Nat \ {0} /\ MaxLedgerTrouble \in Nat

VARIABLES
  escalations,  \* escalationStore.items, oldest first, and its file
  feedback,     \* feedbackStore.items and its file
  costs,        \* costStore.items and its file
  costSeq,      \* costStore.seq
  escalating,   \* per key: its POST /api/escalate
  waiting,      \* per key: ticks until escNoticeLast allows a notice
  told,         \* the keys the channel was told of
  ledgerTrouble

ledgerVars ==
  <<escalations, feedback, costs, costSeq, escalating, waiting, told, ledgerTrouble>>
ledgers == <<escalations, feedback, costs, costSeq>>
notices == <<escalating, waiting, told>>

-----------------------------------------------------------------------------
Bounded(b, n) == Len(b.memory) <= n /\ Len(b.file) <= n

LedgerTypeOK ==
  /\ escalations \in Book([key : Key, resolved : BOOLEAN])
  /\ feedback \in Book({"success", "failure"}) /\ costs \in Book(1..MaxCost)
  /\ Bounded(escalations, MaxEscalations)
  /\ Bounded(feedback, MaxRecords) /\ Bounded(costs, MaxRecords)
  /\ ToSet(costs.memory) \subseteq 1..costSeq /\ costSeq \in 0..MaxCost
  /\ IsInjective(costs.memory) /\ IsInjective(costs.file)
  /\ escalating \in [Key -> {"none", "added", "posting"}]
  /\ waiting \in [Key -> 0..Cooldown]
  /\ told \subseteq Key /\ ledgerTrouble \in 0..MaxLedgerTrouble

LedgerInit ==
  /\ escalations = NewBook /\ feedback = NewBook /\ costs = NewBook /\ costSeq = 0
  /\ escalating = [k \in Key |-> "none"] /\ waiting = [k \in Key |-> 0]
  /\ told = {} /\ ledgerTrouble = 0

LedgerTrouble == ledgerTrouble < MaxLedgerTrouble /\ ledgerTrouble' = ledgerTrouble + 1

-----------------------------------------------------------------------------
(* Mutant of Newest: one entry too many stays. *)
NewestOffByOne(s, n) == SubSeq(s, IF Len(s) > n + 1 THEN Len(s) - n ELSE 1, Len(s))
(* Add: the newest n stay. *)
Newest(s, n) == SubSeq(s, IF Len(s) > n THEN Len(s) - n + 1 ELSE 1, Len(s))
Saves(b, s) ==
  \/ b' = Saved(s) /\ UNCHANGED ledgerTrouble
  \/ b' = Unsaved(b, s) /\ LedgerTrouble

AddEscalation(k) ==
  Saves(escalations,
        Newest(Append(escalations.memory, [key |-> k, resolved |-> FALSE]), MaxEscalations))
(* handleResolveEscalation: once. *)
Resolves(n) ==
  /\ n \in DOMAIN escalations.memory /\ ~escalations.memory[n].resolved
  /\ Saves(escalations, [escalations.memory EXCEPT ![n].resolved = TRUE])
  /\ UNCHANGED <<feedback, costs, costSeq, notices>>
(* escalateLeaderFailure adds one and tells the channel by other means. *)
LeaderEscalates(k) ==
  /\ AddEscalation(k) /\ UNCHANGED <<feedback, costs, costSeq, notices>>
Feedback(result) ==
  /\ Saves(feedback, Newest(Append(feedback.memory, result), MaxRecords))
  /\ UNCHANGED <<escalations, costs, costSeq, notices>>
CostRecorded ==
  /\ costSeq < MaxCost /\ costSeq' = costSeq + 1
  /\ Saves(costs, Newest(Append(costs.memory, costSeq'), MaxRecords))
  /\ UNCHANGED <<escalations, feedback, notices>>

-----------------------------------------------------------------------------
(* handleEscalate: it is added ... *)
Escalates(k) ==
  /\ escalating[k] = "none" /\ AddEscalation(k)
  /\ escalating' = [escalating EXCEPT ![k] = "added"]
  /\ UNCHANGED <<feedback, costs, costSeq, waiting, told>>

(* Mutant of Notices: a notice that is suppressed starts the cooldown again. *)
NoticesSliding(k) ==
  /\ escalating[k] = "added"
  /\ escalating' = [escalating EXCEPT ![k] = IF waiting[k] = 0 THEN "posting" ELSE "none"]
  /\ waiting' = [waiting EXCEPT ![k] = Cooldown]
  /\ UNCHANGED <<ledgers, told, ledgerTrouble>>
(* ... and postEscalationNotice takes the cooldown of its key, or finds it   *)
(* taken ...                                                                 *)
Notices(k) ==
  /\ escalating[k] = "added"
  /\ IF waiting[k] = 0
     THEN /\ escalating' = [escalating EXCEPT ![k] = "posting"]
          /\ waiting' = [waiting EXCEPT ![k] = Cooldown]
     ELSE escalating' = [escalating EXCEPT ![k] = "none"] /\ UNCHANGED waiting
  /\ UNCHANGED <<ledgers, told, ledgerTrouble>>
(* ... and posts; a post that fails is not made up for, and the cooldown     *)
(* stays taken.                                                              *)
PostsNotice(k) ==
  /\ escalating[k] = "posting" /\ escalating' = [escalating EXCEPT ![k] = "none"]
  /\ \/ told' = told \cup {k} /\ UNCHANGED ledgerTrouble
     \/ LedgerTrouble /\ UNCHANGED told
  /\ UNCHANGED <<ledgers, waiting>>

Tick(k) ==
  /\ waiting[k] > 0 /\ waiting' = [waiting EXCEPT ![k] = @ - 1]
  /\ UNCHANGED <<ledgers, escalating, told, ledgerTrouble>>

(* A restart: the files are read, the numbers of costs go on after the       *)
(* highest on file; the cooldowns are forgotten.                             *)
LedgerCrash ==
  /\ LedgerTrouble
  /\ escalations' = Reread(escalations) /\ feedback' = Reread(feedback)
  /\ costs' = Reread(costs)
  /\ costSeq' = Max(ToSet(costs.file) \cup {0})
  /\ escalating' = [k \in Key |-> "none"] /\ waiting' = [k \in Key |-> 0]
  /\ UNCHANGED told

LedgerNext ==
  \/ \E k \in Key :
       \/ Escalates(k) \/ Notices(k) \/ PostsNotice(k) \/ Tick(k) \/ LeaderEscalates(k)
  \/ \E n \in 1..MaxEscalations : Resolves(n)
  \/ \E result \in {"success", "failure"} : Feedback(result)
  \/ CostRecorded \/ LedgerCrash

(* A handler that has begun ends; time goes on. *)
LedgerFairness ==
  \A k \in Key : WF_ledgerVars(Notices(k)) /\ WF_ledgerVars(PostsNotice(k))
                   /\ WF_ledgerVars(Tick(k))

LedgerSpec == LedgerInit /\ [][LedgerNext]_ledgerVars /\ LedgerFairness

-----------------------------------------------------------------------------
(* The channel learns of what keeps failing: of a key that is escalated      *)
(* again and again the channel is told in the end, although a notice that    *)
(* could not be posted takes the cooldown of its key like any other.         *)
NoticeGetsThrough ==
  \A k \in Key : ([]<>(escalating[k] = "added")) => <>(k \in told)
=============================================================================
