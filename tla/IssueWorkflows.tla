--------------------------- MODULE IssueWorkflows ---------------------------
(***************************************************************************)
(* Workflows for issues (issue_workflow.go): on request one one-shot task  *)
(* is run for an issue.  The workflows are kept in memory only; the task   *)
(* itself is DalTasks.                                                     *)
(***************************************************************************)
EXTENDS Integers, SequencesExt

CONSTANTS
  Ticket,       \* the issues that workflows are requested for
  Request,      \* the requests
  MaxWorkflows  \* maxWorkflows = 50

ASSUME FlowAssumption == MaxWorkflows \in Nat \ {0}

VARIABLES
  flow,    \* per request: its issue and the status of its workflow
  stored,  \* issueWorkflowStore, oldest first
  missed   \* per request: the active workflows when it looked for one

flowVars == <<flow, stored, missed>>

-----------------------------------------------------------------------------
NoFlow == [issue |-> "none", status |-> "none"]
Ended == {"done", "failed"}
Active(r) == flow[r].status \in {"pending", "working"}

FlowTypeOK ==
  /\ flow \in [Request -> [issue : Ticket, status : {"looked", "pending", "working"}
                                                      \cup Ended] \cup {NoFlow}]
  /\ stored \in Seq(Request) /\ IsInjective(stored)
  /\ missed \in [Request -> SUBSET Request]

FlowInit ==
  /\ flow = [r \in Request |-> NoFlow] /\ stored = <<>>
  /\ missed = [r \in Request |-> {}]

-----------------------------------------------------------------------------
(* Mutant of FindByIssue: it finds only the workflows that already run. *)
FindByIssueRunning(i) ==
  \E r \in ToSet(stored) : flow[r].issue = i /\ flow[r].status = "working"
FindByIssue(i) == \E r \in ToSet(stored) : flow[r].issue = i /\ Active(r)

(* handleIssueWorkflow finds no workflow for the issue (else: conflict) ...  *)
Look(r, i) ==
  /\ flow[r] = NoFlow /\ ~FindByIssue(i)
  /\ flow' = [flow EXCEPT ![r] = [issue |-> i, status |-> "looked"]]
  /\ missed' = [missed EXCEPT ![r] = {s \in Request : Active(s)}]
  /\ UNCHANGED stored

(* Create drops the oldest that has ended, if there is one. *)
Evicted(s) ==
  LET old == {k \in DOMAIN s : flow[s[k]].status \in Ended}
  IN IF Len(s) > MaxWorkflows /\ old # {}
     THEN RemoveAt(s, Min(old)) ELSE s

(* ... and creates one under another lock. *)
Create(r) ==
  /\ flow[r].status = "looked"
  /\ flow' = [flow EXCEPT ![r].status = "pending"]
  /\ stored' = Evicted(Append(stored, r))
  /\ UNCHANGED missed

(* runIssueWorkflow: a one-shot task, and what it ends with is told. *)
Work(r) ==
  /\ flow[r].status = "pending"
  /\ flow' = [flow EXCEPT ![r].status = "working"]
  /\ UNCHANGED <<stored, missed>>
End(r) ==
  /\ flow[r].status = "working"
  /\ \E s \in Ended : flow' = [flow EXCEPT ![r].status = s]
  /\ UNCHANGED <<stored, missed>>

(* A request whose workflow is out of the store is another one. *)
Forget(r) ==
  /\ flow[r].status \in Ended /\ r \notin ToSet(stored)
  /\ flow' = [flow EXCEPT ![r] = NoFlow]
  /\ missed' = [s \in Request |-> IF s = r THEN {} ELSE missed[s] \ {r}]
  /\ UNCHANGED stored

(* A restart of the daemon forgets them all. *)
FlowCrash ==
  /\ flow' = [r \in Request |-> NoFlow] /\ stored' = <<>>
  /\ missed' = [r \in Request |-> {}]

FlowNext ==
  \/ \E r \in Request :
       (\E i \in Ticket : Look(r, i)) \/ Create(r) \/ Work(r) \/ End(r) \/ Forget(r)
  \/ FlowCrash

FlowSpec == FlowInit /\ [][FlowNext]_flowVars

-----------------------------------------------------------------------------
(* A workflow that has not ended can be found, so that a second request for  *)
(* its issue is refused, however many workflows came after it.               *)
ActiveIsStored == \A r \in Request : Active(r) => r \in ToSet(stored)

(* Two workflows are active for one issue only when both requests looked     *)
(* before either workflow existed.                                           *)
OverlapIsARace ==
  \A r, s \in Request :
    r # s /\ Active(r) /\ Active(s) /\ flow[r].issue = flow[s].issue
      => r \notin missed[s] /\ s \notin missed[r]

=============================================================================
