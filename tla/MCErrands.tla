----------------------------- MODULE MCErrands ------------------------------
(***************************************************************************)
(* Eight parts that share no variable with each other: the issue watcher,  *)
(* the workflows, the notices for dalroot, the claims, the clients of      *)
(* `tell`, the pipeline, the repository watcher and the ledgers.  A        *)
(* behaviour of the system interleaves behaviours of the eight, and each   *)
(* property is about one of them, which the steps of the others leave      *)
(* alone.  So each is checked with the others at their beginning.          *)
(***************************************************************************)
EXTENDS IssueWatcher, IssueWorkflows, DalrootNotices, CredentialClaims,
        TellClient, Pipeline, RepoWatcher, Ledgers

VARIABLE part  \* the part that takes its steps

allVars == <<issueVars, flowVars, noticeVars, claimVars, tellVars, paneVars, repoVars,
             ledgerVars, part>>

TypeOK ==
  /\ IssueTypeOK /\ FlowTypeOK /\ NoticeTypeOK /\ ClaimTypeOK
  /\ TellTypeOK /\ PaneTypeOK /\ RepoTypeOK /\ LedgerTypeOK

Init ==
  /\ IssueInit /\ FlowInit /\ NoticeInit /\ ClaimInit
  /\ TellInit /\ PaneInit /\ RepoInit /\ LedgerInit
  /\ part \in {"issues", "flows", "notices", "claims", "tells", "panes", "repo", "ledgers"}

Others(p) ==
  /\ p = "issues" \/ UNCHANGED issueVars
  /\ p = "flows" \/ UNCHANGED flowVars
  /\ p = "notices" \/ UNCHANGED noticeVars
  /\ p = "claims" \/ UNCHANGED claimVars
  /\ p = "tells" \/ UNCHANGED tellVars
  /\ p = "panes" \/ UNCHANGED paneVars
  /\ p = "repo" \/ UNCHANGED repoVars
  /\ p = "ledgers" \/ UNCHANGED ledgerVars

Next ==
  /\ \/ part = "issues" /\ IssueNext
     \/ part = "flows" /\ FlowNext
     \/ part = "notices" /\ NoticeNext
     \/ part = "claims" /\ ClaimNext
     \/ part = "tells" /\ TellNext
     \/ part = "panes" /\ PaneNext
     \/ part = "repo" /\ RepoNext
     \/ part = "ledgers" /\ LedgerNext
  /\ Others(part) /\ UNCHANGED part

(* No action that is to be fair is enabled at the beginning of its part. *)
Spec ==
  Init /\ [][Next]_allVars
    /\ IssueFairness /\ ClaimFairness /\ RepoFairness /\ LedgerFairness
=============================================================================
