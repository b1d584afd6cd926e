---------------------------- MODULE RepoWatcher -----------------------------
(***************************************************************************)
(* The repository watcher (repo_watcher.go): every poll it pulls main; when*)
(* .dal changed the running dals are synchronised, when Go files changed   *)
(* the panes are told.  What is to be done is known only from what a pull  *)
(* brings.  The synchronisation is DalLifecycle, the broadcast Pipeline.   *)
(***************************************************************************)
EXTENDS Integers

CONSTANTS
  MaxRevision,    \* bound on the commits
  MaxRepoTrouble  \* bound on failures and restarts

ASSUME RepoAssumption == MaxRevision \in Nat /\ MaxRepoTrouble \in Nat

VARIABLES
  main,       \* the newest commits on origin that change .dal, and Go files
  head,       \* the same in the working tree
  pulled,     \* what the watcher found in its last pull and has not done yet
  dals,       \* the .dal commit that the running dals have
  panes,      \* the Go commit that the panes were told of
  diverged,   \* the working tree has commits of its own
  lost,       \* a restart, or a failure, came between a pull and what it asks for
  repoTrouble

repoVars == <<main, head, pulled, dals, panes, diverged, lost, repoTrouble>>

-----------------------------------------------------------------------------
Part == {"dal", "go"}
Revision == [Part -> 0..MaxRevision]

RepoTypeOK ==
  /\ main \in Revision /\ head \in Revision /\ \A x \in Part : head[x] <= main[x]
  /\ pulled \subseteq Part /\ dals \in 0..head["dal"] /\ panes \in 0..head["go"]
  /\ diverged \in BOOLEAN /\ lost \subseteq Part /\ repoTrouble \in 0..MaxRepoTrouble

RepoInit ==
  /\ main = [x \in Part |-> 0] /\ head = main /\ pulled = {} /\ dals = 0 /\ panes = 0
  /\ diverged = FALSE /\ lost = {} /\ repoTrouble = 0

RepoTrouble == repoTrouble < MaxRepoTrouble /\ repoTrouble' = repoTrouble + 1

-----------------------------------------------------------------------------
(* Someone pushes to main. *)
Pushed(parts) ==
  /\ parts # {} /\ \A x \in parts : main[x] < MaxRevision
  /\ main' = [x \in Part |-> IF x \in parts THEN main[x] + 1 ELSE main[x]]
  /\ UNCHANGED <<head, pulled, dals, panes, diverged, lost, repoTrouble>>
(* A commit in the working tree keeps --ff-only from pulling; once it is     *)
(* pushed or dropped the pull goes on.                                       *)
Diverges ==
  /\ IF diverged THEN UNCHANGED repoTrouble ELSE RepoTrouble
  /\ diverged' = ~diverged
  /\ UNCHANGED <<main, head, pulled, dals, panes, lost>>
(* Someone else pulls, between two polls. *)
PulledByHand ==
  /\ RepoTrouble /\ ~diverged /\ head # main /\ pulled = {}
  /\ head' = main /\ lost' = lost \cup {x \in Part : head[x] # main[x]}
  /\ UNCHANGED <<main, pulled, dals, panes, diverged>>

(* Mutant of FetchAndPull: of the files that changed one decides. *)
FetchAndPullOne ==
  /\ pulled = {} /\ head # main /\ ~diverged
  /\ head' = main
  /\ pulled' = IF head["go"] # main["go"] THEN {"go"} ELSE {"dal"}
  /\ UNCHANGED <<main, dals, panes, diverged, lost, repoTrouble>>
(* fetchAndPull: when git diff fails, everything is taken to have changed; a *)
(* fetch or a pull that fails changes nothing and is tried again.            *)
FetchAndPull ==
  /\ pulled = {} /\ head # main /\ ~diverged
  /\ head' = main
  /\ \/ pulled' = {x \in Part : head[x] # main[x]} /\ UNCHANGED repoTrouble
     \/ pulled' = Part /\ RepoTrouble
  /\ UNCHANGED <<main, dals, panes, diverged, lost>>

(* runSync: a dal it cannot synchronise is left as it is. *)
RunSync ==
  /\ "dal" \in pulled /\ pulled' = pulled \ {"dal"}
  /\ \/ /\ dals' = head["dal"] /\ lost' = lost \ {"dal"} /\ UNCHANGED repoTrouble
     \/ RepoTrouble /\ lost' = lost \cup {"dal"} /\ UNCHANGED dals
  /\ UNCHANGED <<main, head, panes, diverged>>
(* ... and then the broadcast, whose errors are dropped. *)
TellPanes ==
  /\ pulled = {"go"} /\ pulled' = {}
  /\ \/ /\ panes' = head["go"] /\ lost' = lost \ {"go"} /\ UNCHANGED repoTrouble
     \/ RepoTrouble /\ lost' = lost \cup {"go"} /\ UNCHANGED panes
  /\ UNCHANGED <<main, head, dals, diverged>>

(* A restart: what the pull asked for is not known any more. *)
RepoCrash ==
  /\ RepoTrouble /\ pulled' = {} /\ lost' = lost \cup pulled
  /\ UNCHANGED <<main, head, dals, panes, diverged>>

RepoNext ==
  \/ \E parts \in SUBSET Part : Pushed(parts)
  \/ Diverges \/ PulledByHand \/ FetchAndPull \/ RunSync \/ TellPanes \/ RepoCrash

(* The watcher polls for ever, and origin answers in the end. *)
RepoFairness ==
  WF_repoVars(FetchAndPull) /\ WF_repoVars(RunSync) /\ WF_repoVars(TellPanes)

RepoSpec == RepoInit /\ [][RepoNext]_repoVars /\ RepoFairness

-----------------------------------------------------------------------------
(* In the end the running dals have main's .dal and the panes know of its Go *)
(* files, unless the working tree stays diverged, or the last pull of them   *)
(* was somebody else's or was cut off from what it asks for.                 *)
MainArrives ==
  <>[](\/ diverged
       \/ /\ "dal" \in lost \/ dals = main["dal"]
          /\ "go" \in lost \/ panes = main["go"])
=============================================================================
