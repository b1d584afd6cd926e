---------------------------- MODULE IssueWatcher ----------------------------
(***************************************************************************)
(* The issue watcher (issue_watcher.go): it lists the open issues, hands   *)
(* every one it has not seen to the leader and then writes it down.        *)
(*                                                                         *)
(* Issues are numbered in the order of their creation, which is the order  *)
(* in which gh lists them, newest first.  The leader's task is DalTasks.   *)
(***************************************************************************)
EXTENDS Integers, SequencesExt, Books

CONSTANTS
  Issue,         \* 1..n
  PullRequest,   \* the numbers that are pull requests: isPullRequest
  ListLimit,     \* gh issue list --limit 30
  MaxTracked,    \* maxTrackedIssues = 200
  MaxIssueTrouble \* bound on crashes, failed saves, closings, reopenings, sleeps

ASSUME IssueAssumption ==
  /\ Issue \subseteq Nat \ {0} /\ IsFiniteSet(Issue)
  /\ ListLimit \in Nat \ {0} /\ MaxTracked \in Nat /\ ListLimit <= MaxTracked
  /\ MaxIssueTrouble \in Nat

VARIABLES
  github,   \* per issue: none, open or closed
  leader,   \* a container with the role leader runs
  todo,     \* the issues of this poll that are still to be looked at
  handled,  \* the issue handed to the leader, or refused, and not yet tracked
  tracked,  \* issueStore, oldest detection first, and its file
  issueTrouble,  \* disturbances so far
  dispatches, \* per issue: how often the leader got it
  forgotten   \* per issue the leader got: how often a cut dropped it, or a
              \* crash came when the file did not have it

issueVars ==
  <<github, leader, todo, handled, tracked, issueTrouble, dispatches, forgotten>>
watcher == <<todo, handled, tracked, dispatches, forgotten>>

-----------------------------------------------------------------------------
Nothing == [issue |-> 0, status |-> "none"]
Record == [issue : Issue, status : {"dispatched", "error"}]

IssueTypeOK ==
  /\ github \in [Issue -> {"none", "open", "closed"}] /\ leader \in BOOLEAN
  /\ todo \subseteq Issue /\ Cardinality(todo) <= ListLimit
  /\ handled \in Record \cup {Nothing}
  /\ tracked \in Book(Record)
  /\ Len(tracked.memory) <= MaxTracked /\ Len(tracked.file) <= MaxTracked
  /\ issueTrouble \in 0..MaxIssueTrouble
  /\ dispatches \in [Issue -> Nat] /\ forgotten \in [Issue -> Nat]

IssueInit ==
  /\ github = [i \in Issue |-> "none"] /\ leader = FALSE
  /\ todo = {} /\ handled = Nothing /\ tracked = NewBook /\ issueTrouble = 0
  /\ dispatches = [i \in Issue |-> 0] /\ forgotten = [i \in Issue |-> 0]

IssueTrouble == issueTrouble < MaxIssueTrouble /\ issueTrouble' = issueTrouble + 1

-----------------------------------------------------------------------------
(* GitHub and the leader's container. *)
Opened(i) ==
  /\ github[i] = "none" /\ \A j \in Issue : j < i => github[j] # "none"
  /\ github' = [github EXCEPT ![i] = "open"]
  /\ UNCHANGED <<leader, watcher, issueTrouble>>
Turned(i) ==
  /\ IssueTrouble /\ github[i] # "none"
  /\ github' = [github EXCEPT ![i] = IF @ = "open" THEN "closed" ELSE "open"]
  /\ UNCHANGED <<leader, watcher>>
LeaderTurns ==
  /\ IF leader THEN IssueTrouble ELSE UNCHANGED issueTrouble
  /\ leader' = ~leader /\ UNCHANGED <<github, watcher>>

-----------------------------------------------------------------------------
(* The issue watcher. *)
OpenIssues == {i \in Issue : github[i] = "open"}
(* fetchGitHubIssues: the newest ListLimit open issues. *)
Listed ==
  {i \in OpenIssues :
     Cardinality({j \in OpenIssues : j > i}) < ListLimit}
On(list, i) == \E k \in DOMAIN list : list[k].issue = i
Seen(i) == On(tracked.memory, i)

(* A poll that finds nothing new only passes over: it is left out. *)
Poll ==
  /\ todo = {} /\ handled = Nothing
  /\ \E i \in Listed : ~Seen(i) /\ i \notin PullRequest
  /\ todo' = Listed
  /\ UNCHANGED <<github, leader, handled, tracked, dispatches, forgotten, issueTrouble>>
(* They are looked at newest first. *)
NextIssue == Max(todo)
(* An issue that was seen, and what is a pull request, is passed over. *)
PassOver ==
  /\ todo # {} /\ handled = Nothing
  /\ Seen(NextIssue) \/ NextIssue \in PullRequest
  /\ todo' = todo \ {NextIssue}
  /\ UNCHANGED <<github, leader, handled, tracked, dispatches, forgotten, issueTrouble>>

(* dispatchIssueToLeader: a task for the leader that runs, else an error. *)
Dispatch ==
  /\ todo # {} /\ handled = Nothing
  /\ ~Seen(NextIssue) /\ NextIssue \notin PullRequest
  /\ handled' = [issue |-> NextIssue,
                 status |-> IF leader THEN "dispatched" ELSE "error"]
  /\ dispatches' = [dispatches EXCEPT ![NextIssue] = IF leader THEN @ + 1 ELSE @]
  /\ todo' = todo \ {NextIssue}
  /\ UNCHANGED <<github, leader, tracked, forgotten, issueTrouble>>

(* Mutant of Kept: what was detected last is dropped. *)
KeptOldest(s) == IF Len(s) > MaxTracked THEN Front(s) ELSE s
(* save drops the oldest when there are too many. *)
Kept(s) == IF Len(s) > MaxTracked THEN Tail(s) ELSE s

(* The issues that are lost from the list and that the leader got. *)
Forgets(before, after) ==
  forgotten' = [i \in Issue |->
                  IF before[i] /\ ~after[i] /\ dispatches[i] > 0
                  THEN forgotten[i] + 1 ELSE forgotten[i]]

(* Mutant of Track: what cannot be saved is not tracked. *)
TrackIfSaved ==
  /\ handled # Nothing /\ handled' = Nothing
  /\ LET list == Kept(Append(tracked.memory, handled))
     IN \/ tracked' = Saved(list) /\ UNCHANGED issueTrouble
        \/ UNCHANGED tracked /\ IssueTrouble
  /\ Forgets([i \in Issue |-> Seen(i)], [i \in Issue |-> On(tracked'.memory, i)])
  /\ UNCHANGED <<github, leader, todo, dispatches>>

(* Track: a refused issue is tracked like any other; a save that fails       *)
(* leaves the file behind.                                                   *)
Track ==
  /\ handled # Nothing /\ handled' = Nothing
  /\ LET list == Kept(Append(tracked.memory, handled))
     IN \/ tracked' = Saved(list) /\ UNCHANGED issueTrouble
        \/ tracked' = Unsaved(tracked, list) /\ IssueTrouble
  /\ Forgets([i \in Issue |-> Seen(i)], [i \in Issue |-> On(tracked'.memory, i)])
  /\ UNCHANGED <<github, leader, todo, dispatches>>

-----------------------------------------------------------------------------
(* A restart: the poll is gone, and so is what the file does not have, be it *)
(* that it was not tracked yet or that it could not be saved.                *)
IssueCrash ==
  /\ IssueTrouble
  /\ todo' = {} /\ handled' = Nothing /\ tracked' = Reread(tracked)
  /\ Forgets([i \in Issue |-> TRUE], [i \in Issue |-> On(tracked.file, i)])
  /\ UNCHANGED <<github, leader, dispatches>>

IssueNext ==
  \/ \E i \in Issue : Opened(i) \/ Turned(i)
  \/ LeaderTurns \/ Poll \/ PassOver \/ Dispatch \/ Track \/ IssueCrash

(* The watcher polls for ever and gh answers it in the end. *)
IssueFairness ==
  WF_issueVars(Poll) /\ WF_issueVars(PassOver) /\ WF_issueVars(Dispatch)
    /\ WF_issueVars(Track)

IssueSpec == IssueInit /\ [][IssueNext]_issueVars /\ IssueFairness

-----------------------------------------------------------------------------
(* The leader gets an issue once, once more for each crash that came when    *)
(* the file did not have it, and once more each time it fell out of the list,*)
(* whatever fails to be saved, however issues are closed and opened again    *)
(* between, and also when a crash brings back what had fallen out: the       *)
(* watcher dispatches first and tracks afterwards (issue_watcher.go).        *)
DispatchesBounded == \A i \in Issue : dispatches[i] <= 1 + forgotten[i]

(* Evicting old records never makes the watcher hand out the same issues for *)
(* ever: in the end every issue in the list is tracked.                      *)
WatcherSettles == <>[](\A i \in Listed \ PullRequest : Seen(i))
=============================================================================
