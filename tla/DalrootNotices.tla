--------------------------- MODULE DalrootNotices ---------------------------
(***************************************************************************)
(* What the daemon tells dalroot: that an issue was closed                 *)
(* (dalroot_notifier.go), that an approved pull request waits for its      *)
(* merge, and once a day a summary (scheduled_dalroot.go).                 *)
(*                                                                         *)
(* A notice is a file named after the current millisecond, which the host  *)
(* reads and removes.  Issues are numbered in the order of their creation. *)
(* Reminders are left out: nothing registers one (AddDalrootPending).      *)
(***************************************************************************)
EXTENDS Integers, FiniteSetsExt

CONSTANTS
  ClosedIssue,      \* 1..n
  MergeRequest,     \* the pull requests
  ClosedLimit,      \* gh issue list --state closed --limit 10
  NotifiedLimit,    \* the file keeps 500 of the notified issues
  Month,            \* days of a month
  MaxDay,           \* bound on the days
  MaxNoticeTrouble  \* bound on crashes, failed writes, reopenings

ASSUME NoticeAssumption ==
  /\ ClosedIssue \subseteq Nat \ {0} /\ IsFiniteSet(ClosedIssue)
  /\ ClosedLimit \in Nat \ {0} /\ NotifiedLimit \in Nat \ {0}
  /\ Month \in Nat \ {0} /\ MaxDay \in Nat /\ MaxNoticeTrouble \in Nat

VARIABLES
  state,      \* per issue: open, fresh (closed for 10 minutes at most) or old
  round,      \* checkClosedIssues: the listed issues still to look at, and which
              \* of them the list has as closed not long ago; or idle
  notified,   \* dalrootNotifier.notified
  kept,       \* its file
  fate,       \* per notice: whether its last file was written, or over-written
  slot,       \* the notice in the file of this millisecond
  merging,    \* the approved pull requests
  cycle,      \* scheduled dalroot: where the cycle is, whom it still asks for
  day, nine,  \* the day, and whether it is past 09:00
  last,       \* day of the month of LastDailySummary: memory and file
  posted,     \* the summary of the day was posted, and no crash since
  announced,  \* the issues announced, and not forgotten in a crash
  repeated,   \* what was announced or posted again all the same
  noticeTrouble

noticeVars ==
  <<state, round, notified, kept, fate, slot, merging, cycle, day, nine, last,
    posted, announced, repeated, noticeTrouble>>
world == <<state, merging, day, nine>>
closings == <<round, notified, kept, announced>>
schedule == <<cycle, last, posted>>
files == <<fate, slot>>

-----------------------------------------------------------------------------
Notice == ClosedIssue \cup MergeRequest
None == 0   \* no notice
Daily == 0  \* the summary
Idle == [on |-> FALSE, rest |-> {}, fresh |-> {}]
DayOfMonth == (day % Month) + 1

NoticeTypeOK ==
  /\ state \in [ClosedIssue -> {"open", "fresh", "old"}]
  /\ round \in [on : BOOLEAN, rest : SUBSET ClosedIssue, fresh : SUBSET ClosedIssue]
  /\ notified \subseteq ClosedIssue /\ kept \subseteq ClosedIssue
  /\ Cardinality(kept) <= NotifiedLimit
  /\ fate \in [Notice -> {"unsaid", "written", "lost"}]
  /\ slot \in Notice \cup {None} /\ merging \subseteq MergeRequest
  /\ cycle \in [at : {"idle", "ask", "save"}, rest : SUBSET MergeRequest]
  /\ day \in 0..MaxDay /\ nine \in BOOLEAN
  /\ last \in [memory : 1..Month, file : 1..Month] /\ posted \in BOOLEAN
  /\ announced \subseteq ClosedIssue /\ repeated \subseteq ClosedIssue \cup {Daily}
  /\ noticeTrouble \in 0..MaxNoticeTrouble

(* The zero time, before the first summary, is on the first of a month. *)
NoticeInit ==
  /\ state = [i \in ClosedIssue |-> "open"] /\ merging = {}
  /\ round = Idle /\ notified = {} /\ kept = {}
  /\ fate = [m \in Notice |-> "unsaid"] /\ slot = None
  /\ cycle = [at |-> "idle", rest |-> {}] /\ last = [memory |-> 1, file |-> 1]
  /\ day = 0 /\ nine = FALSE /\ posted = FALSE
  /\ announced = {} /\ repeated = {} /\ noticeTrouble = 0

NoticeTrouble ==
  noticeTrouble < MaxNoticeTrouble /\ noticeTrouble' = noticeTrouble + 1

-----------------------------------------------------------------------------
(* The world. *)
Closes(i) ==
  /\ state[i] = "open" /\ state' = [state EXCEPT ![i] = "fresh"]
  /\ UNCHANGED <<merging, day, nine, closings, schedule, files, repeated, noticeTrouble>>
(* Also on the list.  One that is opened again is looked at long before. *)
GetsOld(i) ==
  /\ state[i] = "fresh" /\ state' = [state EXCEPT ![i] = "old"]
  /\ round' = [round EXCEPT !.fresh = @ \ {i}]
  /\ UNCHANGED <<merging, day, nine, notified, kept, announced, schedule, files, repeated,
                 noticeTrouble>>
Reopens(i) ==
  /\ NoticeTrouble /\ state[i] # "open" /\ state' = [state EXCEPT ![i] = "open"]
  /\ UNCHANGED <<merging, day, nine, closings, schedule, files, repeated>>
Approved(p) ==
  /\ p \notin merging /\ merging' = merging \cup {p}
  /\ UNCHANGED <<state, day, nine, closings, schedule, files, repeated, noticeTrouble>>
Merged(p) ==
  /\ p \in merging /\ merging' = merging \ {p}
  /\ UNCHANGED <<state, day, nine, closings, schedule, files, repeated, noticeTrouble>>
Clock ==
  /\ \/ ~nine /\ nine' = TRUE /\ UNCHANGED <<day, posted>>
     \/ nine /\ day < MaxDay /\ day' = day + 1 /\ nine' = FALSE /\ posted' = FALSE
  /\ cycle.at = "idle"
  /\ UNCHANGED <<state, merging, closings, cycle, last, files, repeated, noticeTrouble>>

(* The next millisecond gets a file of its own; so does a notice that comes *)
(* after the host has read the one before.                                  *)
Millisecond ==
  /\ slot # None /\ slot' = None
  /\ UNCHANGED <<world, closings, schedule, fate, repeated, noticeTrouble>>

-----------------------------------------------------------------------------
(* NotifyDalroot: the file of this millisecond is written, or over-written.  *)
NotifyDalroot(m) ==
  /\ fate' = [x \in Notice |-> IF x = m THEN "written"
                               ELSE IF x = slot THEN "lost" ELSE fate[x]]
  /\ slot' = m
WriteFails == NoticeTrouble /\ UNCHANGED files

(* checkClosedIssues lists the newest closed issues ... *)
CloseList ==
  LET closed == {i \in ClosedIssue : state[i] # "open"}
  IN {i \in closed : Cardinality({j \in closed : j > i}) < ClosedLimit}
CheckClosed ==
  /\ ~round.on
  /\ round' = [on |-> TRUE, rest |-> CloseList,
               fresh |-> {i \in CloseList : state[i] = "fresh"}]
  /\ UNCHANGED <<world, notified, kept, announced, schedule, files, repeated,
                 noticeTrouble>>
(* ... newest first, passes over what is old or was notified ... *)
Passes ==
  /\ round.rest # {}
  /\ LET i == Max(round.rest)
     IN /\ i \notin round.fresh \/ i \in notified
        /\ round' = [round EXCEPT !.rest = @ \ {i}, !.fresh = @ \ {i}]
  /\ UNCHANGED <<world, notified, kept, announced, schedule, files, repeated,
                 noticeTrouble>>

(* ... and notifies of the others; what cannot be written stays unmarked ... *)
Announces ==
  /\ round.rest # {}
  /\ LET i == Max(round.rest)
     IN /\ i \in round.fresh /\ i \notin notified
        /\ round' = [round EXCEPT !.rest = @ \ {i}, !.fresh = @ \ {i}]
        /\ \/ /\ NotifyDalroot(i) /\ notified' = notified \cup {i}
              /\ announced' = announced \cup {i}
              /\ repeated' = repeated \cup ({i} \cap announced)
              /\ UNCHANGED noticeTrouble
           \/ WriteFails /\ UNCHANGED <<notified, announced, repeated>>
  /\ UNCHANGED <<world, kept, schedule>>
(* ... and saves at the end; too many are cut to any NotifiedLimit of them.  *)
SaveNotified ==
  /\ round.on /\ round.rest = {} /\ round' = Idle
  /\ \/ /\ IF Cardinality(notified) <= NotifiedLimit THEN kept' = notified
           ELSE kept' \in kSubset(NotifiedLimit, notified)
        /\ UNCHANGED noticeTrouble
     \/ NoticeTrouble /\ UNCHANGED kept
  /\ UNCHANGED <<world, notified, announced, schedule, files, repeated>>

-----------------------------------------------------------------------------
(* runScheduledDalrootCycle, when gh lists the issues and the pull requests: *)
(* alerts to the channel, then a notice for every approved pull request.     *)
Begin ==
  /\ cycle.at = "idle" /\ cycle' = [at |-> "ask", rest |-> merging]
  /\ UNCHANGED <<world, closings, last, posted, files, repeated, noticeTrouble>>
AskMerge ==
  /\ cycle.at = "ask"
  /\ \E p \in cycle.rest :
       /\ cycle' = [cycle EXCEPT !.rest = @ \ {p}]
       /\ \/ NotifyDalroot(p) /\ UNCHANGED noticeTrouble
          \/ WriteFails
  /\ UNCHANGED <<world, closings, last, posted, repeated>>
SummaryDue == nine /\ last.memory # DayOfMonth
NoSummary ==
  /\ cycle = [at |-> "ask", rest |-> {}] /\ ~SummaryDue
  /\ cycle' = [cycle EXCEPT !.at = "idle"]
  /\ UNCHANGED <<world, closings, last, posted, files, repeated, noticeTrouble>>

(* Mutant of Summary: the time is written to the file and not kept. *)
SummaryUnkept ==
  /\ cycle = [at |-> "ask", rest |-> {}] /\ SummaryDue
  /\ cycle' = [cycle EXCEPT !.at = "save"]
  /\ posted' = TRUE
  /\ repeated' = IF posted THEN repeated \cup {Daily} ELSE repeated
  /\ UNCHANGED <<world, closings, last, files, noticeTrouble>>

(* postDailySummary, then the time of it ... *)
Summary ==
  /\ cycle = [at |-> "ask", rest |-> {}] /\ SummaryDue
  /\ cycle' = [cycle EXCEPT !.at = "save"]
  /\ last' = [last EXCEPT !.memory = DayOfMonth] /\ posted' = TRUE
  /\ repeated' = IF posted THEN repeated \cup {Daily} ELSE repeated
  /\ UNCHANGED <<world, closings, files, noticeTrouble>>
(* ... also in the file. *)
SaveSummary ==
  /\ cycle.at = "save" /\ cycle' = [cycle EXCEPT !.at = "idle"]
  /\ \/ last' = [last EXCEPT !.file = last.memory] /\ UNCHANGED noticeTrouble
     \/ NoticeTrouble /\ UNCHANGED last
  /\ UNCHANGED <<world, closings, posted, files, repeated>>

-----------------------------------------------------------------------------
(* newDalrootNotifier reads the notified issues. *)
Reload == kept

(* A restart.  What is not in the files may be announced and posted again. *)
NoticeCrash ==
  /\ NoticeTrouble
  /\ round' = Idle /\ notified' = Reload /\ announced' = announced \cap kept
  /\ cycle' = [at |-> "idle", rest |-> {}]
  /\ last' = [last EXCEPT !.memory = last.file]
  /\ posted' = (posted /\ last.file = DayOfMonth)
  /\ UNCHANGED <<world, kept, files, repeated>>

NoticeNext ==
  \/ \E i \in ClosedIssue : Closes(i) \/ GetsOld(i) \/ Reopens(i)
  \/ \E p \in MergeRequest : Approved(p) \/ Merged(p)
  \/ Clock \/ Millisecond
  \/ CheckClosed \/ Passes \/ Announces \/ SaveNotified
  \/ Begin \/ AskMerge \/ NoSummary \/ Summary \/ SaveSummary \/ NoticeCrash

NoticeSpec == NoticeInit /\ [][NoticeNext]_noticeVars

-----------------------------------------------------------------------------
(* An issue is announced once and a summary posted once a day, unless a      *)
(* crash comes before the file says so, or the file could not be saved or    *)
(* could not hold them all.                                                  *)
ToldOnce == repeated = {}

=============================================================================
