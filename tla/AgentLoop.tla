----------------------------- MODULE AgentLoop -----------------------------
(***************************************************************************)
(* `dalcli run`, the loop inside a dal's container: it takes a message of  *)
(* its channel or its periodic task, runs a provider under a circuit       *)
(* breaker of its own and one the daemon keeps for all dals, repairs and   *)
(* retries once, closes the tracked run, answers, and turns what a member  *)
(* changed in its workspace into a branch, a commit and a pull request.    *)
(*                                                                         *)
(* A provider's failure is what the loop reads out of its output; times    *)
(* are flags saying that a cooldown is over.  Any call may hang: those of   *)
(* git, gh, go and npm, and the posts, have no time limit.                  *)
(***************************************************************************)
EXTENDS Integers

CONSTANTS
  Dals,       \* the kinds of dals to look at
  Task,       \* texts that jobs may repeat: selfRepair remembers them
  Threshold,  \* failures that open the breaker: 3
  MaxRetries, \* calls of the primary per execution: 3
  Left,       \* the workspaces to look at: what a job may leave changed
  MaxTrouble  \* bound on crashes, hangs, stops of the daemon, other dals' trips

(* DAL_PLAYER and DAL_FALLBACK_PLAYER: the two that the daemon's circuit      *)
(* knows, and any other.                                                    *)
Player == {"claude", "codex", "other"}

ASSUME AgentAssumption ==
  /\ Dals \subseteq [own : Player, fb : Player \cup {"none"},
                     member : BOOLEAN, bridge : BOOLEAN]
  /\ \A d \in Dals : d.own # d.fb
  /\ Threshold \in Nat \ {0} /\ MaxRetries \in Nat \ {0}
  /\ MaxTrouble \in Nat

VARIABLES
  env,       \* the dal: its provider, its fallback, is no leader, has a bridge
  pc,        \* where the loop stands
  job,       \* what it works on
  x,         \* executeTask: attempt, last error, whether a fallback failed
  cb,        \* CircuitBreaker: state, failures, cooldown over
  central,   \* the daemon's circuit: primary, fallback, over (cooldown passed)
  dc,        \* the daemon answers
  run,       \* the tracked run as the daemon has it
  cut,       \* the daemon or this process was gone when the run was to end
  muted,     \* the answer could not be sent, or this process died before it
  sent,      \* what the current job has sent and done
  ws,        \* uncommitted changes: modified and new files, by kind
  hot,       \* texts whose last self repair is less than 5 minutes old
  autoFailed,\* the automatic task failed last time
  stuck,     \* a call does not return
  trouble    \* disturbances so far

vars == <<env, pc, job, x, cb, central, dc, run, cut, muted, sent, ws, hot,
          autoFailed, stuck, trouble>>
circuit == <<cb, central>>
tracking == <<run, cut, muted, sent>>
memory == <<hot, autoFailed>>
outside == <<env, dc, stuck, trouble>>

-----------------------------------------------------------------------------
Step == {"ask", "viaCentral", "local", "viaLocal", "primary", "switch", "failed",
         "apology", "done", "git", "reply", "answer"}
Error == {"limit", "auth", "env", "git", "other"}
Closes == {"done", "noop", "failed", "blocked"}
Effect == {"status", "repairing", "final", "failure", "escalation", "claim",
           "issue", "notice", "commit", "push", "pr", "report"}

(* What git status can list: source by its suffix; source whose path it puts *)
(* in quotes, for a blank or a letter outside ASCII; a new directory with     *)
(* source in it, listed as one line; docs/; the dal's own .dal/ (with a code  *)
(* suffix or without); runtime artifacts; anything else.                      *)
Kind == {"code", "quoted", "newdir", "docs", "dalcode", "dal", "artifact", "other"}
Suffixed == {"code", "dalcode"}
DalKind == {"dal", "dalcode"}
Work == [mod : SUBSET (Kind \ {"newdir"}), new : SUBSET Kind]
ASSUME LeftAssumption == Left \subseteq Work

Clean == [mod |-> {}, new |-> {}]
All(w) == w.mod \cup w.new

Closed == [state |-> "closed", failures |-> 0, cold |-> FALSE]
Fresh == [try |-> 1, err |-> "none", fbFailed |-> FALSE, second |-> FALSE]
NoJob == [kind |-> "none", task |-> "none"]

TypeOK ==
  /\ env \in Dals
  /\ pc \in Step \cup {"idle"}
  /\ job \in [kind : {"none", "msg", "query", "auto"}, task : Task \cup {"none"}]
  /\ x \in [try : 1..MaxRetries, err : Error \cup {"none"},
            fbFailed : BOOLEAN, second : BOOLEAN]
  /\ cb \in [state : {"closed", "open", "half"}, failures : 0..Threshold,
             cold : BOOLEAN]
  /\ central \in {"primary", "fallback", "over"} /\ dc \in BOOLEAN
  /\ run \in Closes \cup {"none", "running"} /\ cut \in BOOLEAN /\ muted \in BOOLEAN
  /\ sent \subseteq Effect /\ ws \in Work
  /\ hot \subseteq Task /\ autoFailed \in BOOLEAN
  /\ stuck \in BOOLEAN /\ trouble \in 0..MaxTrouble

Init ==
  /\ env \in Dals
  /\ pc = "idle" /\ job = NoJob /\ x = Fresh
  /\ cb = Closed /\ central = "primary" /\ dc = TRUE
  /\ run = "none" /\ cut = FALSE /\ muted = FALSE /\ sent = {} /\ ws = Clean
  /\ hot = {} /\ autoFailed = FALSE /\ stuck = FALSE /\ trouble = 0

Idle == pc' = "idle" /\ job' = NoJob /\ x' = Fresh

Trouble == trouble < MaxTrouble /\ trouble' = trouble + 1

-----------------------------------------------------------------------------
(* Taking a job. *)

(* A message that asks for something: the prefix, a mention or a reply in a  *)
(* thread the dal is in.  A credential query is answered and done with; only *)
(* when that answer cannot be sent does it go on, as a run with no effect.   *)
(* (No post to the channel is repeated: its error is logged.)                *)
TakeMessage(t, kind) ==
  /\ pc = "idle" /\ env.bridge
  /\ job' = [kind |-> kind, task |-> t] /\ x' = Fresh
  /\ run' = IF dc THEN "running" ELSE "none"
  /\ cut' = FALSE /\ muted' = FALSE /\ sent' \in SUBSET {"status"}
  /\ pc' = IF kind = "query" THEN "done" ELSE "ask"
  /\ UNCHANGED <<circuit, ws, memory, outside>>

(* The periodic task has no tracked run. *)
TakeAuto ==
  /\ pc = "idle"
  /\ job' = [kind |-> "auto", task |-> "none"] /\ x' = Fresh
  /\ run' = "none" /\ cut' = FALSE /\ muted' = FALSE /\ sent' = {}
  /\ pc' = "ask"
  /\ UNCHANGED <<circuit, ws, memory, outside>>

-----------------------------------------------------------------------------
(* executeTask. *)

(* ProviderCircuit.ActiveProvider: who asks ends a fallback that is over. *)
Asked == IF central = "over" THEN "primary" ELSE central

(* What the daemon answers: its primary is claude, its fallback codex.      *)
Named == IF Asked = "primary" THEN "claude" ELSE "codex"

(* shouldUseCentralOverride: the daemon names the dal's own fallback, as it   *)
(* does for a codex dal as long as nothing has failed.                        *)
Ask ==
  /\ pc = "ask"
  /\ central' = IF dc THEN Asked ELSE central
  /\ pc' = IF dc /\ Named = env.fb THEN "viaCentral" ELSE "local"
  /\ UNCHANGED <<job, x, cb, tracking, ws, memory, outside>>

(* The fallback is called in three places: as the daemon says, because the  *)
(* breaker is open, because it has just opened.                             *)
FallbackWorks ==
  /\ pc \in {"viaCentral", "viaLocal", "switch"}
  /\ pc' = "done" /\ x' = Fresh
  /\ UNCHANGED <<job, circuit, tracking, ws, memory, outside>>

HasFallback == env.fb # "none"

(* Mutant of After: a retry is not counted. *)
AfterUncounted(e, y) ==
  /\ x' = [y EXCEPT !.err = e]
  /\ pc' = IF e \in {"limit", "auth"} THEN "primary" ELSE "failed"

(* A retryable error is tried again up to the limit, any other is final. *)
After(e, y) ==
  IF e \in {"limit", "auth"} /\ y.try < MaxRetries
  THEN pc' = "primary" /\ x' = [y EXCEPT !.try = @ + 1, !.err = e]
  ELSE pc' = "failed" /\ x' = [y EXCEPT !.err = e]

FallbackFails ==
  /\ pc \in {"viaCentral", "viaLocal", "switch"}
  /\ LET y == [x EXCEPT !.fbFailed = TRUE]
     IN CASE pc = "viaCentral" -> pc' = "local" /\ x' = y
          [] pc = "viaLocal"   -> pc' = "primary" /\ x' = y
          [] pc = "switch"     -> After(x.err, y)
  /\ UNCHANGED <<job, circuit, tracking, ws, memory, outside>>

(* Mutant of Local: the breaker's answer is not used. *)
LocalIgnores ==
  /\ pc = "local"
  /\ pc' = "primary"
  /\ UNCHANGED <<job, x, circuit, tracking, ws, memory, outside>>

(* ShouldFallback: asking an open breaker after its cooldown half-opens it, *)
(* also when there is no fallback.                                          *)
Local ==
  /\ pc = "local"
  /\ cb' = IF cb.state = "open" /\ cb.cold
           THEN [cb EXCEPT !.state = "half", !.cold = FALSE] ELSE cb
  /\ pc' = IF cb'.state = "open" /\ HasFallback THEN "viaLocal" ELSE "primary"
  /\ UNCHANGED <<job, x, central, tracking, ws, memory, outside>>

(* RecordFailure.  (Past the threshold the count no longer matters.) *)
Recorded(c) ==
  LET n == IF c.failures < Threshold THEN c.failures + 1 ELSE c.failures
  IN [state |-> IF c.state = "half" \/ n >= Threshold THEN "open" ELSE c.state,
      failures |-> n, cold |-> FALSE]

(* RecordSuccess. *)
Succeeded(c) == Closed

PrimaryWorks ==
  /\ pc = "primary"
  /\ cb' = Succeeded(cb)
  /\ pc' = "done" /\ x' = Fresh
  /\ UNCHANGED <<job, central, tracking, ws, memory, outside>>

(* An authentication error is not counted by the breaker, which may stay    *)
(* half-open.  (The claim for new credentials is CredentialClaims'.)        *)
PrimaryAuth ==
  /\ pc = "primary"
  /\ After("auth", x)
  /\ UNCHANGED <<job, circuit, tracking, ws, memory, outside>>

(* ProviderCircuit.Trip, then Status, which asks: a report that comes when  *)
(* the fallback is over and nobody has asked ends the fallback.             *)
Tripped == IF central = "primary" THEN "fallback" ELSE Asked

PrimaryFails(e) ==
  /\ pc = "primary"
  /\ cb' = Recorded(cb)
  /\ central' = IF e = "limit" /\ cb'.state = "open" /\ dc THEN Tripped ELSE central
  /\ IF cb'.state = "open" /\ HasFallback
     THEN pc' = "switch" /\ x' = [x EXCEPT !.err = e]
     ELSE After(e, x)
  /\ UNCHANGED <<job, tracking, ws, memory, outside>>

-----------------------------------------------------------------------------
(* Failure. *)

(* finishTrackedRun is not repeated when the daemon does not answer. *)
Finish(s) ==
  /\ run' = IF run = "running" /\ dc THEN s ELSE run
  /\ cut' = (cut \/ (run = "running" /\ ~dc))

(* selfRepair: marked as tried whatever comes of it, and then, for errors   *)
(* of the environment and of git, perhaps repaired: executeTask once more.  *)
Repair ==
  /\ pc = "failed" /\ job.kind = "msg" /\ ~x.second
  /\ job.task \notin hot /\ x.err \in {"env", "git"}
  /\ hot' = hot \cup {job.task}
  /\ sent' \in {sent, sent \cup {"repairing"}}
  /\ x' = [Fresh EXCEPT !.second = TRUE]
  /\ pc' = "ask"
  /\ UNCHANGED <<job, circuit, run, cut, muted, ws, autoFailed, outside>>

(* Mutant of GiveUp: the run of a repaired job is not closed. *)
GiveUpUnrepaired ==
  /\ pc = "failed" /\ job.kind = "msg"
  /\ hot' = IF x.second THEN hot ELSE hot \cup {job.task}
  /\ IF x.second THEN UNCHANGED <<run, cut>> ELSE Finish("failed")
  /\ pc' = "apology"
  /\ UNCHANGED <<job, x, circuit, muted, sent, ws, autoFailed, outside>>

(* No repair, or none that helped: the run ends failed, or blocked when the  *)
(* environment is at fault ...                                               *)
GiveUp ==
  /\ pc = "failed" /\ job.kind = "msg"
  /\ hot' = IF x.second THEN hot ELSE hot \cup {job.task}
  /\ Finish(IF x.err = "env" THEN "blocked" ELSE "failed")
  /\ pc' = "apology"
  /\ UNCHANGED <<job, x, circuit, muted, sent, ws, autoFailed, outside>>

(* ... and then the channel is told, the daemon too, and what is wrong with  *)
(* the environment is claimed, each of it if it can be.                      *)
Apologize(e) ==
  /\ pc = "apology"
  /\ e \subseteq {"failure", "escalation", "claim"}
  /\ "escalation" \in e => dc
  /\ "claim" \in e => dc /\ x.err = "env"
  /\ sent' = sent \cup e
  /\ muted' = ("failure" \notin e)
  /\ Idle
  /\ UNCHANGED <<circuit, run, cut, ws, memory, outside>>

(* escalateAutoTaskFailure: from the second failure in a row on. *)
AutoFails(e) ==
  /\ pc = "failed" /\ job.kind = "auto"
  /\ autoFailed' = TRUE
  /\ e \subseteq {"notice", "escalation"}
  /\ "notice" \in e => env.bridge
  /\ "escalation" \in e => autoFailed /\ dc
  /\ sent' = sent \cup e
  /\ Idle
  /\ UNCHANGED <<circuit, run, cut, muted, ws, hot, outside>>

-----------------------------------------------------------------------------
(* Success. *)

(* An output that speaks of failure becomes an issue, as long as the daily  *)
(* limit and GitHub let it.  Without a bridge nobody reads the output.      *)
AutoDone(e) ==
  /\ pc = "done" /\ job.kind = "auto"
  /\ e \subseteq {"issue", "notice"}
  /\ env.bridge \/ e = {}
  /\ autoFailed' = FALSE
  /\ sent' = sent \cup e
  /\ Idle
  /\ UNCHANGED <<circuit, run, cut, muted, ws, hot, outside>>

(* collectTaskVerification reports what changed; autoGitWorkflow is for     *)
(* whoever is not a leader, and takes whatever the workspace holds, also    *)
(* what earlier jobs left.                                                  *)
Verify ==
  /\ pc = "done" /\ job.kind \in {"msg", "query"}
  /\ ws' \in Left
  /\ pc' = IF env.member THEN "git" ELSE "reply"
  /\ UNCHANGED <<job, x, circuit, tracking, memory, outside>>

(* TrimSpace takes the blank that starts the line of the first modified     *)
(* file, and line[3:] then its first letter.  Prefixes no longer match,     *)
(* suffixes do.  Files under .dal/ are listed before docs/.  The quotes of a *)
(* path and the one line of a new directory end in no suffix; git add goes  *)
(* by the names themselves.                                                 *)
DalOnly(w) == w.mod = {} /\ w.new \subseteq DalKind
ArtifactsOnly(w) == w.mod = {} /\ w.new \subseteq {"artifact"}
HasCode(w, docsFirst) ==
  \/ All(w) \cap Suffixed # {}
  \/ "docs" \in w.new
  \/ "docs" \in w.mod /\ ~docsFirst
Staged(w) == All(w) \cap (Suffixed \cup DalKind \cup {"quoted", "newdir", "docs"})

GitDone(w, e) ==
  /\ ws' = w
  /\ sent' = sent \cup e
  /\ pc' = "reply"
  /\ UNCHANGED <<job, x, circuit, run, cut, muted, memory, outside>>

(* Gates 1 and 2, a branch that cannot be made, gate 4 (git add failed), a   *)
(* commit that fails: the changes stay.                                      *)
GitSkip == pc = "git" /\ (DalOnly(ws) \/ ArtifactsOnly(ws)) /\ GitDone(ws, {})

(* Gate 3: no code that it sees, and git checkout -- . undoes every change of *)
(* a file that git tracks.                                                    *)
GitDiscard(docsFirst) ==
  /\ pc = "git" /\ ~DalOnly(ws) /\ ~ArtifactsOnly(ws)
  /\ docsFirst => "docs" \in ws.mod /\ ws.mod \cap DalKind = {}
  /\ ~HasCode(ws, docsFirst)
  /\ GitDone([ws EXCEPT !.mod = {}], {})

MayCommit ==
  /\ pc = "git" /\ ~DalOnly(ws) /\ ~ArtifactsOnly(ws)
  /\ HasCode(ws, FALSE)

GitFails == MayCommit /\ GitDone(ws, {})

(* The commit takes what was staged; push and pull request may still fail.   *)
GitCommit(e) ==
  /\ MayCommit
  /\ e \in {{"commit"}, {"commit", "push"}, {"commit", "push", "pr"}}
  /\ GitDone([mod |-> ws.mod \ Staged(ws), new |-> ws.new \ Staged(ws)], e)

(* The run is closed ...                                                     *)
Reply ==
  /\ pc = "reply"
  /\ Finish(IF job.kind = "query" THEN "noop" ELSE "done")
  /\ pc' = "answer"
  /\ UNCHANGED <<job, x, circuit, muted, sent, ws, memory, outside>>

(* ... and then the answer is posted, if it can be, and a member that a user  *)
(* addressed reports to the leader.  (What is left in the workspace is part   *)
(* of what the next Verify finds.)                                            *)
Answer(e) ==
  /\ pc = "answer"
  /\ e \subseteq {"final", "report"}
  /\ "report" \in e => env.member
  /\ sent' = sent \cup e
  /\ muted' = ("final" \notin e)
  /\ ws' = Clean
  /\ Idle
  /\ UNCHANGED <<circuit, run, cut, memory, outside>>

-----------------------------------------------------------------------------
(* The world. *)

(* Cooldowns pass: the breaker's 2 minutes, the daemon's 4 hours, the       *)
(* repair's 5 minutes.                                                      *)
BreakerCools ==
  /\ cb.state = "open" /\ ~cb.cold
  /\ cb' = [cb EXCEPT !.cold = TRUE]
  /\ UNCHANGED <<pc, job, x, central, tracking, ws, memory, outside>>
CentralCools ==
  /\ central = "fallback"
  /\ central' = "over"
  /\ UNCHANGED <<pc, job, x, cb, tracking, ws, memory, outside>>
RepairCools(t) ==
  /\ t \in hot
  /\ hot' = hot \ {t}
  /\ UNCHANGED <<pc, job, x, circuit, tracking, ws, autoFailed, outside>>

(* Another dal reports a limit. *)
OtherTrips ==
  /\ dc
  /\ Trouble
  /\ central' = Tripped
  /\ UNCHANGED <<env, dc, stuck, pc, job, x, cb, tracking, ws, memory>>

(* The daemon forgets its circuit when it stops. *)
DaemonStops ==
  /\ dc
  /\ Trouble
  /\ dc' = FALSE
  /\ central' = "primary"
  /\ UNCHANGED <<env, stuck, pc, job, x, cb, tracking, ws, memory>>
DaemonStarts ==
  /\ ~dc
  /\ dc' = TRUE
  /\ UNCHANGED <<env, stuck, trouble, pc, job, x, circuit, tracking, ws, memory>>

(* A call that nothing limits in time does not return, for a while or for    *)
(* ever.                                                                     *)
Hang ==
  /\ pc # "idle" /\ ~stuck
  /\ Trouble
  /\ stuck' = TRUE
  /\ UNCHANGED <<env, dc, pc, job, x, circuit, tracking, ws, memory>>
Return ==
  /\ stuck
  /\ stuck' = FALSE
  /\ UNCHANGED <<env, dc, trouble, pc, job, x, circuit, tracking, ws, memory>>

(* The process dies with its memory; nobody closes its run or answers. *)
Crash ==
  /\ Trouble
  /\ Idle
  /\ cb' = Closed /\ ws' = Clean
  /\ hot' = {} /\ autoFailed' = FALSE
  /\ cut' = (cut \/ run = "running")
  /\ muted' = (muted \/ pc \in {"apology", "answer"})
  /\ stuck' = FALSE
  /\ UNCHANGED <<env, dc, central, run, sent>>

Loop ==
  /\ ~stuck
  /\ \/ Ask \/ FallbackWorks \/ FallbackFails \/ Local
     \/ PrimaryWorks \/ PrimaryAuth
     \/ \E e \in Error \ {"auth"} : PrimaryFails(e)
     \/ Repair \/ GiveUp
     \/ \E e \in SUBSET {"failure", "escalation", "claim"} : Apologize(e)
     \/ \E e \in SUBSET {"notice", "escalation"} : AutoFails(e)
     \/ \E e \in SUBSET {"issue", "notice"} : AutoDone(e)
     \/ Verify
     \/ GitSkip \/ GitFails
     \/ \E docsFirst \in BOOLEAN : GitDiscard(docsFirst)
     \/ \E e \in SUBSET {"commit", "push", "pr"} : GitCommit(e)
     \/ Reply
     \/ \E e \in SUBSET {"final", "report"} : Answer(e)

World ==
  \/ BreakerCools \/ CentralCools
  \/ \E t \in Task : RepairCools(t)
  \/ OtherTrips \/ DaemonStops \/ DaemonStarts \/ Hang \/ Return \/ Crash

Next ==
  \/ \E t \in Task, kind \in {"msg", "query"} : TakeMessage(t, kind)
  \/ TakeAuto \/ Loop \/ World

(* The loop goes on as long as the call it is in returns; whether it does is  *)
(* not assumed.                                                               *)
Spec == Init /\ [][Next]_vars
FairSpec == Spec /\ WF_vars(Loop)

-----------------------------------------------------------------------------
(* What the breaker says agrees with what it has counted: it opens at the   *)
(* threshold, and a success starts the count anew (circuit_breaker.go).     *)
BreakerCounts == cb.state = "closed" <=> cb.failures < Threshold

(* While the breaker is open and there is a fallback, the primary is called *)
(* only when a fallback has failed in the same execution.                   *)
PrimaryShielded ==
  pc = "primary" /\ cb.state = "open" /\ HasFallback => x.fbFailed

(* The tracked run and the channel never contradict each other, although two *)
(* calls write them and each may fail: no answer is posted before the run is *)
(* closed, or found impossible to close; a run closed as a success is never  *)
(* answered by a failure, nor the other way round; and once the loop is done *)
(* a run is open only if the daemon or this process was gone when it was to  *)
(* be closed, and closed without its answer only if the post failed or the   *)
(* process died before it.                                                   *)
Answered == "final" \in sent
Apologized == "failure" \in sent
RunMatchesAnswer ==
  /\ Answered => run \in {"done", "noop", "none"} \/ (run = "running" /\ cut)
  /\ Apologized => run \in {"failed", "blocked", "none"} \/ (run = "running" /\ cut)
  /\ ~(Answered /\ Apologized)
  /\ pc = "idle" =>
       /\ run = "running" => cut
       /\ run \in Closes => Answered \/ Apologized \/ muted

(* autoGitWorkflow, whose comments have gate 3 skip when there are "no real  *)
(* code files", which it says are Go, Rust, and Markdown under .dal/, and    *)
(* call what it discards then by-products: a change of such a file leaves    *)
(* the workspace in a commit and in no other way.                            *)
RealCode == {"code", "quoted", "newdir", "dalcode", "dal"}
CodeLeavesByCommit ==
  [][pc = "git" /\ pc' = "reply" =>
       \A k \in RealCode :
         k \in All(ws) /\ k \notin All(ws') => "commit" \in sent']_vars

(* A job comes to an end, through retries, waits and repair, or into a call  *)
(* that does not return.                                                     *)
JobEnds == pc # "idle" ~> pc = "idle" \/ stuck

=============================================================================
