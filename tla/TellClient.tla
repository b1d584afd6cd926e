----------------------------- MODULE TellClient -----------------------------
(***************************************************************************)
(* `dalcenter tell` (cmd/dalcenter/cmd_tell.go): several clients that,     *)
(* before they send, put an idle dal to sleep and wake it again with two   *)
(* requests to the daemon.  A client waits 30 seconds for an answer; the   *)
(* daemon's handler goes on without it.                                    *)
(*                                                                         *)
(* What becomes of a message is TellMessages, of a workflow                *)
(* IssueWorkflows: here they are answers.  Members are never woken         *)
(* (enforceWakeRules); DalLifecycle has the handlers in full.              *)
(***************************************************************************)
EXTENDS Integers, FiniteSets

CONSTANTS
  Teller,         \* the clients
  TellDal,        \* the dals they write to
  TellLeader,     \* the leader, one of them
  MaxContainer,   \* bound on the containers that are started
  MaxTellTrouble  \* bound on failed requests, failures of docker, lost patience

ASSUME TellAssumption ==
  /\ TellLeader \in TellDal /\ MaxContainer \in Nat \ {0} /\ MaxTellTrouble \in Nat

VARIABLES
  tell,       \* per client: where it is, and the dal it writes to
  request,    \* per client: what the daemon does for it, and on which container
  mapped,     \* per dal: Daemon.containers, 0 for none
  box,        \* per dal: the container of its name that runs, 0 for none
  started,    \* containers started so far
  idle,       \* the containers idle for autoWakeIdleThreshold
  tellTrouble

tellVars == <<tell, request, mapped, box, started, idle, tellTrouble>>
machine == <<mapped, box, started, idle>>

-----------------------------------------------------------------------------
NoRequest == [at |-> "none", on |-> 0]
Over == {"done", "failed"}

TellTypeOK ==
  /\ tell \in [Teller -> [at : {"new", "ps", "sleep", "wake", "hand", "direct",
                                "send", "ack", "flow"} \cup Over, dal : TellDal]]
  /\ request \in [Teller -> [at : {"none", "find", "stop", "delete", "check", "clean",
                                   "run", "register", "ok", "error"},
                             on : 0..MaxContainer]]
  /\ started \in 0..MaxContainer /\ idle \subseteq 1..started
  /\ mapped \in [TellDal -> 0..started] /\ box \in [TellDal -> 0..started]
  /\ tellTrouble \in 0..MaxTellTrouble

(* The leader is awake. *)
TellInit ==
  /\ tell = [t \in Teller |-> [at |-> "new", dal |-> TellLeader]]
  /\ request = [t \in Teller |-> NoRequest]
  /\ box = [d \in TellDal |-> IF d = TellLeader THEN 1 ELSE 0] /\ mapped = box
  /\ started = 1 /\ idle = {} /\ tellTrouble = 0

TellTrouble == tellTrouble < MaxTellTrouble /\ tellTrouble' = tellTrouble + 1

-----------------------------------------------------------------------------
(* The client. *)
Goes(t, place) == tell' = [tell EXCEPT ![t].at = place]

(* With --direct and --no-wake nothing is woken. *)
TellStarts(t) ==
  /\ tell[t].at = "new"
  /\ \E d \in TellDal, place \in {"ps", "send", "direct"} :
       tell' = [tell EXCEPT ![t] = [at |-> place, dal |-> d]]
  /\ UNCHANGED <<request, machine, tellTrouble>>
(* Another client is `dalcenter wake`. *)
WakeByHand(t) ==
  /\ tell[t].at = "new" /\ Goes(t, "hand")
  /\ request' = [request EXCEPT ![t] = [at |-> "check", on |-> 0]]
  /\ UNCHANGED <<machine, tellTrouble>>

(* autoWakeDal looks at GET /api/ps: the dal may not be there, or be busy. *)
TellLooks(t) ==
  /\ tell[t].at = "ps"
  /\ IF mapped[tell[t].dal] \in idle
     THEN /\ Goes(t, "sleep")
          /\ request' = [request EXCEPT ![t] = [at |-> "find", on |-> 0]]
     ELSE Goes(t, "send") /\ UNCHANGED request
  /\ UNCHANGED <<machine, tellTrouble>>

(* postWithAuth: the wake is asked for when the sleep was answered. *)
TellAsksWake(t) ==
  /\ tell[t].at = "sleep" /\ request[t].at = "ok"
  /\ Goes(t, "wake") /\ request' = [request EXCEPT ![t] = [at |-> "check", on |-> 0]]
  /\ UNCHANGED <<machine, tellTrouble>>
TellWoke(t) ==
  /\ tell[t].at \in {"wake", "hand"} /\ request[t].at = "ok"
  /\ Goes(t, IF tell[t].at = "wake" THEN "send" ELSE "done") /\ request' = [request EXCEPT ![t] = NoRequest]
  /\ UNCHANGED <<machine, tellTrouble>>

(* Mutant of TellRefused: a wake that is refused does not keep it from sending. *)
TellRefusedSends(t) ==
  /\ request[t].at = "error"
  /\ Goes(t, IF tell[t].at = "wake" THEN "send" ELSE "failed")
  /\ request' = [request EXCEPT ![t] = NoRequest]
  /\ UNCHANGED <<machine, tellTrouble>>
(* An error of either ends the tell; the message is not sent. *)
TellRefused(t) ==
  /\ request[t].at = "error"
  /\ IF tell[t].at \in Over THEN UNCHANGED tell ELSE Goes(t, "failed")
  /\ request' = [request EXCEPT ![t] = NoRequest]
  /\ UNCHANGED <<machine, tellTrouble>>

(* http.Client.Timeout: the client ends, the handler does not. *)
TellGivesUp(t) ==
  /\ TellTrouble /\ tell[t].at \in {"ps", "sleep", "wake", "hand", "direct", "send", "flow"}
  /\ Goes(t, "failed") /\ UNCHANGED <<request, machine>>
TellUnheard(t) ==
  /\ tell[t].at \in Over /\ request[t].at = "ok"
  /\ request' = [request EXCEPT ![t] = NoRequest]
  /\ UNCHANGED <<tell, machine, tellTrouble>>

(* sendViaBridge; --issue has no effect with it. *)
TellBridge(t) ==
  /\ tell[t].at = "direct" /\ Goes(t, "done")
  /\ UNCHANGED <<request, machine, tellTrouble>>
(* sendViaDalcenter, and whether to wait for the acknowledgment (--no-ack). *)
TellSends(t) ==
  /\ tell[t].at = "send" /\ \E place \in {"ack", "flow", "done"} : Goes(t, place)
  /\ UNCHANGED <<request, machine, tellTrouble>>
(* waitForACK: "acked" and five minutes without an answer go on, "failed"    *)
(* does not; then the workflow of --issue, if there is one.                  *)
TellWaited(t) ==
  /\ tell[t].at = "ack" /\ \E place \in {"flow", "done", "failed"} : Goes(t, place)
  /\ UNCHANGED <<request, machine, tellTrouble>>
(* triggerIssueWorkflow: one may be active already. *)
TellTriggers(t) ==
  /\ tell[t].at = "flow" /\ \E place \in Over : Goes(t, place)
  /\ UNCHANGED <<request, machine, tellTrouble>>

-----------------------------------------------------------------------------
(* The daemon, for the request of t. *)
Answers(t, a) == request' = [request EXCEPT ![t].at = a]

(* handleSleep: under the lock, without it, and under it again. *)
SleepFinds(t) ==
  /\ request[t].at = "find"
  /\ request' = [request EXCEPT ![t] =
       IF mapped[tell[t].dal] = 0 THEN [at |-> "error", on |-> 0]
                                  ELSE [at |-> "stop", on |-> mapped[tell[t].dal]]]
  /\ UNCHANGED <<tell, machine, tellTrouble>>
(* dockerStop stops and removes the container it was given, if it is there. *)
SleepStops(t) ==
  /\ request[t].at = "stop"
  /\ IF box[tell[t].dal] = request[t].on
     THEN \/ /\ Answers(t, "delete") /\ box' = [box EXCEPT ![tell[t].dal] = 0]
             /\ UNCHANGED tellTrouble
          \/ TellTrouble /\ Answers(t, "error") /\ UNCHANGED box
     ELSE Answers(t, "error") /\ UNCHANGED <<box, tellTrouble>>
  /\ UNCHANGED <<tell, mapped, started, idle>>
SleepDeletes(t) ==
  /\ request[t].at = "delete" /\ Answers(t, "ok")
  /\ mapped' = [mapped EXCEPT ![tell[t].dal] = 0]
  /\ UNCHANGED <<tell, box, started, idle, tellTrouble>>

(* handleWake: not a member, and not what is awake ... *)
WakeChecks(t) ==
  /\ request[t].at = "check"
  /\ Answers(t, IF tell[t].dal = TellLeader /\ mapped[TellLeader] = 0
                THEN "clean" ELSE "error")
  /\ UNCHANGED <<tell, machine, tellTrouble>>
(* ... cleanStaleContainer: docker rm -f of the name, even of one that runs ... *)
WakeCleans(t) ==
  /\ request[t].at = "clean" /\ Answers(t, "run")
  /\ box' = [box EXCEPT ![tell[t].dal] = 0]
  /\ UNCHANGED <<tell, mapped, started, idle, tellTrouble>>
(* ... dockerRun: refused when the name is taken ... *)
WakeRuns(t) ==
  /\ request[t].at = "run"
  /\ \/ /\ box[tell[t].dal] = 0 /\ started < MaxContainer
        /\ started' = started + 1 /\ box' = [box EXCEPT ![tell[t].dal] = started']
        /\ request' = [request EXCEPT ![t] = [at |-> "register", on |-> started']]
        /\ UNCHANGED tellTrouble
     \/ /\ IF box[tell[t].dal] = 0 THEN TellTrouble ELSE UNCHANGED tellTrouble
        /\ Answers(t, "error") /\ UNCHANGED <<box, started>>
  /\ UNCHANGED <<tell, mapped, idle>>
(* ... and after setupWorkspace it is registered. *)
WakeRegisters(t) ==
  /\ request[t].at = "register" /\ Answers(t, "ok")
  /\ mapped' = [mapped EXCEPT ![tell[t].dal] = request[t].on]
  /\ UNCHANGED <<tell, box, started, idle, tellTrouble>>

(* Half an hour without activity, which no request takes; and the other way  *)
(* a member comes to run: a reconcile after a restart of the daemon.         *)
HalfHour(d) ==
  /\ mapped[d] # 0 /\ \A t \in Teller : request[t] = NoRequest
  /\ idle' = idle \cup {mapped[d]}
  /\ UNCHANGED <<tell, request, mapped, box, started, tellTrouble>>
MemberRuns(d) ==
  /\ d # TellLeader /\ box[d] = 0 /\ started < MaxContainer
  /\ \A t \in Teller : request[t] = NoRequest
  /\ started' = started + 1 /\ box' = [box EXCEPT ![d] = started']
  /\ mapped' = [mapped EXCEPT ![d] = started']
  /\ UNCHANGED <<tell, request, idle, tellTrouble>>

TellNext ==
  \/ \E t \in Teller :
       \/ TellStarts(t) \/ WakeByHand(t) \/ TellLooks(t) \/ TellAsksWake(t)
       \/ TellWoke(t) \/ TellRefused(t) \/ TellGivesUp(t) \/ TellUnheard(t) \/ TellBridge(t)
       \/ TellSends(t) \/ TellWaited(t) \/ TellTriggers(t)
       \/ SleepFinds(t) \/ SleepStops(t) \/ SleepDeletes(t) \/ WakeChecks(t)
       \/ WakeCleans(t) \/ WakeRuns(t) \/ WakeRegisters(t)
  \/ \E d \in TellDal : HalfHour(d) \/ MemberRuns(d)

TellSpec == TellInit /\ [][TellNext]_tellVars

-----------------------------------------------------------------------------
Quiet == \A t \in Teller : tell[t].at \in Over /\ request[t] = NoRequest

(* However the sleeps and wakes of several tells come between each other,    *)
(* when they are over and none of them has reported an error, the leader is  *)
(* awake: a tell never takes it down in silence.                             *)
DownIsReported ==
  Quiet /\ (\A t \in Teller : tell[t].at = "done") => box[TellLeader] # 0
=============================================================================
