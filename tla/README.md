# A verification of the dalcenter daemon

dalcenter runs teams of AI agents, called *dals*, each in a docker container. One daemon per team
(`internal/daemon`) wakes and puts to sleep the containers, hands tasks to them, relays messages
between teams and watches over all of it with a dozen goroutines. Inside the containers `dalcli`
runs the agent loop. This directory holds TLA+ models of the daemon, their checks with TLC and
proofs about them with TLAPS.

Contents: [the system](#1-the-system), [what is modelled and how it corresponds to the
code](#2-the-modules), [the runs](#3-the-runs), [the proofs](#4-the-proofs),
[disagreements between code and comments](#5-where-the-code-and-its-comments-disagree),
[what is left out](#6-what-is-not-modelled), [the plan](#7-the-plan).

## 1. The system

Files are in `src/internal/daemon/` unless a directory is given. The daemon is one Go process: an
HTTP server with a goroutine per request, and the watchers started in `Daemon.Run`. They share
`d.containers` (under `d.mu`), the stores (each with a lock of its own and a JSON file) and docker.
Nothing else orders them: no handler holds a lock while it talks to docker, to a channel or to
another daemon, so whatever was read before such a call may be stale after it.

### Task execution (`task.go`, `task_oneshot.go`, `harness.go`, `queue_manager.go`, `task_limiter.go`)

*State.* `taskStore`: records by id with a status (`running`, `done`, `failed`), start and end time,
saved to `tasks.json`; the limiter's atomic counters per role; the containers map, read for the
dal's role. *Operations.* Creating a task (`handleTask`, `handleTaskStart`, one-shot, A2A, the issue
watcher, a message without a bridge), executing it (`execTaskInContainer`, `execTaskOneShot`),
reporting on one that `dalcli` runs itself (`handleTaskEvent`, `-Metadata`, `-Finish`), expiring it
(`expireStaleTasks`, every tick of the queue manager), evicting it (`taskStore.New` past 50).
*Hard.* `canAcceptTask` and `tasks.New` are two critical sections; executors write `tr.Status`
without the lock and do not save; the queue manager decides on one look and acts on a later one;
a restart reads a file that lags, and counts from zero while containers of the dead daemon may go on.
*Correct when* no more tasks of a dal run than its role allows, a daemon starts no more ephemeral
containers than its limiter allows, the counter never leaks, a task somebody works on
is not evicted, the file never runs ahead, an outcome is final, and every task settles.

### Tell (`message_store.go`, `message_ack.go`, `handleMessage` in `daemon.go`, `cmd/dalcenter/cmd_tell.go`)

*State.* The buffer of at most 200 messages, each `pending`, `sent`, `acked`, `failed` or
`timed_out` with a retry count; the sequence behind the ids; `messages.json`. *Operations.*
`handleMessage` buffers, posts, marks; `handleACK` marks; the watchdog collects timed-out messages,
counts a retry or gives up, and posts the pending ones again; the client polls for the
acknowledgment. *Hard.* Every status change is a critical section of its own and the post lies
between two of them, so an acknowledgment may overtake `MarkSent`, the watchdog may post what the
handler is just posting, ids are reused after a restart from a file that lags. *Correct when* a
message goes out a bounded number of times, a client told "acked" was acknowledged, an
acknowledgment is lost only where a step had already begun, every message ends, and open messages
are evicted last.

### JSON persistence (`persist.go`)

*State.* A file, its `.tmp`, the store's lock. *Operations.* `persistJSON`: marshal, create-truncate
`path.tmp`, write, rename; `loadJSON`. Called under the exclusive lock by most stores, from
goroutines that hold the lock shared by the message store. *Hard.* Two writers share one `.tmp`; a
crash or a full disk between any two steps. *Correct when* `path` always holds one whole version and
is replaced in one step.

### Dal lifecycle (`daemon.go`, `docker.go`, `registry.go`) and leader watcher (`leader_watcher.go`)

*State.* `d.containers`, one entry per dal; docker's containers, one per name; the registry file.
*Operations.* wake, sleep, restart, replace (HTTP), `runSync` (HTTP and the repository watcher),
`reconcile` (start and promotion); the leader watcher's check every 30 s, restart after three
failures, escalation after three restarts. Wake is for leaders only (`enforceWakeRules`); members
live on as containers of an earlier daemon, found by `reconcile`, and run one-shot otherwise.
*Hard.* Look-up, docker call and update of the map are three steps with `d.mu` released between
them, errors of docker are ignored in half of the places, and entries are deleted by name whatever
they have become. *Correct when* the map tells the truth about every dal nobody works on, and a dead
leader comes back.

### High availability (`ha.go`, `watcher.go`) and ops watcher (`ops_watcher.go`)

*State.* The configured role, `haState.promoted`, per peer watcher the consecutive failures and
`alerted`; per remote team the number of failed wakes. *Operations.* The health check of the peer,
promotion with its reconcile, demotion, `requireActive` before a request, the look at a remote team
and the wake of its leader. *Hard.* A standby that cannot see a living primary promotes itself and
both act on one docker; a demoted standby keeps its map; a request is admitted once and carried out
later; neither the leader watcher nor `runSync` asks for the role. *Correct when* a passive daemon
adopts nothing, a primary that stays away is replaced, one that is back is yielded to, and the
leader ends in one daemon's hand.

### Agent loop (`cmd/dalcli/cmd_run.go`, `circuit_breaker.go`, `self_repair.go`) and the daemon's provider circuit (`provider_circuit.go`)

*State.* The job, the tracked run, the breaker's state and count, the time of the last repair, the
workspace; in the daemon the active provider and its cooldown. *Operations.* Take a message or the
periodic task, ask both circuits, call a provider, repair and retry once, close the run, answer,
verify, branch, commit and open a pull request. *Hard.* Two circuits that do not know of each other;
asking the breaker changes it; the answer and the closing are two calls and either may be missed;
three gates decide about the same dirty tree; most calls have no time limit. *Correct when* an open
breaker shields the primary, run and channel agree, no source file is thrown away (it may be: section
5), and a job ends or hangs in a call.

### Bridge relay (`cmd/dalbridge/main.go`) and bridge client (`internal/bridge/matterbridge.go`)

*State.* The subscribers with a channel of 64 each, under a `RWMutex`; the client's buffer of 64.
*Operations.* Post, broadcast, subscribe, unsubscribe, filter and write; read, filter, buffer;
reconnect with backoff. *Hard.* A broadcast walks over the subscribers while requests end; a full
channel drops silently; what comes between two connections is gone. *Correct when* no closed channel
is written, order per poster is kept, every loss has a cause, and what a channel has taken arrives.

### Issues, workflows, notices

`issue_watcher.go` lists open issues, hands every new one to the leader and tracks it (200, in a
file); `issue_workflow.go` finds or creates a workflow (50, in memory) and runs its one-shot task;
`dalroot_notifier.go` and `scheduled_dalroot.go` announce closed issues, approved merges and a daily
summary, and record what was announced (500, in a file). *Hard.* Dispatch before track, announce
before record, find before create, caps that forget, and saves whose failure is a line in the log.
*Correct when* an issue is dispatched again only for every time it was forgotten, nothing is told
twice but for a crash that came before the file said so, and a second workflow for an issue is a
race and nothing else.

### Claims and credentials (`claim.go`, `credential_ops.go`, `credential_watcher.go`)

*State.* Claims (200) with status and answer, the cooldown per player and host. *Operations.* File,
respond, sync, resolve, sweep. *Hard.* The cooldown is taken before the sync and kept when it fails;
claims are dropped past the cap, numbers go on after the highest on file, saves may fail. *Correct
when* an answer by number never meets another claim and an expired credential is renewed in the end.

### Escalations, feedback, costs (`escalation.go`, `feedback.go`, `cost_tracker.go`)

Three bounded lists with their files, and the notice of an escalation with a cooldown taken before
the post. *Correct when* the channel learns of what keeps failing.

### Repository watcher (`repo_watcher.go`), pipeline (`pipeline.go`), tell client (`cmd/dalcenter/cmd_tell.go`)

The watcher pulls and acts on what that pull brought, which nobody remembers after a failure. The
pipeline maps panes to channels, saves after the unlock and ignores what the disk answers. `tell`
puts an idle dal to sleep, wakes it, sends, waits for the acknowledgment, then asks for the
workflow; several tells may do so at once.

### Without state worth a model

Subtree sync and webhook (git commands; a reply with a post), the A2A facade (creates tasks), the
leader's CLI, profiles and skills (CUE files and templates), the other commands and the TUI, the
HTTP client, paths, soft-serve, the provider's subprocess.

**How they interact.** A client's request enters by HTTP. A *tell* (`TellClient`, a client of the
sleep and wake handlers of `DalLifecycle`) becomes a post to the bridge (`TellMessages` over
`BridgeRelay`), or a task when there is none; the agent loop takes it (`AgentLoop`) and reports on
its run to the task store (`DalTasks`); an issue becomes a task of the leader (`IssueWatcher`) or a
one-shot one (`IssueWorkflows`); a task reads the containers map, which the lifecycle keeps; the
leader watcher, the repository watcher and a promoted standby act on the same containers as the
handlers; every store ends in `persistJSON`. `Restart`, `Reboot` and the `...Crash` actions are the
same event: the process dies, its goroutines are gone, docker and the files are what remains.

## 2. The modules

| Module | Models | Checked in | Proved in |
|---|---|---|---|
| `TaskLimiter` | `task_limiter.go`, one role | `tasks` | `DalTasks_proofs` |
| `DalTasks` | the life of a task; EXTENDS `TaskLimiter` and takes part in its steps | `tasks` | `DalTasks_proofs` |
| `TellMessages` | message store, handler, watchdog, receiver, waiting client | `tell_live`, `tell_crash` | `TellMessages_proofs` |
| `SavedFile`, `PersistJSON` | the file replaced in one step; `persistJSON` by system calls, which implements it | `persist` | `PersistJSON_proofs` |
| `DalLifecycle` | containers, map, handlers, leader watcher | `lifecycle`, `lifecycle_live`, `lifecycle_lost` | `DalLifecycle_proofs` |
| `HAFailover` | two daemons on one docker, and the ops watcher | `ha` | `HAFailover_proofs` |
| `AgentLoop` | `dalcli run`, breaker, provider circuit, repair, git gates | `agent`, `agent_gate` | `AgentLoop_proofs` |
| `BridgeRelay` | broker, streams, reconnecting client | `bridge` | `BridgeRelay_proofs` |
| `Books` | a store's memory and its file, and a save that fails | `errands` | `Errands_proofs` |
| `IssueWatcher` | poll, dispatch, track | `errands` | `Errands_proofs` |
| `IssueWorkflows` | the workflow store and the life of a workflow | `errands` | `Errands_proofs` |
| `DalrootNotices` | closed issues, merges, summaries | `errands` | `Errands_proofs` |
| `CredentialClaims` | claims and credential syncs | `errands` | `Errands_proofs` |
| `TellClient` | the client of `tell` | `errands` | `Errands_proofs` |
| `Pipeline` | panes, channels, overlapping saves | `errands` | `Errands_proofs` |
| `RepoWatcher` | pulls and what they ask for | `errands` | `Errands_proofs` |
| `Ledgers` | escalations, feedback, costs | `errands` | `Errands_proofs` |
| `MCErrands` and the other `MC*` | the small instances | | |

### TaskLimiter

`Acquire` is an atomic add followed, past the maximum, by an atomic subtract; `Release` subtracts
and, below zero, stores zero. Each instruction is an action (`Add`, `Admit` or `Reject`, `Release`,
`Clamp`), `stage[t]` is where a goroutine stands, `counter` is the counter. The limiter of one role
is modelled, roles do not share anything.

### DalTasks

`pc[t]` follows the goroutine that owns request `t`: `idle`, `listed` (`canAcceptTask` has listed),
`accepted`, `created` (`tasks.New`), `gating` (`preTaskGate` has listed), `gated`, `acquiring`,
`executing`, `releasing`, `clamping`, `over`; `tracked` is a task that `dalcli` runs elsewhere.
`status` is the record's status in memory, `disk` the one last saved: `Finish` and `Complete`
show the difference between off-lock writes and saving ones. `snap[t]` is the list that its last
`tasks.List()` returned; the statuses are read later, one by one, and every count that reading can
give is the count at some single moment because statuses only leave `running`. Time is a rank:
`born` and `horizon` say which tasks are older than the expiry. A dal may be woken or put to sleep
at any time (`SetAwake`); `DalLifecycle` says how. `Ephemeral` are the containers of one-shot tasks
that the daemon waits for. When it dies, `docker run --rm` goes on without it for any of them
(`Abandoned`), and its successor's limiter starts at zero: `orphans` are the containers nobody counts,
until they exit (`OrphanExits`). `Dispatch` covers the callers that create a task
without `canAcceptTask` (one-shot, A2A, issue watcher, messages), including a one-shot request that
names a role other than its dal's.

### TellMessages

A step is a critical section of `messageStore.mu` or a post. `pc` is the handler of each message,
`wd` and `batch` the watchdog and what it still has to treat, `tell` what the waiting client
knows, `confirmed` who has acknowledged. `persistAsync` writes some earlier buffer at some later
time (`Persist`), `Restart` loads it. A post that returns an error has delivered nothing.

### PersistJSON and SavedFile

`tmp` and `file` are what the two names point to, `content` what is in each inode. `kind` says how
the store calls: `exclusive` (under the lock), `spaced` (the message store as long as saves do not
overlap), `overlapping` (the message store as it is). `SavedFile` only knows the version in memory
and the version on file.

### DalLifecycle

`box[d]` is the container docker has under the dal's name, `reg[d]` the id in `d.containers`. A
handler is a record: its operation, its next step, the dal, the id it has looked up (`seen`), the id
it has started (`made`), the wakes `handleReplace` still owes (`left`) and the rest of `runSync`'s
snapshot (`todo`). The steps of a wake (`check`, `clean`, `run`, `set`) are shared by wake, restart
and replace as `handleWake` is in the code, the steps `run` and `set` by `runSync`. A docker call
succeeds or fails in every way that leaves docker consistent: a failed stop may have stopped and not
removed, a failed run may have created and not started, a run fails while the name is taken.
`w` is the leader watcher with its `leaderHealth`. `Reboot` kills all of them and reconciles, with
any subset of the running containers missed (docker does not list them, or a `dal.cue` is unreadable).

Two variables are history: `clashed` holds the dals on which operations overlapped that undo one
another (a restart, a replace or a recovery with anything; a wake with a wake), `slipped` those
where an ignored docker error left a container behind. The claims are made for the others. They are
strong nevertheless: sleeps, syncs and one wake may overlap in any order (checked with three at a
time). Why that is so, although each of them looks up, releases the lock, calls docker and updates
by name: docker removes a container once, so of several operations that stop the same container one
goes on; as long as it has not deleted the entry `handleWake` answers 409; and `runSync` finds out
that the container of its snapshot no longer exists.

### HAFailover

The team is its leader's container, `box`. Each daemon has its own entry `reg[d]`: none, the
container under the name, or one that is gone. `req[d]` is a request between `requireActive` and its
effect, which is where a demotion can come between. `peer[d]` counts failed checks up to the
threshold and remembers the alert; `promoted` and `adopting` are the standby's, the second for the
reconcile that follows a promotion. `link` cuts the health checks. The leader watchers of both sides
run whatever the role. The ops watcher looks (`OpsLook`) and acts later on what it saw (`OpsWake`).

### AgentLoop

`pc` follows `runAgentLoop` and `executeTask`; `x` holds what `executeTask` has in local variables,
`cb` the breaker with a flag for "cooldown over", `central` the daemon's circuit, `run` the tracked
run and `sent` what the channel was told of the job. A dal has a provider of its own and perhaps a
fallback; the daemon's circuit knows claude and codex, whoever asks (`Named`). The run is closed
(`GiveUp`, `Reply`) and then the answer is posted (`Apologize`, `Answer`): two steps, between which
the process may die, and each of which may fail with a line in the log. `cut` and `muted` remember
that the one or the other did not come about. `ws` is the workspace by kinds of change, which are
what the gates of the git workflow tell apart: source files, source whose path `git status` puts in
quotes, a new directory listed as one line, `docs/`, `.dal/`, artifacts, others; modified or new.
`Hang` is a call that does not return, `Return` one that does after all. `World` is what happens
outside: cooldowns end, another dal trips the circuit, the daemon goes and comes, the dal's
container crashes. A member without a bridge lives on its periodic task.

### BridgeRelay

A message is its poster and a number. `rest[p]` are the subscribers a broadcast has still to visit
while it holds the lock shared; `sub[c]` is a subscription with the two steps of its end (removed
under the lock, closed after it); `queue`, `line` and `inbox` are the channel, the connection and the
client's buffer. A full channel takes no further message, a full inbox gives up its oldest.

### The parts of MCErrands

*Books:* what a store holds in memory, and its file. A save replaces the file (`Saved`) or leaves it
as it was (`Unsaved`), and nobody hears of it. *IssueWatcher:* `todo` holds what the poll has still
to look at, newest first (`NextIssue`), `handled` the issue between dispatch and tracking.
`dispatches` and `forgotten` are history: how often the leader got an issue, and how often a cut
dropped it or a crash came while the file did not have it. *IssueWorkflows:* a request has `looked`,
then creates; `missed` is history, the active workflows when it looked. *DalrootNotices:* `round`
and `cycle` are the two loops; a notice is a file named after a millisecond, so `fate` says whether
it was written or over-written. What the round does is decided on the list it took (`round.fresh`).
*CredentialClaims:* `handler` is a claim's request, `sync` the goroutines it starts, `cooling` the
cooldown, `valid` the credential, `filed` history: the numbers that were ever on file. *TellClient:*
a client's place and, apart from it, what the daemon does for it, since a client loses patience and
the handler does not. *Pipeline:* `persist` by its steps, `call[c]` the request that is at it.
`PaneStores` waits while a save writes: that is the `RWMutex`. A write may fall short and a rename
fail (`SaveWritesShort`, `SaveStaysTmp`); `spoiled` remembers it until a save begins with no other
under way. *RepoWatcher:* `pulled` is what a pull has still to cause, `lost` history of what was cut
off from its pull. *Ledgers:* `waiting[k]` is the cooldown of a notice.

The eight share no variable, so a behaviour of the system is an interleaving of theirs, each
property is about one of them, and every step of another leaves it unchanged. `MCErrands` therefore
lets one part run (`part`) and the others rest, and joins their fairness: a part at rest enables no
fair action. Each is thereby checked on its whole state space at the cost of a sum, not a product.
What they would say to each other is an input here: the leader an issue goes to comes and goes
(`LeaderTurns`), a sync asked for by a pull is done or fails (`RunSync`).

## 3. The runs

All of them end in an exhausted state space (except where a violation is expected). The constants
named `Max...Trouble`, `MaxRestarts`, `MaxVersion`, `MaxPosts`, `MaxContainer`, `MaxId`, `MaxDay`,
`MaxRevision`, `MaxCost`, `MaxKinds` and the sizes of the sets bound the exploration; the others are
the code's, made small.

| Run | Instance | Question and answer |
|---|---|---|
| `tasks` | two tasks of any kind on a leader and a member, limits of one, a store of one, one restart | Do gate and limiter bound what runs (`GateBound`, `OneshotBound`), is a task somebody works on kept (`LiveTaskKept`), are outcomes final in memory and on file (`OutcomeFinalWhileFresh`, `SettledOnFileStaysSettled`), does every task settle (`EveryTaskSettles`)? Yes. |
| `tell_live` | two messages, room for one, one retry, one waiting client | What is an acknowledgment worth (`AckIsTrue`, `AckLostOnlyInFlight`), does every message end (`EveryMessageEnds`)? |
| `tell_crash` | two messages and one restart from any earlier buffer, or three messages, no restart and no timeouts, with room for two | Is redelivery bounded through a restart (`DeliveriesBounded`), is an open message evicted last (`OpenEvictedLast`)? Yes. |
| `persist` | three writers, three versions of different sizes, two restarts, locked or spaced saves | Is the file whole (`FileWhole`) and replaced in one step (`AtomicSaves`, the refinement of `SavedFile`)? |
| `lifecycle` | a leader, a member, three handlers, threshold and retries 1 | Does the map stay true (`TruthfulMap`), does the clean-up before a wake spare what runs (`CleanSparesRunning`)? Yes, outside clashes and slips. |
| `lifecycle_live` | a leader, one handler that may hang, threshold 3, two retries | Is a dead leader restarted, or has its recovery failed (`DeadLeaderHandled`)? |
| `lifecycle_lost` | a leader, one handler that may never come | Is a failed recovery escalated (`RecoveryFailureEscalates`)? **No:** section 5. |
| `ha` | two daemons, thresholds of the code (3), five disturbances | Does a passive standby stay passive (`PassiveGetsNothing`), take over (`StandbyTakesOver`) and yield (`StandbyYields`), and does the leader end in the primary's hand although both maps were acted on (`ControlReturns`)? Yes. |
| `agent` | four kinds of dals, the code's threshold and retries (3), workspaces with at most one kind of change, one disturbance | Is the primary spared while the breaker is open (`PrimaryShielded`), do run and channel agree (`RunMatchesAnswer`), does a job end or hang (`JobEnds`)? Yes. |
| `agent_gate` | the same dals, no disturbance | Does source code leave the workspace in a commit only (`CodeLeavesByCommit`)? **No:** section 5. |
| `bridge` | two listening dals, one of which posts three times, a foreign poster, channels and buffers of two, one break or restart | Does no broadcast meet a closed channel (`NoSendOnClosed`), is the order kept (`PosterOrder`), has a loss one of the known causes (`LossExplained`), does what a channel took arrive (`ReachesInbox`)? Yes. |
| `errands` | the eight parts of `MCErrands` | Each with its failures and restarts: is an issue dispatched again only for every time it was forgotten, and the list settled (`DispatchesBounded`, `WatcherSettles`), are two workflows of one issue a race only (`OverlapIsARace`), is a notice given once (`ToldOnce`), are claims' numbers never reused and do credentials come back (`NumbersMoveOn`, `CredentialRefreshed`), does no tell take the leader down in silence (`DownIsReported`), is every registered pane kept (`RegisteredIsKept`), does main reach the dals and the panes (`MainArrives`), does a notice get through (`NoticeGetsThrough`)? Yes, with the exceptions the properties name. |

**Why the bounds suffice.** *Tasks:* a race of gate and creation needs two tasks and a limit of one;
eviction needs a store of one, expiry and a restart one of each. Two tasks cannot exceed a member's
limit of two, so both limits are one; that the bound holds for every pair of limits is proved.
*Tell:* an eviction that has a choice needs three messages, everything else is about one message and
its rival for the watchdog: two. `tell_crash` asks both (`question`); its view leaves out what the
receiver and the client know, which no step and no question there reads. *Persistence:* a writer
that truncates, one that renames and one that comes later. *Lifecycle:* a sleep, a sync and a wake
on the same dal need three handlers; a sync that moves on needs two dals. `lifecycle` stops after a
clash or a slip (`Undisturbed`): with the claims void for that dal nothing is left to check until
the daemon starts again, and it starts as from an initial state, all of which are explored. Its view
(`UpToIds`) reduces an id to "none", "the container under the name" or "another one", which is all
any step looks at. *HA:* a failover and a way back take a crash or cut and its end, a request caught
by it and a leader that dies: five disturbances leave one to spare. *Agent:* a trip of the other
circuit, a crash, an absent daemon or a call that hangs is one disturbance; failures of the
providers, of posts and of git are not counted among them and come without bound. *Bridge:* a third
message meets a full channel, and a message that is filtered out comes before one that is not; order
needs one poster that overtakes itself on the next connection. *Errands:* each store has room for
one or two and one entry more than that; the trouble counters admit a failure, and a crash that
meets it (for an issue, a third thing as well: one that was cut, or that is opened again, while its
save has failed).

**Symmetry** is declared over messages, writers, inodes and handlers in runs without liveness
properties; they are interchangeable there and `CHOOSE` in the models never depends on their names.
`AtomicSaves` is an implied `[Next]_vars`, which symmetry does not disturb.

**Deadlock** is checked except in `ha`, `bridge` and `errands`: there the system comes to rest when
the disturbances are used up.

**Fairness.** Only what the programs drive themselves is fair. `DalTasks`: time passes and the queue
manager's ticker fires; no executor, handler or client owes anything, so `EveryTaskSettles` holds
though containers hang. `TellMessages`: time passes, the watchdog and a handler that has posted go
on (weak), and the channel, asked again and again, accepts a post some time (strong, on `Replay`):
without it a message stays pending for ever, because a failed replay does not count a retry. Nobody
owes an acknowledgment. `DalLifecycle`: the watcher's goroutine goes on, which includes that docker
answers it, with an error if it likes; a handler may hang in docker for ever. `HAFailover`: the
watchers of a running daemon tick, an admitted request is carried out, the network heals, a standby
is started again; the primary may stay away. `AgentLoop`: the loop goes on as long as its calls
return (weak). Whether they do is not assumed, since only providers run under a timeout: a call may
hang for a while or for ever, and `JobEnds` says that a job ends or is in such a call; nothing is
owed by the world. `BridgeRelay`: the relay's writer of a stream and the client's reader go on
(weak); neither posters, nor the agent loop, nor a connection that comes back is assumed.
`CredentialClaims`: time passes, goroutines run, a sync's commands end (weak), and the watcher asks
again and again between the cooldowns others take (strong). `IssueWatcher`, `RepoWatcher`,
`Ledgers`: the loop polls, a handler that has begun ends, time goes on (weak). `IssueWorkflows`,
`DalrootNotices`, `TellClient` and `Pipeline` claim no liveness: a one-shot container runs without a
timeout, a notice that fails is not repeated, a client gives up.

**Every property can fail.** For each property of each run there is a variant of one definition, named
next to it in the module ("Mutant of ..."), that makes a plausible mistake in the code it models, such as
a dropped guard, an off-by-one or a forgotten undo, and under which TLC finds the property violated.
The variants are not part of any specification.

## 4. The proofs

Eight modules prove for every value of the constants what the runs show on small ones: every
safety property of every passing run, invariant or action property, is a theorem. The assumptions are
those named in the modules (`LimiterAssumption`, `TasksAssumption`, `MessagesAssumption`,
`PersistAssumption`, `HAAssumption`, `AgentAssumption`, `IssueAssumption`, `FlowAssumption`,
`PaneAssumption` and so on): finite sets, positive limits, names that are distinct, enough files for
the saves under way. An inductive invariant was checked by TLC on the instance of its run before it
was proved.

| Theorems | Properties of the runs they state |
|---|---|
| `DalTasks_proofs`: `GateBounds`, `OneshotBounds`, `StoreKept`, `SettledForGood`, `FirstOutcomeStays` | `GateBound`, `OneshotBound`, `LiveTaskKept`, `SettledOnFileStaysSettled`, `OutcomeFinalWhileFresh` |
| `TellMessages_proofs`: `PostsAreBounded`, `AckReceivedIsTrue`, `AckKept`, `CompletedGoFirst` | `DeliveriesBounded`, `AckIsTrue`, `AckLostOnlyInFlight`, `OpenEvictedLast` |
| `PersistJSON_proofs`: `SpacedFileWhole`, `SpacedRefines` | `FileWhole`, `AtomicSaves` |
| `DalLifecycle_proofs`: `MapIsTruthful`, `CleanIsSafe` | `TruthfulMap`, `CleanSparesRunning` |
| `HAFailover_proofs`: `StandbyStaysPassive` | `PassiveGetsNothing` |
| `AgentLoop_proofs`: `PrimarySpared`, `OneStory` | `PrimaryShielded`, `RunMatchesAnswer` |
| `BridgeRelay_proofs`: `NeverPanics`, `InOrder`, `NothingLostUnseen` | `NoSendOnClosed`, `PosterOrder`, `LossExplained` |
| `Errands_proofs`: `DispatchBound`, `OnlyARace`, `NotToldTwice`, `NumbersNeverReused`, `NoSilentDown`, `RegistrationKept`, `TypesHold` | `DispatchesBounded`, `OverlapIsARace`, `ToldOnce`, `NumbersMoveOn`, `DownIsReported`, `RegisteredIsKept`, `TypeOK` |

*TaskLimiter* (the first part of `DalTasks_proofs`). `HoldersBounded` is not inductive: it needs
that the counter equals the number of goroutines between their add and their subtract
(`CounterExact`), hence never drops below zero (`ClampIdle`), so that the store of zero in `Release`
never erases a concurrent add. A goroutine that was admitted saw a counter of at most the maximum,
and from then on it is counted. `LimiterInv` is the conjunction; `LimiterBound` and `LimiterExact`
follow.

*DalTasks.* `TasksInv` has four parts. `StoreInv`: a request whose task is not created has left no
trace, the file lists the store, what is settled on file is settled in memory, a live task is in the
store. `GateInv`, the argument behind the "double safety" of `preTaskGate`: the check in
`canAcceptTask` proves nothing, since two requests can pass it together. But creation times are
distinct, a task lists after it was created, and so it sees every running task of its dal that is
older (`GateSees`); older ones never come back, so when it passes fewer than `limit` of them run,
and this stays so (`GateCounted`). Of the admitted tasks take the youngest: all others are older and
running, so fewer than its limit. That is `GateBound`; it takes the choice of a maximum (`Youngest`,
from the well-foundedness of `<` on naturals) and nothing about how many tasks there are. `SlotHeld`
ties `executing` to the limiter's `holding`, so at most the maximum are executing (`EphemeralFits`),
and a daemon that dies adds at most as many to the orphans (`OrphansFit`): that is `OneshotBound`.
`SettledForGood` is the action property that a task the file records as settled never runs again,
for which `FileNeverAhead` is needed: the restart replaces memory by file. `TasksImplementLimiter`
shows that the executors drive the limiter as its own specification says (a refinement by the shared
variables), and `SlotsBound` carries the limiter's claims over to the composition through it.

That an outcome is final (`FirstOutcomeStays`) is a race of three writers without a common lock: the
owner of a task, the queue manager, which decides on one look and writes on a later one, and a
restart. `FreshInv` keeps them apart by age: who still owes the outcome finds the task running, or it
is stale (`OwnersRun`), and whatever the queue manager is about to complete is stale and stays so,
since time only adds to it (`DoomedIsStale`). For a tracked task, whose client outlives the daemon,
this needs the store's promises once more: running, it was in the store, so the file has it, and not
as settled.

*TellMessages.* The bound on deliveries is an argument by a budget. `Spent` adds to the posts of a
message those that are still to come: one if its handler has not posted, one per retry that is left,
one if the watchdog may replay it without counting a retry (`Replayable`: it is pending, or in the
batch that is being posted). Within one life of the daemon no step lets it outgrow the budget; a
restart gives back at most the retries and one (`Share`), since the file may be as old as it likes.
`AckIsTrue` needs that an id names one message (`Named`), which holds until the buffer has been lost
once; the theorem says so (`restarts = 0`), as does the comment of the property, and the run that
checks it has no restart. The two action properties follow per action: `AckLostOnlyInFlight` from what a
handler or a watchdog has read of the message it overwrites, `OpenEvictedLast` from the choice of
the eviction.

*PersistJSON.* `PersistInv` says that at most one writer is between open and rename, that what it has
open is what `path.tmp` names, and that `path` names another inode which is whole. From it
`SpacedFileWhole` (the file is whole) and `SpacedRefines` (every step is a step of `SavedFile` or a
stutter, the rename being the replacement), both assuming that saves do not overlap (`NoOverlap`). The
assumption is the point: section 5 says what happens without it.

*DalLifecycle.* `IInv` says of every dal without a clash or slip (`Good`): the operations on it are
in company that tolerates them (`Courteous`); what each step knows of docker and of the map
(`Stage`, one clause per step: who has started a container and not yet stored it, say, has it under
the name, while the map has another entry or none); the same for the leader watcher (`WatchStage`);
and what a running `runSync` has in its snapshot is registered or is being restarted (`Mapped`). The
heart of it is that at most one handler is `Busy` with a dal, though several may be *about to stop*
what they saw: they looked it up, released the lock and may be late. Those are harmless, because
docker stops a container once: of them the first becomes busy, the others find it gone and give up.
With nobody busy the map is truthful (`Truthful`), which is `TruthfulMap`. `CleanIsSafe` reads off
the stage of the clean-up that nothing is registered there. The proof goes by action; its lemmas are
the ways in which a step can touch a dal: somebody turns to it (`Arrival`), the one who is busy goes
on (`BusyStep`), the watcher does (`WatchStep`), or it happens elsewhere (`Elsewhere`). That there
is always an id nobody holds (`NewIdIsNew`) is a count of those who may hold one.

*HAFailover.* That a passive standby adopts nothing is an action property, and follows from an
invariant about promotion: a standby in charge, and one that is adopting, has alerted with its
failures at the threshold (`PromotedIsAlerted`), so the next check that gets through demotes it, and
the reconcile of a promotion never runs after the demotion. Each of the other steps that can set the
standby's entry needs an entry to be there already, or a wake admitted before (`StandbyStaysPassive`).

*BridgeRelay.* A message is its poster and a number, and its way leads through four places: the
broadcast that has still to bring it, the subscriber's channel, the connection, the client's buffer.
`Ordered` says that a poster's numbers rise within each of the three sequences and from the buffer
to the connection to the channel, `Numbered` that all of them are above what the client has taken
and no higher than what was posted or accepted; a broadcast that has still to reach a client is of a
number nobody there has. From that `PosterOrder`; a client that reconnects sees nothing twice
because what it has taken is below all that may come. `LossExplained` is carried along
(`Explained`). That no closed channel is written (`NeverPanics`) is due to the broadcasts under way
being to subscribed clients only: `unsubscribe` takes the lock.

*IssueWatcher.* An issue has been handed out at most as often as it was forgotten, plus one if it is
tracked in memory or is the one being handled (`KnownOrForgotten`); it is handed out only while it
is neither, and what takes it out of memory is a cut or a crash, which counts. A failed save makes
the file lag, so a crash may also bring back what had been cut, which is no harm. That the poll's
list is no longer than its limit takes a lemma on finite sets of numbers (`GreatestIn`: such a set
has a greatest member, else there were a smallest set without one).

*DalrootNotices.* What was announced is marked in memory, what was posted today is the last
summary in memory. The file may lag, or its save may fail; a crash that comes then forgets what it says
nothing of, and telling that again is exempt by name.

*CredentialClaims.* No number in memory is above the sequence, and the last one given is there
(`HighestInMemory`), so every save brings it to the file. A claim once on file may have been dropped
when the daemon restarts; its number is not given again, because what the file has now has a number
at least as high (`HighestOnFile`), from which the numbering goes on.

*TellClient.* `DownIsReported` is about clients that give up while the daemon still works for them.
`Fits` relates a client's place to its request's, and `DownIsOwed` says that a leader that is down is
owed by a client that has still to wake it or to hear that it is not (`Owes`), or was reported by one
that failed.

*RepoWatcher, Ledgers.* Type correctness, which holds the order of revisions (nothing that runs is
ahead of the working tree), the bounds of the lists in memory and on file, and the distinct numbers
of costs.

*The parts together.* `PartsTogether` proves that a behaviour of `MCErrands` is one of each part,
fairness included, which is the reason given in section 2 for checking them side by side.
`TypesHold` and `PromisesTogether` carry the parts' results over.

*IssueWorkflows.* `OverlapIsARace` needs two facts. A workflow that has not ended can be found,
however many came after it, because `Create` cuts ended ones only (`ActiveIsStored`), which takes
lemmas on removing from a sequence. And what a request missed when it looked is about another issue
(`MissedIsOther`): a workflow of its own issue would have been found and the request refused.

*AgentLoop.* `AgentInv` holds the types, that a message has a text, the breaker's count
(`BreakerCounts`: closed if and only if below the threshold), `PrimaryShielded`, and for
`RunMatchesAnswer` the state of the run while a job is worked on (`StoryOpen`): open until a step
closes it, and closed in the step that goes to the answer of the same kind, or by the repair, or left
open by a daemon that was away; that it is closed without an answer only where `muted` says so follows
from the two steps. There is one lemma per conjunct, with a step per action.

*Pipeline.* The saves share `path.tmp`, truncate what another has written and rename what another
has not yet written; a file may be torn in between. That once they are over it holds every
registered pane (`RegistrationKept`) is due to the read lock: nothing is registered while a save
writes, so all of them write the same (`SnapshotIsCurrent`). A file is good if it holds the panes or
a save that has it open will write them (`PaneHolds`); `path.tmp` is good while a save is past its
open (`TmpHolds`), and while `path` is not good, somebody will rename such a `path.tmp` (`Mended`).
All this is claimed unless `spoiled`: a save that fails voids it, and one that begins with no other
under way, and does not fail, establishes it anew.

*Only model-checked:* the liveness properties (`EveryTaskSettles`, `EveryMessageEnds`,
`DeadLeaderHandled`, `StandbyTakesOver`, `StandbyYields`, `ControlReturns`, `JobEnds`, `ReachesInbox`,
`WatcherSettles`, `CredentialRefreshed`, `MainArrives`, `NoticeGetsThrough`), since fairness and
`ENABLED` are out of the prover's reach. Of `persist` the theorems are about saves that do not overlap,
as is the run; of `AckIsTrue` about a daemon that was not restarted, as is its run.

## 5. Where the code and its comments disagree

**A leader is lost after one failed restart** (`lifecycle_lost`). `restartLeader` removes the leader
from the map (`leader_watcher.go:162`) before it runs the new container. If that fails, because
docker does or because the failed stop before it left the name taken, `findLeader` finds nobody at
the next tick, and the watcher reports healthy. The comment (`leader_watcher.go:31`): "On recovery
failure, it escalates to dalroot via the escalation system." What does hold: a dead leader runs
again, or this has happened, or somebody took it out of the map (`DeadLeaderHandled`).

**Source files are thrown away** (`agent_gate`). When no line of `git status` ends in one of seven
suffixes or begins with `docs/`, `autoGitWorkflow` undoes every change of a tracked file with
`git checkout -- .` (`cmd_run.go:934`). The comment (`cmd_run.go:864`): "Gate 3: no real code files
(*.go, *.rs, *.md in .dal/) → skip"; the one above the checkout calls what is undone by-products. A
changed Markdown file under `.dal/` has none of the suffixes, and a changed source file whose path git
puts in quotes, for a blank or a letter outside ASCII, ends in the quote: both are lost. (A new
directory is listed as one line and hides the source in it as well, but what git does not track stays.)

Met while modelling, and described here only.

*Tasks and tells*

- A leader executes two tasks: `expireStaleTasks` marks a running task failed
  (`queue_manager.go:50`) and leaves its executor alone; the gate counts statuses. The comment
  (`queue_manager.go:13`): "maxRunningLeader is the max concurrent running tasks for a leader dal."
  `GateBound` counts tasks that run by their status.
- A one-shot request names its own role and is gated by it, so a leader can be given two at a time;
  `GateBound` is stated per limit for this reason.
- After the daemon's death more ephemeral containers run than the limiter's maximum: those of the dead
  daemon go on and the new one counts from zero, where `task_limiter.go:9` says that it "controls
  concurrent task execution per-role". `OneshotBound` bounds both kinds apart.
- An acknowledged message may be sent again: `MarkSent` (`message_ack.go:140`) overwrites an
  acknowledgment that came before the post returned, where `message_ack.go:71` says the watchdog
  checks for messages that "were sent but never acknowledged". What holds is `AckLostOnlyInFlight`.
- An id of a message may be given twice when `messages.json` lags at a crash. A message saved as
  `timed_out` whose `IncrRetry` the crash swallowed stays so.
- `deliverMessage` without a bridge posts nothing and marks the message sent (`message_ack.go:132`;
  `message_store.go:28` calls `sent` "delivered to channel/container").
- Two background saves of the message store may share `path.tmp` (`message_store.go:201`), and one
  may rename what the other has just truncated; `persist.go:23` says "atomically". It is atomic when
  saves do not overlap.
- A tell on an idle member puts it to sleep, the wake is refused (403) and the message is never
  sent. `waitForACK` "performs auto-wake + retry up to maxTellRetries times" (`cmd_tell.go:461`):
  it does not, and the constant is unused. The workflow is asked for although the acknowledgment
  timed out; with `--direct --issue` it is not asked for. Of two tells on one idle leader the second
  may fail with the first's stop; it says so, which is what `DownIsReported` checks.

*Containers and roles*

- `handleReplace` says it "Creates 2 new instances from template, then sleeps the original"
  (`daemon.go:680`). Both wakes carry the name of the original, which is still registered, and are
  refused with 409; then the original is stopped. A replace is a sleep that answers "replaced".
- Members are not woken. `enforceWakeRules` refuses every wake of one (403), where `README.md:323` has
  `dalcenter wake dev`, `README.md:351` "`dalcli-leader wake <dal>` # wake team member", and
  `README.md:370` a wake flow for `dev`. `handleRestart` "stops a dal, removes container, and wakes
  fresh" (`daemon.go:656`); for a member the wake after the stop is refused: the member is gone until a
  daemon finds a container of it.
- The wake of a remote team is retried at every tick of the ops watcher. `rules.go:104` says "After 3
  consecutive failures for same team, stop retrying" and `rules.go:114` "alerting only, no more
  retries"; the error is logged and the next tick tries again. That the leader comes back in the end
  (`ControlReturns`) relies on it: with the retries stopped nobody would wake a team whose docker failed
  three times.
- Two wakes of one leader may both pass the 409 check; the second removes the first's container by
  name. The map ends up right; the first container's work is lost.
- In `handleWake` the channel rules stand after a `return` and are never enforced; the member limit is
  unreachable for members.
- A demoted standby keeps its map, and its leader watcher may still start a container
  (`watcher.go:96`).

*Agent loop and bridge*

- A change in `.dal/` alone passes no gate: `TrimSpace` (`cmd_run.go:897`) eats the leading blank of
  the first line of `git status`, and the prefix test of the first gate (`cmd_run.go:875`) fails.
- The posts to the daemon (`cmd_run.go:1181`, `cmd_run.go:1205`, `self_repair.go:194`,
  `self_repair.go:227`) and the commands of git, gh, go and npm run without a time limit: a job may hang
  in one of them, and the dal with it.
- The run is closed first and answered afterwards, and a post that fails is only logged: a run may be
  closed as done, or failed, of which the channel never hears (`muted`).
- A circuit meant for dals of claude also moves dals of codex, the other way round: as long as nothing
  has failed the daemon names claude, which is a codex dal's fallback, and
  `shouldUseCentralOverride` (`cmd_run.go:1322`) takes it at once; after a trip it runs codex, which has
  reached its limit perhaps itself. `provider_circuit.go:13` says that "ALL dals switch to fallback".
- A `Trip` of the daemon's circuit during the fallback whose cooldown is over ends the fallback
  instead of prolonging it; the limit of automatic issues counts in a tumbling window.
- `Connect` probes `GET /api/messages`, which dalbridge does not serve, while the client streams
  from `/stream`, which matterbridge does not. Against dalbridge the probe is answered 404 and
  `runAgentLoop` exits (`cmd_run.go:530`): a dal is not connected again, and nothing here assumes
  it. Messages of the webhook are not forwarded as `README.md:158` and `README.md:173` describe.

*Issues, notices, claims, ledgers, pipeline, repository*

- A workflow goes pending, waking, assigned, working by `README.md:400`; the code goes from pending
  to working. An issue whose dispatch failed is tracked as an error and never tried again.
- Closed issues are listed newest first by creation, ten at most: an old issue closed today may never
  be announced. The zero of `LastDailySummary` is a first of a month, so the first summary is skipped
  on such a day. Two notices in one millisecond have one file name.
- A save that fails is a line in the log (`persist.go:35`). An issue whose tracking was not saved is
  dispatched again after a later crash (`forgotten`), and a claim that was answered is open again.
- The pipeline ignores the errors of `os.WriteFile` and `os.Rename` (`pipeline.go:405`): a short write
  is renamed into place and what it held cannot be decoded, a rename that fails leaves the old file.
  After a restart the panes are unknown (`spoiled`).
- A denied handler sets its claim to "acknowledged" after whatever happened to it, and a sync
  answers its own claim over what the host has said of it. The sweep after a sync resolves every
  claim that is not settled, those the host has acknowledged and those filed after the sync began
  among them. A crash during a sync leaves its claim acknowledged for ever, unless a later sweep
  takes it. A sync counts as done when its commands have ended and the file is there
  (`credential_ops.go:298`). The cooldowns of a credential sync and of a notice are taken before the
  attempt and kept when it fails.
- The leader watcher adds escalations without a notice. The callbacks of cost thresholds are set by
  tests only.
- `Receive` "fetches unread messages" (`pipeline.go:125`): it returns the last ten posts. Two `Init`
  of one pane may both create its channel; the second fails.
- What a pull asks for is known from that pull only: after a failed sync, a restart or a pull by hand
  the dals stay as they were until the next change (`lost` in `RepoWatcher`).

## 6. What is not modelled

Of the modelled components: a task's events, metadata, output, verification and auto-commit;
`consecutiveFailures`, a map that feeds a warning; the text of messages, prompts and replies; images,
mounts, credentials and workspace preparation in `dockerRun`; the registry file, whose names
`reconcile` derives from the container's own when it has no entry; the heartbeat file, which nobody
reads back; the alert of agents that are down; summaries and thresholds of costs; the REST calls to
Mattermost; the pipeline's posts; the JSON itself. Numbers (ids, times, counters) do not come near
their width. Docker, git, gh and Mattermost are external: a call of them succeeds or fails, and
docker's is atomic. That a credential is valid again after a sync that succeeded, but for as many
times as the disturbances allow, is an assumption about the environment, on which `CredentialRefreshed`
rests. A container removed by hand is outside the model, a container that dies is not.

Simplifications worth knowing: the saves of `DalTasks` and of the message store's snapshots do not
fail (the others' do), `IssueWatcher` starts without a leader, whose coming is free and whose
going counts as trouble; a file of `DalrootNotices` is the notice's last; the one-shot task of a
workflow ends or does not, and nothing waits for it; `HAFailover` reduces a team to its leader and a
request to two steps, whose details are `DalLifecycle`'s; the two circuits' times are flags.

Not modelled: the components listed at the end of section 1, which render, parse, or run a command
and keep nothing that two of their operations could disagree about.

## 7. The plan

1. The abstract specification of a failover, one acting daemon at a time outside a stated window, and
   `HAFailover` as its implementation, checked and proved step by step.
2. An abstraction of `TellMessages` in which a message is open, confirmed or given up, and to which
   each step of handler, watchdog and receiver maps as one of its steps or as none.
3. `BridgeRelay` under `TellMessages`: the post that "delivers" as the send that may be dropped.
4. `DalTasks` with a file that is saved by the steps of `PersistJSON` instead of at once.
