---------------------------- MODULE TellMessages ----------------------------
(***************************************************************************)
(* A tell message on its way to a team: handleMessage (daemon.go) buffers   *)
(* and posts it, the message store (message_store.go) tracks it, the        *)
(* receiver acknowledges it, the watchdog (message_ack.go) retries it, the  *)
(* client of "dalcenter tell" (cmd_tell.go) polls for the acknowledgment,   *)
(* and the daemon may die between any two steps and load its buffer again.  *)
(*                                                                         *)
(* A step is one critical section of messageStore.mu or one post to the     *)
(* channel.  A post that returns an error has delivered nothing.            *)
(***************************************************************************)
EXTENDS Integers, FiniteSets, FiniteSetsExt

CONSTANTS
  Msg,          \* the tells that may arrive
  Waits,        \* those whose client waits for the ACK (no --no-ack)
  Bridge,       \* TRUE when d.bridgeURL is set
  MaxBuffered,  \* maxBufferedMessages = 200
  MaxRetries,   \* maxRetries = 2
  MaxRestarts   \* bound on the daemon restarts explored

ASSUME MessagesAssumption ==
  /\ IsFiniteSet(Msg) /\ Waits \subseteq Msg
  /\ Bridge \in BOOLEAN
  /\ MaxBuffered \in Nat \ {0} /\ MaxRetries \in Nat /\ MaxRestarts \in Nat

VARIABLES
  buffer,    \* the messages in s.messages; their order is the order of id
  entry,     \* Status and Retries of each message
  aged,      \* more than messageACKTimeout has passed since its SentAt
  id,        \* the number in "msg-%04d"
  seq,       \* s.seq
  disk,      \* messages.json: the entry last written for each message
  pc,        \* where its handleMessage stands
  posts,     \* how often the message went out
  shown,     \* the messages of which a copy tagged with the id went out
  confirmed, \* the messages whose receiver has acknowledged them
  tell,      \* what the client of "dalcenter tell" knows
  wd, batch, \* the watchdog: where it stands, what it still has to treat
  restarts

storeVars == <<buffer, entry, aged, id, seq>>
worldVars == <<posts, shown, confirmed>>
wdVars    == <<wd, batch>>
vars == <<storeVars, disk, pc, worldVars, tell, wdVars, restarts>>

-----------------------------------------------------------------------------
Done   == {"acked", "failed"}
Status == {"pending", "sent", "timed_out"} \cup Done

Entry  == [status : Status, retries : Nat]
Absent == [status |-> "absent", retries |-> 0]
Fresh  == [status |-> "pending", retries |-> 0]

(* The file a persistAsync goroutine writes.  One may run at any time after *)
(* a change, so the file is any earlier buffer (module PersistJSON).        *)
Snapshot == [m \in Msg |-> IF m \in buffer THEN entry[m] ELSE Absent]

Oldest(S) == CHOOSE m \in S : \A k \in S : id[m] <= id[k]

Init ==
  /\ buffer = {} /\ seq = 0
  /\ entry = [m \in Msg |-> Absent]
  /\ aged = [m \in Msg |-> FALSE]
  /\ id = [m \in Msg |-> 0]
  /\ disk = [m \in Msg |-> Absent]
  /\ pc = [m \in Msg |-> "idle"]
  /\ posts = [m \in Msg |-> 0]
  /\ shown = {} /\ confirmed = {}
  /\ tell = [m \in Msg |-> "idle"]
  /\ wd = "idle" /\ batch = {}
  /\ restarts = 0

(* Mark...(id): nothing happens to a message that was evicted. *)
SetStatus(m, st) ==
  entry' = IF m \in buffer THEN [entry EXCEPT ![m].status = st] ELSE entry

(* MarkSent also takes the time. *)
MarkSent(m) ==
  /\ SetStatus(m, "sent")
  /\ aged' = IF m \in buffer THEN [aged EXCEPT ![m] = FALSE] ELSE aged

Post(m) == posts' = [posts EXCEPT ![m] = @ + 1]

-----------------------------------------------------------------------------
(* handleMessage *)

(* Mutant of Evict: first in, first out. *)
EvictFIFO(s, e, n) ==
  IF Cardinality(s) <= MaxBuffered THEN s
  ELSE s \ {CHOOSE m \in s : \A k \in s : n[m] <= n[k]}

(* evictLocked, for the one message that is too many: the oldest completed  *)
(* one goes, or the oldest of all.                                          *)
Evict(s, e, n) ==
  LET done  == {m \in s : e[m].status \in Done}
      prey  == IF done # {} THEN done ELSE s
  IN IF Cardinality(s) <= MaxBuffered THEN s
     ELSE s \ {CHOOSE m \in prey : \A k \in prey : n[m] <= n[k]}

(* Mutant of Buffer: the sequence stands still. *)
BufferKeepsSeq(m) ==
  /\ pc[m] = "idle"
  /\ UNCHANGED seq
  /\ id' = [id EXCEPT ![m] = seq + 1]
  /\ entry' = [entry EXCEPT ![m] = Fresh]
  /\ buffer' = Evict(buffer \cup {m}, entry', id')
  /\ pc' = [pc EXCEPT ![m] = "buffered"]
  /\ UNCHANGED <<aged, disk, worldVars, tell, wdVars, restarts>>

(* messages.New: the next id, pending. *)
Buffer(m) ==
  /\ pc[m] = "idle"
  /\ seq' = seq + 1
  /\ id' = [id EXCEPT ![m] = seq + 1]
  /\ entry' = [entry EXCEPT ![m] = Fresh]
  /\ buffer' = Evict(buffer \cup {m}, entry', id')
  /\ pc' = [pc EXCEPT ![m] = "buffered"]
  /\ UNCHANGED <<aged, disk, worldVars, tell, wdVars, restarts>>

(* The post to the channel succeeds; or, without a bridge, a task is        *)
(* started in a running container.                                          *)
Deliver(m) ==
  /\ pc[m] = "buffered"
  /\ Post(m)
  /\ pc' = [pc EXCEPT ![m] = "posted"]
  /\ UNCHANGED <<storeVars, disk, shown, confirmed, tell, wdVars, restarts>>

(* Both posts fail, or there is neither a bridge nor a container: the       *)
(* client gets an error.                                                    *)
DeliverFails(m) ==
  /\ pc[m] = "buffered"
  /\ SetStatus(m, "failed")
  /\ pc' = [pc EXCEPT ![m] = "over"]
  /\ tell' = [tell EXCEPT ![m] = "error"]
  /\ UNCHANGED <<buffer, aged, id, seq, disk, worldVars, wdVars, restarts>>

(* messages.MarkSent, and the answer with the id. *)
Reply(m) ==
  /\ pc[m] = "posted"
  /\ MarkSent(m)
  /\ pc' = [pc EXCEPT ![m] = "over"]
  /\ tell' = [tell EXCEPT ![m] = IF m \in Waits THEN "waiting" ELSE "sent"]
  /\ UNCHANGED <<buffer, id, seq, disk, worldVars, wdVars, restarts>>

-----------------------------------------------------------------------------
(* The receiver and the client.                                             *)

(* handleACK finds the message by the id the receiver was shown. *)
Ack(m) ==
  /\ m \in shown
  /\ \E k \in buffer :
       /\ id[k] = id[m]
       /\ entry' = [entry EXCEPT ![k].status = "acked"]
  /\ confirmed' = confirmed \cup {m}
  /\ UNCHANGED <<buffer, aged, id, seq, disk, pc, posts, shown, tell, wdVars, restarts>>

(* waitForACK polls /api/messages/{id} ... *)
Poll(m) ==
  /\ tell[m] = "waiting"
  /\ \E k \in buffer :
       /\ id[k] = id[m] /\ entry[k].status \in Done
       /\ tell' = [tell EXCEPT ![m] = entry[k].status]
  /\ UNCHANGED <<storeVars, disk, pc, worldVars, wdVars, restarts>>

(* ... until ackTimeout, and warns. *)
GiveUp(m) ==
  /\ tell[m] = "waiting"
  /\ tell' = [tell EXCEPT ![m] = "warned"]
  /\ UNCHANGED <<storeVars, disk, pc, worldVars, wdVars, restarts>>

-----------------------------------------------------------------------------
(* The watchdog.                                                            *)

(* messageACKTimeout passes for a sent message. *)
Age(m) ==
  /\ m \in buffer /\ entry[m].status = "sent" /\ ~aged[m]
  /\ aged' = [aged EXCEPT ![m] = TRUE]
  /\ UNCHANGED <<buffer, entry, id, seq, disk, pc, worldVars, tell, wdVars, restarts>>

(* Mutant of Scan: acknowledged messages time out too. *)
ScanIgnoresStatus ==
  /\ wd = "idle"
  /\ batch' = {m \in buffer : aged[m]}
  /\ entry' = [m \in Msg |-> IF m \in batch' THEN [entry[m] EXCEPT !.status = "timed_out"]
                                             ELSE entry[m]]
  /\ wd' = "retry"
  /\ UNCHANGED <<buffer, aged, id, seq, disk, pc, worldVars, tell, restarts>>

(* processTimedOutMessages: TimedOut(). *)
Scan ==
  /\ wd = "idle"
  /\ batch' = {m \in buffer : entry[m].status = "sent" /\ aged[m]}
  /\ entry' = [m \in Msg |-> IF m \in batch' THEN [entry[m] EXCEPT !.status = "timed_out"]
                                             ELSE entry[m]]
  /\ wd' = "retry"
  /\ UNCHANGED <<buffer, aged, id, seq, disk, pc, worldVars, tell, restarts>>

(* Mutant of Retry: the status stays "timed_out". *)
RetryKeepsStatus(m) ==
  /\ wd = "retry" /\ batch # {} /\ m = Oldest(batch)
  /\ entry' = IF m \in buffer
              THEN [entry EXCEPT ![m].retries = @ + 1] ELSE entry
  /\ IF m \in buffer /\ entry'[m].retries > MaxRetries
     THEN wd' = "exhausted" /\ UNCHANGED batch
     ELSE batch' = batch \ {m} /\ UNCHANGED wd
  /\ UNCHANGED <<buffer, aged, id, seq, disk, pc, worldVars, tell, restarts>>

(* Mutant of Retry: one retry too many. *)
RetryOffByOne(m) ==
  /\ wd = "retry" /\ batch # {} /\ m = Oldest(batch)
  /\ entry' = IF m \in buffer
              THEN [entry EXCEPT ![m] = [status |-> "pending", retries |-> @.retries + 1]]
              ELSE entry
  /\ IF m \in buffer /\ entry'[m].retries > MaxRetries + 1
     THEN wd' = "exhausted" /\ UNCHANGED batch
     ELSE batch' = batch \ {m} /\ UNCHANGED wd
  /\ UNCHANGED <<buffer, aged, id, seq, disk, pc, worldVars, tell, restarts>>

(* IncrRetry for each of them: pending again, ... *)
Retry(m) ==
  /\ wd = "retry" /\ batch # {} /\ m = Oldest(batch)
  /\ entry' = IF m \in buffer
              THEN [entry EXCEPT ![m] = [status |-> "pending", retries |-> @.retries + 1]]
              ELSE entry
  /\ IF m \in buffer /\ entry'[m].retries > MaxRetries
     THEN wd' = "exhausted" /\ UNCHANGED batch
     ELSE batch' = batch \ {m} /\ UNCHANGED wd
  /\ UNCHANGED <<buffer, aged, id, seq, disk, pc, worldVars, tell, restarts>>

(* ... or failed, once its retries are spent. *)
Exhaust(m) ==
  /\ wd = "exhausted" /\ m = Oldest(batch)
  /\ SetStatus(m, "failed")
  /\ wd' = "retry" /\ batch' = batch \ {m}
  /\ UNCHANGED <<buffer, aged, id, seq, disk, pc, worldVars, tell, restarts>>

(* replayPendingMessages: Pending(). *)
Collect ==
  /\ wd = "retry" /\ batch = {}
  /\ batch' = {m \in buffer : entry[m].status = "pending"}
  /\ wd' = "replay"
  /\ UNCHANGED <<storeVars, disk, pc, worldVars, tell, restarts>>

(* deliverMessage: a copy tagged with the id goes out; without a bridge,    *)
(* nothing does.                                                            *)
Replay(m) ==
  /\ wd = "replay" /\ batch # {} /\ m = Oldest(batch)
  /\ IF Bridge THEN Post(m) /\ shown' = shown \cup {m} ELSE UNCHANGED <<posts, shown>>
  /\ wd' = "mark"
  /\ UNCHANGED <<storeVars, disk, pc, confirmed, tell, batch, restarts>>

(* The post fails: the message stays pending, for ever if it was never      *)
(* retried for want of an acknowledgment.                                   *)
ReplayFails(m) ==
  /\ Bridge
  /\ wd = "replay" /\ batch # {} /\ m = Oldest(batch)
  /\ IF entry[m].retries >= MaxRetries THEN SetStatus(m, "failed") ELSE UNCHANGED entry
  /\ batch' = batch \ {m}
  /\ UNCHANGED <<buffer, aged, id, seq, disk, pc, worldVars, tell, wd, restarts>>

(* messages.MarkSent, whatever the status has become meanwhile. *)
ReplayMark(m) ==
  /\ wd = "mark" /\ m = Oldest(batch)
  /\ MarkSent(m)
  /\ wd' = "replay" /\ batch' = batch \ {m}
  /\ UNCHANGED <<buffer, id, seq, disk, pc, worldVars, tell, restarts>>

Sleep ==
  /\ wd = "replay" /\ batch = {}
  /\ wd' = "idle"
  /\ UNCHANGED <<storeVars, disk, pc, worldVars, tell, batch, restarts>>

-----------------------------------------------------------------------------
(* The file and the restart.                                                *)

Persist ==
  /\ restarts < MaxRestarts  \* a file that nobody will load is not explored
  /\ disk # Snapshot
  /\ disk' = Snapshot
  /\ UNCHANGED <<storeVars, pc, worldVars, tell, wdVars, restarts>>

(* The daemon dies and newMessageStore loads the file: the sequence starts  *)
(* from the highest id in it, handlers and watchdog start over.             *)
Restart ==
  LET kept == {m \in Msg : disk[m] # Absent} IN
  /\ restarts < MaxRestarts
  /\ restarts' = restarts + 1
  /\ buffer' = kept
  /\ entry' = disk
  /\ seq' = Max({id[m] : m \in kept} \cup {0})
  /\ pc' = [m \in Msg |-> IF pc[m] = "idle" THEN "idle" ELSE "over"]
  /\ tell' = [m \in Msg |-> IF pc[m] \in {"buffered", "posted"} THEN "error" ELSE tell[m]]
  /\ wd' = "idle" /\ batch' = {}
  /\ UNCHANGED <<aged, id, disk, worldVars>>

-----------------------------------------------------------------------------
Handler(m) == Buffer(m) \/ Deliver(m) \/ DeliverFails(m) \/ Reply(m)

Outside(m) == Ack(m) \/ Poll(m) \/ GiveUp(m)

Watchdog ==
  \/ Scan \/ Collect \/ Sleep
  \/ \E m \in Msg : \/ Retry(m) \/ Exhaust(m)
                    \/ Replay(m) \/ ReplayFails(m) \/ ReplayMark(m)

Next ==
  \/ \E m \in Msg : Handler(m) \/ Outside(m) \/ Age(m)
  \/ Watchdog
  \/ Persist
  \/ Restart

Spec == Init /\ [][Next]_vars

(* Time passes, the watchdog's ticker fires and its goroutine runs, and so  *)
(* does a handler that has posted; the channel accepts a post from time to  *)
(* time.  Nobody owes an acknowledgment.                                    *)
Fairness ==
  /\ WF_vars(Watchdog)
  /\ \A m \in Msg : /\ WF_vars(Age(m)) /\ WF_vars(Reply(m))
                    /\ WF_vars(Deliver(m) \/ DeliverFails(m))
                    /\ SF_vars(Replay(m))

FairSpec == Spec /\ Fairness

-----------------------------------------------------------------------------
TypeOK ==
  /\ buffer \subseteq Msg /\ seq \in Nat
  /\ entry \in [Msg -> Entry \cup {Absent}]
  /\ aged \in [Msg -> BOOLEAN]
  /\ id \in [Msg -> Nat]
  /\ disk \in [Msg -> Entry \cup {Absent}]
  /\ pc \in [Msg -> {"idle", "buffered", "posted", "over"}]
  /\ posts \in [Msg -> Nat]
  /\ shown \subseteq Msg /\ confirmed \subseteq Msg
  /\ tell \in [Msg -> {"idle", "sent", "waiting", "warned", "error"} \cup Done]
  /\ wd \in {"idle", "retry", "exhausted", "replay", "mark"}
  /\ batch \subseteq Msg
  /\ restarts \in Nat

(* A copy of m may be out whose MarkSent is still to come, or the watchdog  *)
(* may hold it from an earlier look at the store.                           *)
InFlight(m) == pc[m] \in {"buffered", "posted"} \/ m \in batch

(* message_ack.go: an unacknowledged message goes out once, is retried      *)
(* MaxRetries times, all of that again for every restart that forgets it,   *)
(* and once more because the watchdog may replay what a handler is posting. *)
DeliveriesBounded ==
  \A m \in Msg : posts[m] <= (restarts + 1) * (MaxRetries + 1) + 1

(* MarkAcked's verdict is lost only to a step that had already begun when   *)
(* the acknowledgment came, or to a restart or an eviction.                 *)
AckLostOnlyInFlight ==
  [][\A m \in buffer :
       entry[m].status = "acked" /\ entry'[m].status # "acked"
         => InFlight(m) \/ restarts' # restarts]_vars

(* evictLocked: a message still to be delivered or confirmed is dropped     *)
(* only when the buffer holds no completed one.                             *)
OpenEvictedLast ==
  [][restarts' = restarts
       => \A m \in buffer \ buffer' : entry[m].status \in Done
             \/ \A k \in buffer' : entry'[k].status \notin Done]_vars

(* waitForACK: "ACK received" is printed only if the receiver of this very  *)
(* message has acknowledged it (as long as the buffer is never lost).       *)
AckIsTrue == \A m \in Msg : tell[m] = "acked" => m \in confirmed

(* startMessageWatchdog: every buffered message is acknowledged or given    *)
(* up, if the channel works from time to time.                              *)
EveryMessageEnds ==
  \A m \in Msg : m \in buffer ~> m \notin buffer \/ entry[m].status \in Done

-----------------------------------------------------------------------------
=============================================================================
