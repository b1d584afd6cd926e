---------------------------- MODULE BridgeRelay ----------------------------
(***************************************************************************)
(* The path of a channel message: a poster (a dal, a daemon, Mattermost's  *)
(* webhook) hands it to dalbridge, which puts it in the queue of every     *)
(* subscriber under a shared lock; a goroutine per subscriber filters and  *)
(* writes it to the stream; the bridge client of a dal (matterbridge.go)   *)
(* reads, filters and buffers it for the agent loop.                       *)
(*                                                                         *)
(* A message is its poster and its number among the poster's messages.     *)
(* Broadcasts overlap, each holding the lock shared; subscribe and         *)
(* unsubscribe take it alone.  A subscriber that reconnects after its      *)
(* backoff finds its old subscription gone.                                *)
(***************************************************************************)
EXTENDS Integers, Sequences, SequencesExt

CONSTANTS
  Client,    \* the dals that listen
  Poster,    \* who posts: dals, and others
  Gateway,   \* Gateway[c] of a listener; Gateway[p] of a poster, or "none"
  QueueCap,  \* capacity of a subscriber's channel: 64
  InboxCap,  \* capacity of a client's buffer: 64
  MaxPosts,  \* bound on the messages of each poster
  MaxTrouble \* bound on lost connections and relay restarts

ASSUME BridgeAssumption ==
  /\ QueueCap \in Nat \ {0} /\ InboxCap \in Nat \ {0}
  /\ MaxPosts \in [Poster -> Nat] /\ MaxTrouble \in Nat
  /\ DOMAIN Gateway = Client \cup Poster

VARIABLES
  posted,   \* messages of each poster so far
  rest,     \* subscribers that the broadcast of a poster has still to visit
  sub,      \* per client: its subscription
  queue,    \* per client: its channel in the broker
  line,     \* per client: written to the stream, not read yet
  inbox,    \* per client: mb.messages
  taken,    \* per client and poster: the last message the agent loop took
  accepted, \* ghost: the last message put in this subscription's channel
  lost,     \* ghost: the buffer overflowed or the connection broke since
  broken,   \* ghost: a send on a closed channel, which panics
  trouble   \* disturbances so far

vars == <<posted, rest, sub, queue, line, inbox, taken, accepted, lost, broken,
          trouble>>

-----------------------------------------------------------------------------
Message == UNION {{p} \X (1..MaxPosts[p]) : p \in Poster}
Count == {f \in [Poster -> Nat] : \A p \in Poster : f[p] <= MaxPosts[p]}
Nothing == [p \in Poster |-> 0]
Idle(p) == rest[p] = {}

TypeOK ==
  /\ posted \in Count
  /\ rest \in [Poster -> SUBSET Client]
  /\ sub \in [Client -> {"off", "on", "leaving", "deleted"}]
  /\ queue \in [Client -> Seq(Message)] /\ \A c \in Client : Len(queue[c]) <= QueueCap
  /\ line \in [Client -> Seq(Message)] /\ \A c \in Client : Len(line[c]) <= 1
  /\ inbox \in [Client -> Seq(Message)] /\ \A c \in Client : Len(inbox[c]) <= InboxCap
  /\ taken \in [Client -> Count] /\ accepted \in [Client -> Count]
  /\ lost \in [Client -> BOOLEAN] /\ broken \in BOOLEAN
  /\ trouble \in 0..MaxTrouble

(* Connect probes the relay and starts to stream; what is posted before the *)
(* subscription never arrives.  (A relay without /api/messages, such as     *)
(* dalbridge itself, fails the probe, and there is no client then.)         *)
Init ==
  /\ posted = Nothing /\ rest = [p \in Poster |-> {}]
  /\ sub = [c \in Client |-> "off"]
  /\ queue = [c \in Client |-> <<>>] /\ line = queue /\ inbox = queue
  /\ taken = [c \in Client |-> Nothing] /\ accepted = taken
  /\ lost = [c \in Client |-> FALSE] /\ broken = FALSE
  /\ trouble = 0

-----------------------------------------------------------------------------
(* The broker. *)

(* broker.clients: a channel stays in the map until it is deleted. *)
Subscribed == {c \in Client : sub[c] \in {"on", "leaving"}}
Unlocked == \A p \in Poster : Idle(p)

(* /webhook and /api/message: broadcast under RLock; the poster's next      *)
(* message follows the response.                                            *)
Post(p) ==
  /\ Idle(p) /\ posted[p] < MaxPosts[p]
  /\ posted' = [posted EXCEPT ![p] = @ + 1]
  /\ rest' = [rest EXCEPT ![p] = Subscribed]
  /\ UNCHANGED <<sub, queue, line, inbox, taken, accepted, lost, broken, trouble>>

(* A full channel misses the message. *)
Send(p, c) ==
  /\ c \in rest[p]
  /\ rest' = [rest EXCEPT ![p] = @ \ {c}]
  /\ IF sub[c] = "off"
     THEN broken' = TRUE /\ UNCHANGED <<queue, accepted>>
     ELSE /\ IF Len(queue[c]) < QueueCap
             THEN /\ queue' = [queue EXCEPT ![c] = Append(@, <<p, posted[p]>>)]
                  /\ accepted' = [accepted EXCEPT ![c][p] = posted[p]]
             ELSE UNCHANGED <<queue, accepted>>
          /\ UNCHANGED broken
  /\ UNCHANGED <<posted, sub, line, inbox, taken, lost, trouble>>

Subscribe(c) ==
  /\ sub[c] = "off" /\ Unlocked
  /\ sub' = [sub EXCEPT ![c] = "on"]
  /\ queue' = [queue EXCEPT ![c] = <<>>]
  /\ accepted' = [accepted EXCEPT ![c] = Nothing]
  /\ lost' = [lost EXCEPT ![c] = FALSE]
  /\ UNCHANGED <<posted, rest, line, inbox, taken, broken, trouble>>

(* Mutant of Delete: the map is changed without the lock. *)
DeleteUnlocked(c) ==
  /\ sub[c] = "leaving"
  /\ sub' = [sub EXCEPT ![c] = "deleted"]
  /\ UNCHANGED <<posted, rest, queue, line, inbox, taken, accepted, lost, broken,
                 trouble>>

(* unsubscribe: out of the map under the lock, closed after it. *)
Delete(c) ==
  /\ sub[c] = "leaving" /\ Unlocked
  /\ sub' = [sub EXCEPT ![c] = "deleted"]
  /\ UNCHANGED <<posted, rest, queue, line, inbox, taken, accepted, lost, broken,
                 trouble>>
Close(c) ==
  /\ sub[c] = "deleted"
  /\ sub' = [sub EXCEPT ![c] = "off"]
  /\ UNCHANGED <<posted, rest, queue, line, inbox, taken, accepted, lost, broken,
                 trouble>>

(* The server's gateway filter: what names no gateway is filtered as well. *)
Forwards(c, m) == Gateway[m[1]] = Gateway[c]

(* Mutant of Write: the filter ends the loop instead of passing over.        *)
WriteUntilFiltered(c) ==
  /\ sub[c] = "on" /\ queue[c] # <<>> /\ line[c] = <<>>
  /\ Forwards(c, Head(queue[c]))
  /\ queue' = [queue EXCEPT ![c] = Tail(@)]
  /\ line' = [line EXCEPT ![c] = <<Head(queue[c])>>]
  /\ UNCHANGED <<posted, rest, sub, inbox, taken, accepted, lost, broken, trouble>>

(* /stream, for the oldest message of the channel.  (One message fits on     *)
(* the line; more only wait longer.)                                         *)
Write(c) ==
  /\ sub[c] = "on" /\ queue[c] # <<>> /\ line[c] = <<>>
  /\ queue' = [queue EXCEPT ![c] = Tail(@)]
  /\ line' = [line EXCEPT ![c] = IF Forwards(c, Head(queue[c]))
                                 THEN <<Head(queue[c])>> ELSE <<>>]
  /\ UNCHANGED <<posted, rest, sub, inbox, taken, accepted, lost, broken, trouble>>

-----------------------------------------------------------------------------
(* The client. *)

(* streamOnce leaves out the client's own messages and other gateways'.  *)
Listens(c, m) == m[1] # c /\ Gateway[m[1]] \in {"none", Gateway[c]}

(* Mutant of Buffered: the oldest message is put back behind the new one. *)
BufferedBack(s, m) ==
  IF Len(s) < InboxCap THEN Append(s, m) ELSE Append(Tail(s), Head(s))
(* A full buffer loses its oldest message. *)
Buffered(s, m) == Append(IF Len(s) < InboxCap THEN s ELSE Tail(s), m)

(* Mutant of Read: a buffer that is not empty counts as full.               *)
ReadOne(c) ==
  /\ line[c] # <<>>
  /\ line' = [line EXCEPT ![c] = <<>>]
  /\ IF Listens(c, Head(line[c])) /\ inbox[c] = <<>>
     THEN inbox' = [inbox EXCEPT ![c] = <<Head(line[c])>>]
     ELSE UNCHANGED inbox
  /\ UNCHANGED <<posted, rest, sub, queue, taken, accepted, lost, broken, trouble>>

Read(c) ==
  /\ line[c] # <<>>
  /\ line' = [line EXCEPT ![c] = <<>>]
  /\ IF Listens(c, Head(line[c]))
     THEN /\ inbox' = [inbox EXCEPT ![c] = Buffered(@, Head(line[c]))]
          /\ lost' = [lost EXCEPT ![c] = @ \/ Len(inbox[c]) = InboxCap]
     ELSE UNCHANGED <<inbox, lost>>
  /\ UNCHANGED <<posted, rest, sub, queue, taken, accepted, broken, trouble>>

(* The agent loop, whatever it then does with the message. *)
Take(c) ==
  /\ inbox[c] # <<>>
  /\ inbox' = [inbox EXCEPT ![c] = Tail(@)]
  /\ taken' = [taken EXCEPT ![c][Head(inbox[c])[1]] = Head(inbox[c])[2]]
  /\ UNCHANGED <<posted, rest, sub, queue, line, accepted, lost, broken, trouble>>

-----------------------------------------------------------------------------
Trouble == trouble < MaxTrouble /\ trouble' = trouble + 1

(* The connection breaks: what is on the line may or may not be read still; *)
(* the client comes back after its backoff.                                 *)
Disconnect(c) ==
  /\ sub[c] = "on"
  /\ Trouble
  /\ sub' = [sub EXCEPT ![c] = "leaving"]
  /\ line' \in {line, [line EXCEPT ![c] = <<>>]}
  /\ lost' = [lost EXCEPT ![c] = TRUE]
  /\ UNCHANGED <<posted, rest, queue, inbox, taken, accepted, broken>>

(* The relay keeps nothing; a broadcast ends where it stood. *)
RelayRestarts ==
  /\ Trouble
  /\ rest' = [p \in Poster |-> {}]
  /\ sub' = [c \in Client |-> "off"]
  /\ queue' = [c \in Client |-> <<>>]
  /\ line' \in {line, [c \in Client |-> <<>>]}
  /\ lost' = [c \in Client |-> TRUE]
  /\ UNCHANGED <<posted, inbox, taken, accepted, broken>>

Next ==
  \/ \E p \in Poster : Post(p) \/ \E c \in Client : Send(p, c)
  \/ \E c \in Client :
       Subscribe(c) \/ Delete(c) \/ Close(c) \/ Write(c) \/ Read(c) \/ Take(c)
         \/ Disconnect(c)
  \/ RelayRestarts

Spec == Init /\ [][Next]_vars

(* What the goroutines of the relay and the client's reader do without       *)
(* waiting for anybody.  Nothing is assumed of posters, of the agent loop    *)
(* (its provider may take for ever) or of a connection's coming back: a dal  *)
(* whose first probe fails exits (cmd_run.go:530).                           *)
FairSpec ==
  /\ Spec
  /\ \A c \in Client : WF_vars(Write(c)) /\ WF_vars(Read(c))

-----------------------------------------------------------------------------
(* No broadcast sends on a channel that unsubscribe has closed, which would  *)
(* panic the relay: the channel is closed outside the lock, and what keeps   *)
(* a broadcast from holding it is that it left the map under the lock.       *)
NoSendOnClosed == ~broken

(* What a client still has to see, oldest first. *)
Waiting(c) ==
  inbox[c] \o line[c] \o (IF sub[c] = "off" THEN <<>> ELSE queue[c])

(* However broadcasts overlap and connections break, a dal gets the messages *)
(* of one poster in their order and none of them twice.                      *)
PosterOrder ==
  \A c \in Client :
    /\ \A i, j \in DOMAIN Waiting(c) :
         i < j /\ Waiting(c)[i][1] = Waiting(c)[j][1]
           => Waiting(c)[i][2] < Waiting(c)[j][2]
    /\ \A i \in DOMAIN Waiting(c) :
         Waiting(c)[i][2] > taken[c][Waiting(c)[i][1]]

(* A message that found room in the channel is lost only by a broken         *)
(* connection or when the client's own buffer overflows: the last accepted   *)
(* message of every poster the client listens to is waiting or was taken.    *)
LossExplained ==
  \A c \in Client, p \in Poster :
    /\ sub[c] = "on" /\ ~lost[c] /\ accepted[c][p] # 0
    /\ Forwards(c, <<p, accepted[c][p]>>) /\ Listens(c, <<p, accepted[c][p]>>)
    => \/ taken[c][p] = accepted[c][p]
       \/ <<p, accepted[c][p]>> \in ToSet(Waiting(c))

(* What a subscriber's channel has taken reaches the dal's buffer, whatever  *)
(* the filters reject before it and however slow the agent loop is, unless   *)
(* the connection breaks or the buffer overflows.                            *)
ReachesInbox ==
  \A c \in Client, m \in Message :
    m \in ToSet(queue[c]) /\ Forwards(c, m) /\ Listens(c, m)
      ~> m \in ToSet(inbox[c]) \/ taken[c][m[1]] >= m[2] \/ lost[c]

=============================================================================
