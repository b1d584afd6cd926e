------------------------ MODULE TellMessages_proofs ------------------------
(***************************************************************************)
(* What the message store, the watchdog and the client of a tell keep of a  *)
(* message's deliveries and of its acknowledgment, for every number of      *)
(* tells, every capacity of the buffer, every number of retries and however *)
(* often the daemon dies.                                                   *)
(***************************************************************************)
EXTENDS TellMessages, WellFoundedInduction, TLAPS

One(b) == IF b THEN 1 ELSE 0

(* The retries that are left to a message. *)
Left(m) == IF entry[m].retries < MaxRetries THEN MaxRetries - entry[m].retries ELSE 0

(* The watchdog has done with the message that it holds, but for its mark. *)
Marking(m) == wd \in {"mark", "exhausted"} /\ m = Oldest(batch)

(* The watchdog will post the message, or may find it pending and do so. *)
Replayable(m) ==
  /\ ~Marking(m)
  /\ \/ m \in buffer /\ entry[m].status = "pending"
     \/ wd \in {"replay", "mark"} /\ m \in batch

(* What one life of the daemon posts, and the posts of all lives so far. *)
Share  == MaxRetries + 1
Budget == (restarts + 1) * Share + 1

(* The posts of a message, those made and those still to come. *)
Spent(m) == posts[m] + One(pc[m] = "buffered") + Left(m) + One(Replayable(m))

(* A message that has not arrived is nowhere. *)
Unknown(m) ==
  /\ m \notin buffer /\ m \notin batch /\ m \notin shown
  /\ posts[m] = 0 /\ disk[m] = Absent /\ entry[m] = Absent
  /\ tell[m] = "idle"

(* Until the buffer is lost, an id names one message. *)
Named ==
  /\ \A m \in Msg : IF pc[m] = "idle" THEN id[m] = 0 ELSE id[m] # 0 /\ id[m] <= seq
  /\ \A m, k \in Msg : pc[m] # "idle" /\ pc[k] # "idle" /\ id[m] = id[k] => m = k

(* Who is believed to have acknowledged has done so. *)
Believed ==
  \A m \in Msg :
    /\ entry[m].status = "acked" => m \in confirmed
    /\ tell[m] = "acked" => m \in confirmed

IInv ==
  /\ TypeOK
  /\ \E b \in Nat : \A m \in Msg : id[m] <= b
  /\ wd \in {"mark", "exhausted"} => batch # {}
  /\ \A m \in Msg : pc[m] = "idle" => Unknown(m)
  /\ \A m \in Msg : pc[m] # "idle" => Spent(m) <= Budget
  /\ restarts = 0 => Named /\ Believed

-----------------------------------------------------------------------------
(* A nonempty set with a rank has a member of the lowest rank. *)
LEMMA Lowest ==
  ASSUME NEW D, NEW S \in SUBSET D, S # {}, NEW b \in [D -> Nat]
  PROVE  \E u \in S : \A v \in S : b[u] <= b[v]
<1> DEFINE T == {b[u] : u \in S}
           Below == {p \in Nat \X Nat : p[1] < p[2]}
<1>1. T \in SUBSET Nat /\ T # {}
  OBVIOUS
<1>2. IsWellFoundedOn(Below, Nat)
  <2>1. OpToRel(<, Nat) = Below
    BY Zenon DEF OpToRel
  <2> QED
    BY <2>1, NatLessThanWellFounded
<1>3. PICK n \in T : \A m \in T : ~(<<m, n>> \in Below)
  <2> HIDE DEF T, Below
  <2> QED
    BY <1>1, <1>2, WFMin
<1>4. ASSUME NEW m \in T PROVE n <= m
  <2>1. m \in Nat /\ n \in Nat
    <3> HIDE DEF T
    <3> QED
      BY <1>1
  <2>2. ~(m < n)
    BY <1>3, <2>1
  <2> QED
    BY <2>1, <2>2
<1> QED
  BY <1>4

(* The largest number of a bounded set of them is one of them. *)
LEMMA MaxIn ==
  ASSUME NEW S \in SUBSET Nat, S # {}, NEW b \in Nat, \A x \in S : x <= b
  PROVE  Max(S) \in S
<1> DEFINE f == [x \in Nat |-> IF x <= b THEN b - x ELSE 0]
<1>1. f \in [Nat -> Nat]
  OBVIOUS
<1>2. PICK u \in S : \A v \in S : f[u] <= f[v]
  <2> HIDE DEF f
  <2> QED
    BY <1>1, Lowest
<1>3. \A v \in S : u >= v
  <2> SUFFICES ASSUME NEW v \in S PROVE u >= v
    OBVIOUS
  <2>1. f[u] = b - u /\ f[v] = b - v /\ u \in Nat /\ v \in Nat
    OBVIOUS
  <2>2. f[u] <= f[v]
    BY <1>2
  <2> QED
    BY <2>1, <2>2
<1> QED
  BY <1>3 DEF Max

(* The watchdog treats a message of its batch. *)
LEMMA OldestIn ==
  ASSUME NEW S \in SUBSET Msg, S # {}, id \in [Msg -> Nat]
  PROVE  Oldest(S) \in S
<1>1. \E m \in S : \A k \in S : id[m] <= id[k]
  BY Lowest
<1> QED
  BY <1>1 DEF Oldest

(* It is the same one as long as the batch and its ids stay. *)
LEMMA OldestSame ==
  ASSUME batch' = batch, \A k \in batch : id'[k] = id[k]
  PROVE  Oldest(batch)' = Oldest(batch)
BY DEF Oldest

(* The numbers that make up the posts of a message. *)
LEMMA SpentType ==
  ASSUME TypeOK, NEW m \in Msg
  PROVE  /\ posts[m] \in Nat /\ entry[m].retries \in Nat
         /\ Left(m) \in Nat /\ Left(m) <= MaxRetries
         /\ Spent(m) \in Nat
<1>1. posts[m] \in Nat /\ entry[m].retries \in Nat /\ MaxRetries \in Nat
  BY MessagesAssumption DEF TypeOK, Entry, Absent
<1>2. Left(m) \in Nat /\ Left(m) <= MaxRetries
  BY <1>1 DEF Left
<1>3. \A b : One(b) \in {0, 1}
  BY DEF One
<1> QED
  BY <1>1, <1>2, <1>3 DEF Spent

(* The same after a step. *)
LEMMA NextSpentType ==
  ASSUME TypeOK', NEW m \in Msg
  PROVE  Spent(m)' \in Nat /\ Left(m)' \in Nat /\ Left(m)' <= MaxRetries
<1>1. posts'[m] \in Nat /\ entry'[m].retries \in Nat /\ MaxRetries \in Nat
  BY MessagesAssumption DEF TypeOK, Entry, Absent
<1>2. Left(m)' \in Nat /\ Left(m)' <= MaxRetries
  BY <1>1 DEF Left
<1>3. \A b : One(b) \in {0, 1}
  BY DEF One
<1>4. One(pc'[m] = "buffered") \in {0, 1} /\ One(Replayable(m)') \in {0, 1}
  BY <1>3
<1> QED
  BY <1>1, <1>2, <1>4 DEF Spent

(* A step that neither posts the message nor makes a post of it likelier. *)
LEMMA SpentStays ==
  ASSUME TypeOK, NEW m \in Msg,
         posts'[m] = posts[m], entry'[m].retries = entry[m].retries,
         pc'[m] = "buffered" => pc[m] = "buffered",
         Replayable(m)' => Replayable(m)
  PROVE  Spent(m)' <= Spent(m)
<1>1. Left(m)' = Left(m)
  BY DEF Left
<1>2. One(pc'[m] = "buffered") <= One(pc[m] = "buffered")
      /\ One(Replayable(m)') <= One(Replayable(m))
  BY DEF One
<1>3. Spent(m)' = posts'[m] + One(pc'[m] = "buffered") + Left(m)' + One(Replayable(m)')
  BY DEF Spent
<1>4. posts[m] \in Nat /\ Left(m) \in Nat
  BY SpentType
<1>5. \A b : One(b) \in {0, 1}
  BY DEF One
<1> QED
  BY <1>1, <1>2, <1>3, <1>4, <1>5 DEF Spent

(* Mark...: the status of one message, if it is still buffered. *)
LEMMA StatusSet ==
  ASSUME TypeOK, NEW m \in Msg, NEW st \in Status, SetStatus(m, st)
  PROVE  /\ entry' \in [Msg -> Entry \cup {Absent}]
         /\ \A k \in Msg :
              /\ entry'[k].retries = entry[k].retries
              /\ entry'[k].status = IF k = m /\ m \in buffer THEN st ELSE entry[k].status
              /\ k # m \/ m \notin buffer => entry'[k] = entry[k]
<1>1. entry \in [Msg -> Entry \cup {Absent}] /\ entry[m].retries \in Nat
  BY SpentType DEF TypeOK
<1>2. CASE m \in buffer
  <2> DEFINE e == [entry[m] EXCEPT !.status = st]
  <2>1. entry' = [entry EXCEPT ![m] = e]
    BY <1>2 DEF SetStatus
  <2>2. e \in Entry /\ e.status = st /\ e.retries = entry[m].retries
    BY <1>1 DEF Entry, Absent
  <2> HIDE DEF e
  <2>3. \A k \in Msg : entry'[k] = IF k = m THEN e ELSE entry[k]
    BY <1>1, <2>1
  <2>4. entry' \in [Msg -> Entry \cup {Absent}]
    BY <1>1, <2>1, <2>2
  <2> QED
    BY <1>2, <2>2, <2>3, <2>4
<1>3. CASE m \notin buffer
  <2>1. entry' = entry
    BY <1>3 DEF SetStatus
  <2> QED
    BY <1>1, <1>3, <2>1
<1> QED
  BY <1>2, <1>3

(* A step that leaves names, restarts and the messages that have not come   *)
(* as they are keeps the invariant if it spends nothing and believes nobody *)
(* without reason.                                                          *)
LEMMA QuietStep ==
  ASSUME IInv, TypeOK', UNCHANGED <<id, seq, restarts>>,
         \A m \in Msg : pc'[m] = "idle" <=> pc[m] = "idle",
         wd' \in {"mark", "exhausted"} => batch' # {},
         \A m \in Msg : pc[m] = "idle" => Unknown(m)',
         \A m \in Msg : pc[m] # "idle" => Spent(m)' <= Spent(m),
         restarts = 0 => Believed'
  PROVE  IInv'
<1>1. Budget' = Budget
  BY DEF Budget
<1>2. \A m \in Msg : Spent(m) \in Nat /\ Spent(m)' \in Nat
  <2>1. \A m \in Msg : Spent(m) \in Nat
    BY SpentType DEF IInv
  <2>2. \A m \in Msg : Spent(m)' \in Nat
    BY NextSpentType
  <2> QED
    BY <2>1, <2>2
<1>3. Budget \in Int
  BY MessagesAssumption DEF IInv, TypeOK, Budget, Share
<1>4. \A m \in Msg : pc'[m] # "idle" => Spent(m)' <= Budget'
  BY <1>1, <1>2, <1>3 DEF IInv
<1>5. restarts = 0 => Named'
  BY DEF IInv, Named
<1>6. \E b \in Nat : \A m \in Msg : id'[m] <= b
  BY DEF IInv
<1> QED
  BY <1>4, <1>5, <1>6 DEF IInv

-----------------------------------------------------------------------------
(* One step after the other. *)

(* Initially nothing has arrived. *)
LEMMA InitIInv == Init => IInv
<1> SUFFICES ASSUME Init PROVE IInv
  OBVIOUS
<1>1. TypeOK
  BY DEF Init, TypeOK
<1>2. \A m \in Msg : pc[m] = "idle" /\ Unknown(m) /\ id[m] = 0
  BY DEF Init, Unknown
<1>3. \E b \in Nat : \A m \in Msg : id[m] <= b
  BY <1>2
<1>4. Named /\ Believed /\ wd = "idle"
  BY <1>2 DEF Init, Named, Believed, Absent
<1> QED
  BY <1>1, <1>2, <1>3, <1>4 DEF IInv

(* What the evictions leave. *)
LEMMA EvictLeaves ==
  ASSUME NEW s, NEW e, NEW n
  PROVE  Evict(s, e, n) \subseteq s
BY DEF Evict

(* A new message has all its posts before it and an id of its own. *)
LEMMA BufferGood ==
  ASSUME IInv, NEW m \in Msg, Buffer(m)
  PROVE  IInv'
<1>0. /\ TypeOK /\ Unknown(m) /\ pc[m] = "idle"
      /\ UNCHANGED <<aged, disk, posts, shown, confirmed, tell, wd, batch, restarts>>
  BY DEF IInv, Buffer, worldVars, wdVars
<1>1. /\ seq \in Nat /\ seq' = seq + 1
      /\ \A k \in Msg : /\ id'[k] = IF k = m THEN seq + 1 ELSE id[k]
                        /\ entry'[k] = IF k = m THEN Fresh ELSE entry[k]
                        /\ pc'[k] = IF k = m THEN "buffered" ELSE pc[k]
                        /\ id[k] \in Nat
      /\ buffer' \subseteq buffer \cup {m}
  BY <1>0, EvictLeaves DEF Buffer, TypeOK
<1>2. TypeOK'
  <2>1. Fresh \in Entry
    BY DEF Fresh, Entry, Status
  <2>2. entry' \in [Msg -> Entry \cup {Absent}]
    BY <1>0, <2>1 DEF Buffer, TypeOK
  <2>3. id' \in [Msg -> Nat] /\ seq' \in Nat
    BY <1>0, <1>1 DEF Buffer, TypeOK
  <2>4. pc' \in [Msg -> {"idle", "buffered", "posted", "over"}]
    BY <1>0 DEF Buffer, TypeOK
  <2>5. buffer' \subseteq Msg
    BY <1>0, <1>1 DEF TypeOK
  <2> QED
    BY <1>0, <2>2, <2>3, <2>4, <2>5 DEF TypeOK
<1>3. \E b \in Nat : \A k \in Msg : id'[k] <= b
  <2>1. PICK b \in Nat : \A k \in Msg : id[k] <= b
    BY DEF IInv
  <2> DEFINE c == IF seq + 1 > b THEN seq + 1 ELSE b
  <2>2. c \in Nat /\ b <= c /\ seq + 1 <= c
    BY <1>1
  <2> HIDE DEF c
  <2>3. \A k \in Msg : id'[k] <= c
    BY <1>1, <2>1, <2>2
  <2> QED
    BY <2>2, <2>3
<1>4. wd' \in {"mark", "exhausted"} => batch' # {}
  BY <1>0 DEF IInv
<1>5. ASSUME NEW k \in Msg, pc'[k] = "idle" PROVE Unknown(k)'
  <2>1. k # m /\ Unknown(k)
    BY <1>1, <1>5 DEF IInv
  <2> QED
    BY <1>0, <1>1, <2>1 DEF Unknown
<1>6. ASSUME NEW k \in Msg, pc'[k] # "idle" PROVE Spent(k)' <= Budget'
  <2>0. Budget' = Budget /\ restarts \in Nat /\ MaxRetries \in Nat
    BY <1>0, MessagesAssumption DEF Budget, TypeOK
  <2>1. CASE k = m
    <3>1. posts'[m] = 0 /\ Left(m)' \in Nat /\ Left(m)' <= MaxRetries
      BY <1>0, <1>2, NextSpentType DEF Unknown
    <3>2. One(pc'[m] = "buffered") <= 1 /\ One(Replayable(m)') <= 1
          /\ One(pc'[m] = "buffered") \in Nat /\ One(Replayable(m)') \in Nat
      BY DEF One
    <3>3. Spent(m)' = posts'[m] + One(pc'[m] = "buffered") + Left(m)' + One(Replayable(m)')
      BY DEF Spent
    <3>4. Spent(m)' <= MaxRetries + 2
      BY <2>0, <3>1, <3>2, <3>3
    <3>5. Budget >= MaxRetries + 2
      <4>1. restarts * (MaxRetries + 1) \in Nat
        BY <2>0
      <4>2. (restarts + 1) * (MaxRetries + 1) = restarts * (MaxRetries + 1) + (MaxRetries + 1)
        BY <2>0
      <4> QED
        BY <2>0, <4>1, <4>2 DEF Budget, Share
    <3>6. Budget \in Int /\ Spent(m)' \in Nat
      BY <1>2, <2>0, NextSpentType DEF Budget, Share
    <3> QED
      BY <2>0, <2>1, <3>4, <3>5, <3>6
  <2>2. CASE k # m
    <3>1. /\ entry'[k] = entry[k] /\ pc'[k] = pc[k] /\ posts'[k] = posts[k]
          /\ k \in buffer' => k \in buffer
      BY <1>0, <1>1, <2>2
    <3>2. Oldest(batch)' = Oldest(batch)
      BY <1>0, <1>1, OldestSame DEF Unknown, TypeOK
    <3>3. Replayable(k)' => Replayable(k)
      BY <1>0, <3>1, <3>2 DEF Replayable, Marking
    <3>4. Spent(k)' <= Spent(k)
      BY <1>0, <3>1, <3>3, SpentStays
    <3>5. Spent(k) <= Budget /\ Spent(k) \in Nat /\ Spent(k)' \in Nat /\ Budget \in Int
      BY <1>0, <1>2, <1>6, <2>0, <3>1, SpentType, NextSpentType DEF IInv, Budget, Share
    <3> QED
      BY <2>0, <3>4, <3>5
  <2> QED
    BY <2>1, <2>2
<1>7. ASSUME restarts' = 0 PROVE Named' /\ Believed'
  <2>1. Named /\ Believed
    BY <1>0, <1>7 DEF IInv
  <2>2. Named'
    <3>1. \A k \in Msg : IF pc'[k] = "idle" THEN id'[k] = 0 ELSE id'[k] # 0 /\ id'[k] <= seq'
      BY <1>1, <2>1 DEF Named
    <3>2. ASSUME NEW j \in Msg, NEW k \in Msg, pc'[j] # "idle", pc'[k] # "idle", id'[j] = id'[k]
          PROVE  j = k
      <4>1. \A i \in Msg : i # m /\ pc'[i] # "idle" => id'[i] <= seq /\ id'[i] \in Nat
        BY <1>1, <2>1 DEF Named
      <4>2. id'[m] = seq + 1
        BY <1>1
      <4>3. CASE j # m /\ k # m
        BY <1>1, <2>1, <3>2, <4>3 DEF Named
      <4>4. CASE j = m \/ k = m
        BY <1>1, <3>2, <4>1, <4>2, <4>4
      <4> QED
        BY <4>3, <4>4
    <3> QED
      BY <3>1, <3>2 DEF Named
  <2>3. Believed'
    <3>1. Fresh.status # "acked"
      BY DEF Fresh
    <3> QED
      BY <1>0, <1>1, <2>1, <3>1 DEF Believed
  <2> QED
    BY <2>2, <2>3
<1> QED
  BY <1>2, <1>3, <1>4, <1>5, <1>6, <1>7 DEF IInv

(* A post moves from what is to come to what was made. *)
LEMMA DeliverGood ==
  ASSUME IInv, NEW m \in Msg, Deliver(m)
  PROVE  IInv'
<1>0. /\ TypeOK
      /\ UNCHANGED <<buffer, entry, aged, id, seq, disk, shown, confirmed, tell, wd, batch,
                     restarts>>
      /\ \A k \in Msg : /\ pc'[k] = IF k = m THEN "posted" ELSE pc[k]
                        /\ posts'[k] = IF k = m THEN posts[m] + 1 ELSE posts[k]
      /\ pc[m] = "buffered"
  BY DEF IInv, Deliver, Post, storeVars, wdVars, TypeOK
<1>1. TypeOK'
  <2>1. posts[m] + 1 \in Nat
    BY <1>0, SpentType
  <2>2. posts' \in [Msg -> Nat]
    BY <1>0, <2>1 DEF Deliver, Post, TypeOK
  <2>3. pc' \in [Msg -> {"idle", "buffered", "posted", "over"}]
    BY <1>0 DEF Deliver, TypeOK
  <2> QED
    BY <1>0, <2>2, <2>3 DEF TypeOK
<1>2. Oldest(batch)' = Oldest(batch)
  BY <1>0, OldestSame
<1>3. \A k \in Msg : Replayable(k)' <=> Replayable(k)
  BY <1>0, <1>2 DEF Replayable, Marking
<1>4. ASSUME NEW k \in Msg PROVE Spent(k)' <= Spent(k)
  <2>1. CASE k # m
    BY <1>0, <1>3, <2>1, SpentStays
  <2>2. CASE k = m
    <3>1. Left(m)' = Left(m) /\ posts'[m] = posts[m] + 1
      BY <1>0 DEF Left
    <3>2. One(pc[m] = "buffered") = 1 /\ One(pc'[m] = "buffered") = 0
      BY <1>0 DEF One
    <3>3. One(Replayable(m)') = One(Replayable(m)) /\ One(Replayable(m)) \in {0, 1}
      BY <1>3 DEF One
    <3>4. posts[m] \in Nat /\ Left(m) \in Nat
      BY <1>0, SpentType
    <3> QED
      BY <2>2, <3>1, <3>2, <3>3, <3>4 DEF Spent
  <2> QED
    BY <2>1, <2>2
<1>5. \A k \in Msg : pc[k] = "idle" => Unknown(k)'
  BY <1>0 DEF IInv, Unknown
<1>6. restarts = 0 => Believed'
  BY <1>0 DEF IInv, Believed
<1>7. /\ \A k \in Msg : pc'[k] = "idle" <=> pc[k] = "idle"
      /\ wd' \in {"mark", "exhausted"} => batch' # {}
  BY <1>0 DEF IInv
<1> QED
  BY <1>0, <1>1, <1>4, <1>5, <1>6, <1>7, QuietStep

(* A step that sets the status of one message, other than to pending, and    *)
(* what the client knows; the watchdog stays where it is.                    *)
LEMMA StatusGood ==
  ASSUME IInv, NEW m \in Msg, NEW st \in Status \ {"pending"}, SetStatus(m, st),
         UNCHANGED <<buffer, id, seq, disk, posts, shown, wd, batch, restarts>>,
         aged' \in [Msg -> BOOLEAN], confirmed \subseteq confirmed', confirmed' \subseteq Msg,
         pc' \in [Msg -> {"idle", "buffered", "posted", "over"}],
         \A k \in Msg : /\ pc'[k] = "idle" <=> pc[k] = "idle"
                        /\ pc'[k] = "buffered" => pc[k] = "buffered",
         tell' \in [Msg -> {"idle", "sent", "waiting", "warned", "error"} \cup Done],
         \A k \in Msg : pc[k] = "idle" => tell'[k] = tell[k],
         \A k \in Msg : tell'[k] = "acked" => tell[k] = "acked",
         restarts = 0 /\ m \in buffer /\ st = "acked" => m \in confirmed'
  PROVE  IInv'
<1>0. TypeOK
  BY DEF IInv
<1>s. st \in Status /\ st # "pending"
  OBVIOUS
<1>1. /\ entry' \in [Msg -> Entry \cup {Absent}]
      /\ \A k \in Msg :
           /\ entry'[k].retries = entry[k].retries
           /\ entry'[k].status = IF k = m /\ m \in buffer THEN st ELSE entry[k].status
           /\ k # m \/ m \notin buffer => entry'[k] = entry[k]
  BY <1>0, <1>s, StatusSet
<1>2. TypeOK'
  BY <1>0, <1>1 DEF TypeOK
<1>3. Oldest(batch)' = Oldest(batch)
  BY OldestSame
<1>4. \A k \in Msg : Replayable(k)' => Replayable(k)
  BY <1>s, <1>1, <1>3 DEF Replayable, Marking
<1>5. \A k \in Msg : Spent(k)' <= Spent(k)
  BY <1>0, <1>1, <1>4, SpentStays
<1>6. ASSUME NEW k \in Msg, pc[k] = "idle" PROVE Unknown(k)'
  <2>1. Unknown(k)
    BY <1>6 DEF IInv
  <2>2. entry'[k] = entry[k]
    BY <1>1, <2>1 DEF Unknown
  <2> QED
    BY <1>6, <2>1, <2>2 DEF Unknown
<1>7. ASSUME restarts = 0 PROVE Believed'
  <2>1. Believed
    BY <1>7 DEF IInv
  <2> SUFFICES ASSUME NEW k \in Msg
               PROVE  /\ entry'[k].status = "acked" => k \in confirmed'
                      /\ tell'[k] = "acked" => k \in confirmed'
    BY DEF Believed
  <2> QED
    BY <1>1, <1>7, <2>1 DEF Believed
<1>8. wd' \in {"mark", "exhausted"} => batch' # {}
  BY DEF IInv
<1> QED
  BY <1>2, <1>5, <1>6, <1>7, <1>8, QuietStep

(* handleMessage gives up on its posts. *)
LEMMA DeliverFailsGood ==
  ASSUME IInv, NEW m \in Msg, DeliverFails(m)
  PROVE  IInv'
<1>0. TypeOK
  BY DEF IInv
<1>1. /\ SetStatus(m, "failed") /\ pc[m] = "buffered"
      /\ UNCHANGED <<buffer, aged, id, seq, disk, posts, shown, confirmed, wd, batch, restarts>>
      /\ pc' = [pc EXCEPT ![m] = "over"] /\ tell' = [tell EXCEPT ![m] = "error"]
  BY DEF DeliverFails, worldVars, wdVars
<1>2. /\ pc' \in [Msg -> {"idle", "buffered", "posted", "over"}]
      /\ \A k \in Msg : pc'[k] = IF k = m THEN "over" ELSE pc[k]
  BY <1>0, <1>1 DEF TypeOK
<1>3. /\ tell' \in [Msg -> {"idle", "sent", "waiting", "warned", "error"} \cup Done]
      /\ \A k \in Msg : tell'[k] = IF k = m THEN "error" ELSE tell[k]
  BY <1>0, <1>1 DEF TypeOK
<1>4. aged' \in [Msg -> BOOLEAN] /\ confirmed' \subseteq Msg /\ confirmed \subseteq confirmed'
  BY <1>0, <1>1 DEF TypeOK
<1>5. "failed" \in Status \ {"pending"} /\ "failed" # "acked"
  BY DEF Status, Done
<1>6. \A k \in Msg : /\ pc'[k] = "idle" <=> pc[k] = "idle"
                     /\ pc'[k] = "buffered" => pc[k] = "buffered"
                     /\ pc[k] = "idle" => tell'[k] = tell[k]
                     /\ tell'[k] = "acked" => tell[k] = "acked"
  BY <1>1, <1>2, <1>3
<1> QED
  BY <1>1, <1>2, <1>3, <1>4, <1>5, <1>6, StatusGood

(* MarkSent, and its time. *)
LEMMA MarkType ==
  ASSUME TypeOK, NEW m \in Msg, MarkSent(m)
  PROVE  SetStatus(m, "sent") /\ aged' \in [Msg -> BOOLEAN] /\ "sent" \in Status \ {"pending"}
BY DEF MarkSent, TypeOK, Status

(* handleMessage has posted and answers. *)
LEMMA ReplyGood ==
  ASSUME IInv, NEW m \in Msg, Reply(m)
  PROVE  IInv'
<1>0. TypeOK
  BY DEF IInv
<1>1. /\ MarkSent(m) /\ pc[m] = "posted"
      /\ UNCHANGED <<buffer, id, seq, disk, posts, shown, confirmed, wd, batch, restarts>>
      /\ pc' = [pc EXCEPT ![m] = "over"]
      /\ tell' = [tell EXCEPT ![m] = IF m \in Waits THEN "waiting" ELSE "sent"]
  BY DEF Reply, worldVars, wdVars
<1>2. /\ pc' \in [Msg -> {"idle", "buffered", "posted", "over"}]
      /\ \A k \in Msg : pc'[k] = IF k = m THEN "over" ELSE pc[k]
  BY <1>0, <1>1 DEF TypeOK
<1>3. /\ tell' \in [Msg -> {"idle", "sent", "waiting", "warned", "error"} \cup Done]
      /\ \A k \in Msg : k # m => tell'[k] = tell[k]
      /\ tell'[m] \in {"waiting", "sent"}
  BY <1>0, <1>1 DEF TypeOK
<1>4. confirmed' \subseteq Msg /\ confirmed \subseteq confirmed'
  BY <1>0, <1>1 DEF TypeOK
<1>5. SetStatus(m, "sent") /\ aged' \in [Msg -> BOOLEAN] /\ "sent" \in Status \ {"pending"}
  BY <1>0, <1>1, MarkType
<1>6. \A k \in Msg : /\ pc'[k] = "idle" <=> pc[k] = "idle"
                     /\ pc'[k] = "buffered" => pc[k] = "buffered"
                     /\ pc[k] = "idle" => tell'[k] = tell[k]
                     /\ tell'[k] = "acked" => tell[k] = "acked"
  BY <1>1, <1>2, <1>3
<1> QED
  BY <1>1, <1>2, <1>3, <1>4, <1>5, <1>6, StatusGood

(* The receiver acknowledges the message whose id it was shown. *)
LEMMA AckGood ==
  ASSUME IInv, NEW m \in Msg, Ack(m)
  PROVE  IInv'
<1>0. TypeOK
  BY DEF IInv
<1>1. /\ m \in shown /\ confirmed' = confirmed \cup {m}
      /\ UNCHANGED <<buffer, aged, id, seq, disk, pc, posts, shown, tell, wd, batch, restarts>>
  BY DEF Ack, wdVars
<1>2. PICK k \in buffer : id[k] = id[m] /\ entry' = [entry EXCEPT ![k].status = "acked"]
  BY DEF Ack
<1>3. k \in Msg /\ SetStatus(k, "acked") /\ "acked" \in Status \ {"pending"}
  BY <1>0, <1>2 DEF TypeOK, SetStatus, Status, Done
<1>4. pc[m] # "idle" /\ pc[k] # "idle"
  BY <1>1, <1>2, <1>3 DEF IInv, Unknown
<1>5. restarts = 0 => k \in confirmed'
  BY <1>1, <1>2, <1>3, <1>4 DEF IInv, Named
<1>6. /\ aged' \in [Msg -> BOOLEAN] /\ confirmed' \subseteq Msg /\ confirmed \subseteq confirmed'
      /\ pc' \in [Msg -> {"idle", "buffered", "posted", "over"}]
      /\ tell' \in [Msg -> {"idle", "sent", "waiting", "warned", "error"} \cup Done]
  BY <1>0, <1>1 DEF TypeOK
<1> QED
  BY <1>1, <1>3, <1>5, <1>6, StatusGood

(* The client sees the verdict of the message with its id, or stops waiting. *)
LEMMA ClientGood ==
  ASSUME IInv, NEW m \in Msg, Poll(m) \/ GiveUp(m)
  PROVE  IInv'
<1>0. /\ TypeOK /\ tell[m] = "waiting"
      /\ UNCHANGED <<buffer, entry, aged, id, seq, disk, pc, posts, shown, confirmed, wd, batch,
                     restarts>>
  BY DEF IInv, Poll, GiveUp, storeVars, worldVars, wdVars
<1>1. pc[m] # "idle"
  BY <1>0 DEF IInv, Unknown
<1>2. PICK v \in {"warned"} \cup Done :
        /\ tell' = [tell EXCEPT ![m] = v]
        /\ restarts = 0 /\ v = "acked" => m \in confirmed
  <2>1. CASE GiveUp(m)
    <3>1. "warned" \in {"warned"} \cup Done /\ "warned" # "acked"
      OBVIOUS
    <3>2. tell' = [tell EXCEPT ![m] = "warned"]
      BY <2>1 DEF GiveUp
    <3> QED
      BY <3>1, <3>2
  <2>2. CASE Poll(m)
    <3>1. PICK k \in buffer : /\ id[k] = id[m] /\ entry[k].status \in Done
                              /\ tell' = [tell EXCEPT ![m] = entry[k].status]
      BY <2>2 DEF Poll
    <3>2. k \in Msg /\ pc[k] # "idle"
      BY <1>0, <3>1 DEF IInv, TypeOK, Unknown
    <3>3. restarts = 0 => k = m /\ (entry[k].status = "acked" => k \in confirmed)
      BY <1>1, <3>1, <3>2 DEF IInv, Named, Believed
    <3> QED
      BY <3>1, <3>3
  <2> QED
    BY <2>1, <2>2
<1>3. /\ tell' \in [Msg -> {"idle", "sent", "waiting", "warned", "error"} \cup Done]
      /\ \A k \in Msg : tell'[k] = IF k = m THEN v ELSE tell[k]
  BY <1>0, <1>2 DEF TypeOK
<1>4. TypeOK'
  BY <1>0, <1>3 DEF TypeOK
<1>5. Oldest(batch)' = Oldest(batch)
  BY <1>0, OldestSame
<1>6. \A k \in Msg : Replayable(k)' => Replayable(k)
  BY <1>0, <1>5 DEF Replayable, Marking
<1>7. \A k \in Msg : Spent(k)' <= Spent(k)
  BY <1>0, <1>6, SpentStays
<1>8. \A k \in Msg : pc[k] = "idle" => Unknown(k)'
  BY <1>0, <1>1, <1>3 DEF IInv, Unknown
<1>9. restarts = 0 => Believed'
  BY <1>0, <1>2, <1>3 DEF IInv, Believed
<1>10. wd' \in {"mark", "exhausted"} => batch' # {}
  BY <1>0 DEF IInv
<1> QED
  BY <1>0, <1>4, <1>7, <1>8, <1>9, <1>10, QuietStep

(* Time passes; the watchdog sleeps, or collects what is pending; a snapshot *)
(* reaches the file.                                                         *)
LEMMA LookGood ==
  ASSUME IInv, (\E m \in Msg : Age(m)) \/ Collect \/ Sleep \/ Persist
  PROVE  IInv'
<1>0. /\ TypeOK
      /\ UNCHANGED <<buffer, entry, id, seq, pc, posts, shown, confirmed, tell, restarts>>
  BY DEF IInv, Age, Collect, Sleep, Persist, storeVars, worldVars, wdVars
<1>1. /\ aged' \in [Msg -> BOOLEAN]
      /\ \/ UNCHANGED <<wd, batch>>
         \/ wd = "retry" /\ wd' = "replay" /\ batch' = {m \in buffer : entry[m].status = "pending"}
         \/ wd = "replay" /\ wd' = "idle" /\ batch' = batch
      /\ disk' \in {disk, Snapshot}
  BY <1>0 DEF Age, Collect, Sleep, Persist, TypeOK, wdVars, storeVars
<1>2. TypeOK'
  <2>1. Snapshot \in [Msg -> Entry \cup {Absent}]
    BY <1>0 DEF TypeOK, Snapshot
  <2>2. disk' \in [Msg -> Entry \cup {Absent}]
    BY <1>0, <1>1, <2>1 DEF TypeOK
  <2>3. wd' \in {"idle", "retry", "exhausted", "replay", "mark"} /\ batch' \subseteq Msg
    BY <1>0, <1>1 DEF TypeOK
  <2> QED
    BY <1>0, <1>1, <2>2, <2>3 DEF TypeOK
<1>3. \A k \in Msg : Replayable(k)' => Replayable(k)
  <2>1. CASE UNCHANGED <<wd, batch>>
    <3>1. Oldest(batch)' = Oldest(batch)
      BY <1>0, <2>1, OldestSame
    <3> QED
      BY <1>0, <2>1, <3>1 DEF Replayable, Marking
  <2>2. CASE wd = "retry" /\ wd' = "replay" /\ batch' = {m \in buffer : entry[m].status = "pending"}
    BY <1>0, <2>2 DEF Replayable, Marking
  <2>3. CASE wd = "replay" /\ wd' = "idle" /\ batch' = batch
    BY <1>0, <2>3 DEF Replayable, Marking
  <2> QED
    BY <1>1, <2>1, <2>2, <2>3
<1>4. \A k \in Msg : Spent(k)' <= Spent(k)
  BY <1>0, <1>3, SpentStays
<1>5. ASSUME NEW k \in Msg, pc[k] = "idle" PROVE Unknown(k)'
  <2>1. Unknown(k)
    BY <1>5 DEF IInv
  <2>2. disk'[k] = Absent /\ k \notin batch'
    BY <1>1, <2>1 DEF Unknown, Snapshot
  <2> QED
    BY <1>0, <2>1, <2>2 DEF Unknown
<1>6. restarts = 0 => Believed'
  BY <1>0 DEF IInv, Believed
<1>7. wd' \in {"mark", "exhausted"} => batch' # {}
  BY <1>1 DEF IInv
<1> QED
  BY <1>0, <1>2, <1>4, <1>5, <1>6, <1>7, QuietStep

(* Who was sent and not acknowledged in time is timed out. *)
LEMMA ScanGood ==
  ASSUME IInv, Scan
  PROVE  IInv'
<1>0. /\ TypeOK /\ wd = "idle" /\ wd' = "retry"
      /\ UNCHANGED <<buffer, aged, id, seq, disk, pc, posts, shown, confirmed, tell, restarts>>
      /\ batch' = {m \in buffer : entry[m].status = "sent" /\ aged[m]}
      /\ entry' = [m \in Msg |-> IF m \in batch' THEN [entry[m] EXCEPT !.status = "timed_out"]
                                                 ELSE entry[m]]
  BY DEF IInv, Scan, worldVars
<1>1. \A k \in Msg : /\ entry'[k] \in Entry \cup {Absent}
                     /\ entry'[k].retries = entry[k].retries
                     /\ entry'[k].status \in {"timed_out", entry[k].status}
                     /\ k \notin batch' => entry'[k] = entry[k]
  <2> SUFFICES ASSUME NEW k \in Msg
               PROVE  /\ entry'[k] \in Entry \cup {Absent}
                      /\ entry'[k].retries = entry[k].retries
                      /\ entry'[k].status \in {"timed_out", entry[k].status}
                      /\ k \notin batch' => entry'[k] = entry[k]
    OBVIOUS
  <2>1. entry[k] \in Entry \cup {Absent}
    BY <1>0 DEF TypeOK
  <2>2. CASE k \in batch'
    <3>1. entry'[k] = [entry[k] EXCEPT !.status = "timed_out"]
      BY <1>0, <2>2
    <3> QED
      BY <2>1, <2>2, <3>1 DEF Entry, Absent, Status
  <2>3. CASE k \notin batch'
    <3>1. entry'[k] = entry[k]
      BY <1>0, <2>3
    <3> QED
      BY <2>1, <2>3, <3>1
  <2> QED
    BY <2>2, <2>3
<1>2. TypeOK'
  <2>1. entry' \in [Msg -> Entry \cup {Absent}]
    BY <1>0, <1>1
  <2>2. batch' \subseteq Msg
    BY <1>0 DEF TypeOK
  <2> QED
    BY <1>0, <2>1, <2>2 DEF TypeOK
<1>3. \A k \in Msg : Replayable(k)' => Replayable(k)
  BY <1>0, <1>1 DEF Replayable, Marking
<1>4. \A k \in Msg : Spent(k)' <= Spent(k)
  BY <1>0, <1>1, <1>3, SpentStays
<1>5. \A k \in Msg : pc[k] = "idle" => Unknown(k)'
  BY <1>0, <1>1 DEF IInv, Unknown
<1>6. restarts = 0 => Believed'
  BY <1>0, <1>1 DEF IInv, Believed
<1>7. ~(wd' \in {"mark", "exhausted"})
  BY <1>0
<1> QED
  BY <1>0, <1>2, <1>4, <1>5, <1>6, <1>7, QuietStep

(* A retry costs the message one of those it has left, and makes it pending. *)
LEMMA RetryGood ==
  ASSUME IInv, NEW m \in Msg, Retry(m)
  PROVE  IInv'
<1>0. /\ TypeOK /\ wd = "retry" /\ batch # {} /\ m = Oldest(batch)
      /\ UNCHANGED <<buffer, aged, id, seq, disk, pc, posts, shown, confirmed, tell, restarts>>
  BY DEF IInv, Retry, worldVars
<1> DEFINE r == entry[m].retries
<1>1. r \in Nat /\ MaxRetries \in Nat
  BY <1>0, SpentType, MessagesAssumption
<1>2. \A k \in Msg : entry'[k] = IF k = m /\ m \in buffer
                                 THEN [status |-> "pending", retries |-> r + 1] ELSE entry[k]
  BY <1>0 DEF Retry, TypeOK
<1>3. \/ /\ m \in buffer /\ r + 1 > MaxRetries
         /\ wd' = "exhausted" /\ batch' = batch
      \/ /\ m \in buffer => r + 1 <= MaxRetries
         /\ wd' = "retry" /\ batch' = batch \ {m}
  <2>1. m \in buffer => entry'[m].retries = r + 1
    BY <1>2
  <2> QED
    BY <1>0, <1>1, <2>1 DEF Retry
<1>4. TypeOK'
  <2> DEFINE e == [status |-> "pending", retries |-> r + 1]
  <2>1. e \in Entry
    BY <1>1 DEF Entry, Status
  <2> HIDE DEF r
  <2>2. entry' = IF m \in buffer THEN [entry EXCEPT ![m] = e] ELSE entry
    BY DEF Retry, r
  <2> HIDE DEF e
  <2>3. entry' \in [Msg -> Entry \cup {Absent}]
    BY <1>0, <2>1, <2>2 DEF TypeOK
  <2>4. wd' \in {"idle", "retry", "exhausted", "replay", "mark"} /\ batch' \subseteq Msg
    BY <1>0, <1>3 DEF TypeOK
  <2> QED
    BY <1>0, <2>3, <2>4 DEF TypeOK
<1> HIDE DEF r
<1>5. ASSUME NEW k \in Msg PROVE Spent(k)' <= Spent(k)
  <2>1. CASE k # m
    <3>1. entry'[k] = entry[k]
      BY <1>2, <2>1
    <3>2. Replayable(k)' => Replayable(k)
      BY <1>0, <1>3, <2>1, <3>1 DEF Replayable, Marking
    <3> QED
      BY <1>0, <3>1, <3>2, SpentStays
  <2>2. CASE k = m /\ m \notin buffer
    <3>1. entry'[k] = entry[k]
      BY <1>2, <2>2
    <3>2. ~Replayable(k)'
      BY <1>0, <1>3, <2>2 DEF Replayable
    <3> QED
      BY <1>0, <3>1, <3>2, SpentStays
  <2>3. CASE k = m /\ m \in buffer /\ r + 1 > MaxRetries
    <3>1. batch' = batch /\ wd' = "exhausted" /\ Oldest(batch)' = Oldest(batch)
      BY <1>0, <1>1, <1>3, <2>3, OldestSame
    <3>2. ~Replayable(m)' /\ entry'[m].retries = r + 1
      BY <1>0, <1>2, <2>3, <3>1 DEF Replayable, Marking
    <3>3. Left(m)' = 0
      BY <1>1, <2>3, <3>2 DEF Left
    <3>4. One(Replayable(m)') = 0 /\ One(Replayable(m)) \in {0, 1}
      BY <3>2 DEF One
    <3>5. posts'[m] = posts[m] /\ One(pc'[m] = "buffered") = One(pc[m] = "buffered")
          /\ One(pc[m] = "buffered") \in {0, 1} /\ posts[m] \in Nat /\ Left(m) \in Nat
      BY <1>0, SpentType DEF One
    <3> QED
      BY <2>3, <3>3, <3>4, <3>5 DEF Spent
  <2>4. CASE k = m /\ m \in buffer /\ r + 1 <= MaxRetries
    <3>1. entry'[m].retries = r + 1 /\ r < MaxRetries
      BY <1>1, <1>2, <2>4
    <3>2. Left(m) = MaxRetries - r
      BY <3>1 DEF Left, r
    <3>3. Left(m)' = Left(m) - 1
      BY <1>1, <2>4, <3>1, <3>2 DEF Left
    <3>4. One(Replayable(m)') \in {0, 1} /\ One(Replayable(m)) \in {0, 1}
      BY DEF One
    <3>5. posts'[m] = posts[m] /\ One(pc'[m] = "buffered") = One(pc[m] = "buffered")
          /\ One(pc[m] = "buffered") \in {0, 1} /\ posts[m] \in Nat /\ Left(m) \in Nat
      BY <1>0, SpentType DEF One
    <3> QED
      BY <2>4, <3>3, <3>4, <3>5 DEF Spent
  <2> QED
    BY <1>1, <2>1, <2>2, <2>3, <2>4
<1>6. ASSUME NEW k \in Msg, pc[k] = "idle" PROVE Unknown(k)'
  <2>1. Unknown(k)
    BY <1>6 DEF IInv
  <2>2. entry'[k] = entry[k] /\ k \notin batch'
    BY <1>2, <1>3, <2>1 DEF Unknown
  <2> QED
    BY <1>0, <2>1, <2>2 DEF Unknown
<1>7. restarts = 0 => Believed'
  BY <1>0, <1>2 DEF IInv, Believed
<1>8. wd' \in {"mark", "exhausted"} => batch' # {}
  BY <1>0, <1>3
<1> QED
  BY <1>0, <1>4, <1>5, <1>6, <1>7, <1>8, QuietStep

(* The watchdog sets the status of the message that it holds and goes on. *)
LEMMA NextOneGood ==
  ASSUME IInv, NEW m \in Msg, NEW st \in Status \ {"pending", "acked"},
         m = Oldest(batch), batch' = batch \ {m},
         SetStatus(m, st) \/ (wd = "replay" /\ entry' = entry),
         \/ wd = "exhausted" /\ wd' = "retry"
         \/ wd = "replay" /\ wd' = "replay"
         \/ wd = "mark" /\ wd' = "replay",
         aged' \in [Msg -> BOOLEAN],
         UNCHANGED <<buffer, id, seq, disk, pc, posts, shown, confirmed, tell, restarts>>
  PROVE  IInv'
<1>0. TypeOK /\ st \in Status
  BY DEF IInv
<1>1. /\ entry' \in [Msg -> Entry \cup {Absent}]
      /\ \A k \in Msg :
           /\ entry'[k].retries = entry[k].retries
           /\ entry'[k].status \in {st, entry[k].status}
           /\ k # m \/ m \notin buffer => entry'[k] = entry[k]
      /\ wd \in {"mark", "exhausted"} /\ m \in buffer => entry'[m].status = st
  <2>1. CASE SetStatus(m, st)
    BY <1>0, <2>1, StatusSet
  <2>2. CASE wd = "replay" /\ entry' = entry
    BY <1>0, <2>2 DEF TypeOK
  <2> QED
    BY <2>1, <2>2
<1>2. TypeOK'
  <2>1. wd' \in {"idle", "retry", "exhausted", "replay", "mark"} /\ batch' \subseteq Msg
    BY <1>0 DEF TypeOK
  <2> QED
    BY <1>0, <1>1, <2>1 DEF TypeOK
<1>3. ASSUME NEW k \in Msg PROVE Replayable(k)' => Replayable(k)
  <2>1. st # "pending"
    OBVIOUS
  <2>2. CASE k # m
    <3>1. entry'[k] = entry[k] /\ (k \in batch' <=> k \in batch) /\ ~Marking(k)
      BY <1>1, <2>2 DEF Marking
    <3> QED
      BY <3>1 DEF Replayable
  <2>3. CASE k = m /\ wd \in {"mark", "exhausted"}
    <3>1. m \notin batch' /\ (m \in buffer => entry'[m].status # "pending") /\ buffer' = buffer
      BY <1>1, <2>1, <2>3
    <3> QED
      BY <2>3, <3>1 DEF Replayable
  <2>4. CASE k = m /\ wd = "replay"
    <3>1. m \notin batch' /\ (entry'[m].status = "pending" => entry[m].status = "pending")
          /\ buffer' = buffer
      BY <1>1, <2>1
    <3> QED
      BY <2>4, <3>1 DEF Replayable, Marking
  <2> QED
    BY <2>2, <2>3, <2>4
<1>4. \A k \in Msg : Spent(k)' <= Spent(k)
  BY <1>0, <1>1, <1>3, SpentStays
<1>5. ASSUME NEW k \in Msg, pc[k] = "idle" PROVE Unknown(k)'
  <2>1. Unknown(k)
    BY <1>5 DEF IInv
  <2>2. entry'[k] = entry[k] /\ k \notin batch'
    BY <1>1, <2>1 DEF Unknown
  <2> QED
    BY <2>1, <2>2 DEF Unknown
<1>6. restarts = 0 => Believed'
  BY <1>1 DEF IInv, Believed
<1> QED
  BY <1>2, <1>4, <1>5, <1>6, QuietStep

(* A message whose retries are spent fails; a replayed one is marked; one    *)
(* that cannot be replayed stays as it is, or fails.                         *)
LEMMA TreatedGood ==
  ASSUME IInv, NEW m \in Msg, Exhaust(m) \/ ReplayMark(m) \/ ReplayFails(m)
  PROVE  IInv'
<1>0. TypeOK
  BY DEF IInv
<1>1. "failed" \in Status \ {"pending", "acked"} /\ "sent" \in Status \ {"pending", "acked"}
  BY DEF Status, Done
<1>2. CASE Exhaust(m)
  <2>1. /\ wd = "exhausted" /\ wd' = "retry" /\ m = Oldest(batch) /\ batch' = batch \ {m}
        /\ SetStatus(m, "failed")
        /\ UNCHANGED <<buffer, aged, id, seq, disk, pc, posts, shown, confirmed, tell, restarts>>
    BY <1>2 DEF Exhaust, worldVars
  <2>2. aged' \in [Msg -> BOOLEAN]
    BY <1>0, <2>1 DEF TypeOK
  <2>3. SetStatus(m, "failed") \/ (wd = "replay" /\ entry' = entry)
    BY <2>1
  <2>4. \/ wd = "exhausted" /\ wd' = "retry"
        \/ wd = "replay" /\ wd' = "replay"
        \/ wd = "mark" /\ wd' = "replay"
    BY <2>1
  <2> QED
    BY <1>1, <2>1, <2>2, <2>3, <2>4, NextOneGood, Zenon
<1>3. CASE ReplayMark(m)
  <2>1. /\ wd = "mark" /\ wd' = "replay" /\ m = Oldest(batch) /\ batch' = batch \ {m}
        /\ MarkSent(m)
        /\ UNCHANGED <<buffer, id, seq, disk, pc, posts, shown, confirmed, tell, restarts>>
    BY <1>3 DEF ReplayMark, worldVars
  <2>2. SetStatus(m, "sent") /\ aged' \in [Msg -> BOOLEAN]
    BY <1>0, <2>1, MarkType
  <2>3. SetStatus(m, "sent") \/ (wd = "replay" /\ entry' = entry)
    BY <2>1, <2>2
  <2>4. \/ wd = "exhausted" /\ wd' = "retry"
        \/ wd = "replay" /\ wd' = "replay"
        \/ wd = "mark" /\ wd' = "replay"
    BY <2>1
  <2> QED
    BY <1>1, <2>1, <2>2, <2>3, <2>4, NextOneGood, Zenon
<1>4. CASE ReplayFails(m)
  <2>1. /\ wd = "replay" /\ wd' = "replay" /\ m = Oldest(batch) /\ batch' = batch \ {m}
        /\ SetStatus(m, "failed") \/ entry' = entry
        /\ UNCHANGED <<buffer, aged, id, seq, disk, pc, posts, shown, confirmed, tell, restarts>>
    BY <1>4 DEF ReplayFails, worldVars
  <2>2. aged' \in [Msg -> BOOLEAN]
    BY <1>0, <2>1 DEF TypeOK
  <2>3. SetStatus(m, "failed") \/ (wd = "replay" /\ entry' = entry)
    BY <2>1
  <2>4. \/ wd = "exhausted" /\ wd' = "retry"
        \/ wd = "replay" /\ wd' = "replay"
        \/ wd = "mark" /\ wd' = "replay"
    BY <2>1
  <2> QED
    BY <1>1, <2>1, <2>2, <2>3, <2>4, NextOneGood, Zenon
<1> QED
  BY <1>2, <1>3, <1>4

(* The watchdog posts a message that it held: one post less to come. *)
LEMMA ReplayGood ==
  ASSUME IInv, NEW m \in Msg, Replay(m)
  PROVE  IInv'
<1>0. /\ TypeOK /\ wd = "replay" /\ wd' = "mark" /\ batch # {} /\ m = Oldest(batch)
      /\ UNCHANGED <<buffer, entry, aged, id, seq, disk, pc, confirmed, tell, batch, restarts>>
  BY DEF IInv, Replay, storeVars
<1>1. m \in batch /\ pc[m] # "idle"
  <2>1. m \in batch
    BY <1>0, OldestIn DEF TypeOK
  <2> QED
    BY <2>1 DEF IInv, Unknown
<1>2. /\ posts' \in [Msg -> Nat] /\ shown' \subseteq shown \cup {m}
      /\ \A k \in Msg : k # m => posts'[k] = posts[k]
      /\ posts'[m] \in {posts[m], posts[m] + 1}
  <2>1. posts \in [Msg -> Nat]
    BY <1>0 DEF TypeOK
  <2>2. posts' = posts \/ posts' = [posts EXCEPT ![m] = posts[m] + 1]
    BY DEF Replay, Post
  <2>3. posts[m] + 1 \in Nat
    BY <2>1
  <2>4. shown' \subseteq shown \cup {m}
    BY DEF Replay
  <2> QED
    BY <2>1, <2>2, <2>3, <2>4
<1>3. TypeOK'
  BY <1>0, <1>2 DEF TypeOK
<1>4. Oldest(batch)' = Oldest(batch)
  BY <1>0, OldestSame
<1>5. ASSUME NEW k \in Msg PROVE Spent(k)' <= Spent(k)
  <2>1. CASE k # m
    <3>1. Replayable(k)' => Replayable(k)
      BY <1>0, <2>1 DEF Replayable, Marking
    <3> QED
      BY <1>0, <1>2, <2>1, <3>1, SpentStays
  <2>2. CASE k = m
    <3>1. Replayable(m) /\ ~Replayable(m)'
      BY <1>0, <1>1, <1>4 DEF Replayable, Marking
    <3>2. One(Replayable(m)) = 1 /\ One(Replayable(m)') = 0
      BY <3>1 DEF One
    <3>3. Left(m)' = Left(m) /\ One(pc'[m] = "buffered") = One(pc[m] = "buffered")
      BY <1>0 DEF Left, One
    <3>4. posts[m] \in Nat /\ Left(m) \in Nat /\ One(pc[m] = "buffered") \in {0, 1}
      BY <1>0, SpentType DEF One
    <3> QED
      BY <1>2, <2>2, <3>2, <3>3, <3>4 DEF Spent
  <2> QED
    BY <2>1, <2>2
<1>6. ASSUME NEW k \in Msg, pc[k] = "idle" PROVE Unknown(k)'
  <2>1. Unknown(k) /\ k # m
    BY <1>1, <1>6 DEF IInv
  <2> QED
    BY <1>0, <1>2, <2>1 DEF Unknown
<1>7. restarts = 0 => Believed'
  BY <1>0 DEF IInv, Believed
<1> QED
  BY <1>0, <1>3, <1>5, <1>6, <1>7, QuietStep

(* A restart forgets; each life has its share of the posts. *)
LEMMA RestartGood ==
  ASSUME IInv, Restart
  PROVE  IInv'
<1> DEFINE kept == {m \in Msg : disk[m] # Absent}
<1>0. /\ TypeOK /\ restarts \in Nat /\ restarts' = restarts + 1
      /\ buffer' = kept /\ entry' = disk /\ wd' = "idle" /\ batch' = {}
      /\ seq' = Max({id[m] : m \in kept} \cup {0})
      /\ pc' = [m \in Msg |-> IF pc[m] = "idle" THEN "idle" ELSE "over"]
      /\ tell' = [m \in Msg |-> IF pc[m] \in {"buffered", "posted"} THEN "error" ELSE tell[m]]
      /\ UNCHANGED <<aged, id, disk, posts, shown, confirmed>>
  BY DEF IInv, Restart, TypeOK, worldVars
<1>1. TypeOK'
  <2>1. seq' \in Nat
    <3> DEFINE S == {id[m] : m \in kept} \cup {0}
    <3>1. PICK b \in Nat : \A m \in Msg : id[m] <= b
      BY DEF IInv
    <3>2. S \in SUBSET Nat /\ S # {} /\ \A x \in S : x <= b
      BY <1>0, <3>1 DEF TypeOK
    <3> HIDE DEF S
    <3>3. Max(S) \in S
      BY <3>2, MaxIn
    <3>4. Max(S) \in Nat
      BY <3>2, <3>3
    <3> QED
      BY <1>0, <3>4 DEF S
  <2>2. pc' \in [Msg -> {"idle", "buffered", "posted", "over"}]
    BY <1>0
  <2>3. tell' \in [Msg -> {"idle", "sent", "waiting", "warned", "error"} \cup Done]
    BY <1>0 DEF TypeOK
  <2>4. buffer' \subseteq Msg /\ batch' \subseteq Msg /\ restarts' \in Nat
    BY <1>0
  <2> QED
    BY <1>0, <2>1, <2>2, <2>3, <2>4 DEF TypeOK
<1>2. \E b \in Nat : \A m \in Msg : id'[m] <= b
  BY <1>0 DEF IInv
<1>3. ASSUME NEW m \in Msg, pc'[m] = "idle" PROVE Unknown(m)'
  <2>1. pc[m] = "idle" /\ Unknown(m)
    BY <1>0, <1>3 DEF IInv
  <2> QED
    BY <1>0, <2>1 DEF Unknown
<1>4. ASSUME NEW m \in Msg, pc'[m] # "idle" PROVE Spent(m)' <= Budget'
  <2>1. pc[m] # "idle" /\ pc'[m] = "over"
    BY <1>0, <1>4
  <2>2. Spent(m) <= Budget
    BY <2>1 DEF IInv
  <2>3. Spent(m) = posts[m] + One(pc[m] = "buffered") + Left(m) + One(Replayable(m))
        /\ posts[m] \in Nat /\ Left(m) \in Nat
    BY <1>0, SpentType DEF Spent
  <2>4. One(pc[m] = "buffered") \in {0, 1} /\ One(Replayable(m)) \in {0, 1}
        /\ One(pc'[m] = "buffered") = 0 /\ One(Replayable(m)') \in {0, 1}
    BY <2>1 DEF One
  <2>5. MaxRetries \in Nat /\ Left(m)' \in Nat /\ Left(m)' <= MaxRetries
    BY <1>1, NextSpentType, MessagesAssumption
  <2>6. Spent(m)' = posts[m] + Left(m)' + One(Replayable(m)')
    BY <1>0, <2>3, <2>4, <2>5 DEF Spent
  <2>7. Budget' = Budget + Share /\ Budget \in Nat /\ Share = MaxRetries + 1
    <3>1. Budget = (restarts + 1) * (MaxRetries + 1) + 1
          /\ Budget' = (restarts + 2) * (MaxRetries + 1) + 1
      BY <1>0 DEF Budget, Share
    <3>2. (restarts + 2) * (MaxRetries + 1) = (restarts + 1) * (MaxRetries + 1) + (MaxRetries + 1)
          /\ (restarts + 1) * (MaxRetries + 1) \in Nat
      BY <1>0, <2>5
    <3> QED
      BY <2>5, <3>1, <3>2 DEF Share
  <2>8. posts[m] <= Budget
    BY <2>2, <2>3, <2>4, <2>7
  <2> QED
    BY <2>3, <2>4, <2>5, <2>6, <2>7, <2>8
<1>5. wd' \notin {"mark", "exhausted"} /\ restarts' # 0
  BY <1>0
<1> QED
  BY <1>1, <1>2, <1>3, <1>4, <1>5 DEF IInv

-----------------------------------------------------------------------------
(* Every step keeps the invariant. *)
LEMMA NextIInv == IInv /\ [Next]_vars => IInv'
<1> SUFFICES ASSUME IInv, [Next]_vars PROVE IInv'
  OBVIOUS
<1>1. ASSUME NEW m \in Msg, Handler(m) PROVE IInv'
  BY <1>1, BufferGood, DeliverGood, DeliverFailsGood, ReplyGood DEF Handler
<1>2. ASSUME NEW m \in Msg, Outside(m) PROVE IInv'
  BY <1>2, AckGood, ClientGood DEF Outside
<1>3. ASSUME NEW m \in Msg, Age(m) PROVE IInv'
  BY <1>3, LookGood
<1>4. ASSUME Watchdog PROVE IInv'
  BY <1>4, ScanGood, LookGood, RetryGood, TreatedGood, ReplayGood DEF Watchdog
<1>5. CASE UNCHANGED vars
  <2>1. /\ UNCHANGED <<buffer, entry, aged, id, seq, disk, pc, posts, shown, confirmed, tell>>
        /\ UNCHANGED <<wd, batch, restarts>>
    BY <1>5 DEF vars, storeVars, worldVars, wdVars
  <2>2. TypeOK'
    BY <2>1 DEF IInv, TypeOK
  <2>3. Oldest(batch)' = Oldest(batch)
    BY <2>1, OldestSame
  <2>4. \A m \in Msg : Replayable(m)' => Replayable(m)
    BY <2>1, <2>3 DEF Replayable, Marking
  <2>5. \A m \in Msg : Spent(m)' <= Spent(m)
    BY <2>1, <2>4, SpentStays DEF IInv
  <2>6. \A m \in Msg : pc[m] = "idle" => Unknown(m)'
    BY <2>1 DEF IInv, Unknown
  <2>7. restarts = 0 => Believed'
    BY <2>1 DEF IInv, Believed
  <2>8. wd' \in {"mark", "exhausted"} => batch' # {}
    BY <2>1 DEF IInv
  <2> QED
    BY <2>1, <2>2, <2>5, <2>6, <2>7, <2>8, QuietStep
<1> QED
  BY <1>1, <1>2, <1>3, <1>4, <1>5, LookGood, RestartGood DEF Next

(* The inductive invariant holds. *)
THEOREM Invariance == Spec => []IInv
<1> QED
  BY InitIInv, NextIInv, PTL DEF Spec

(* Types hold; the sequence of a reloaded store is a number. *)
THEOREM TypesHold == Spec => []TypeOK
<1>1. IInv => TypeOK
  BY DEF IInv
<1> QED
  BY <1>1, Invariance, PTL

(* message_ack.go: the posts of a message are bounded by its retries and the *)
(* daemon's restarts, whatever handler and watchdog do at the same time.     *)
THEOREM PostsAreBounded == Spec => []DeliveriesBounded
<1>1. IInv => DeliveriesBounded
  <2> SUFFICES ASSUME IInv, NEW m \in Msg
               PROVE  posts[m] <= (restarts + 1) * (MaxRetries + 1) + 1
    BY DEF DeliveriesBounded
  <2>0. restarts \in Nat /\ MaxRetries \in Nat /\ TypeOK
    BY MessagesAssumption DEF IInv, TypeOK
  <2>1. Budget = (restarts + 1) * (MaxRetries + 1) + 1 /\ Budget \in Nat
    <3>1. (restarts + 1) * (MaxRetries + 1) \in Nat
      BY <2>0
    <3> QED
      BY <3>1 DEF Budget, Share
  <2>2. CASE pc[m] = "idle"
    <3>1. posts[m] = 0
      BY <2>2 DEF IInv, Unknown
    <3> QED
      BY <2>1, <3>1
  <2>3. CASE pc[m] # "idle"
    <3>1. Spent(m) <= Budget
      BY <2>3 DEF IInv
    <3>2. posts[m] \in Nat /\ Left(m) \in Nat
      BY <2>0, SpentType
    <3>3. One(pc[m] = "buffered") \in Nat /\ One(Replayable(m)) \in Nat
      BY DEF One
    <3>4. posts[m] <= Budget
      BY <2>1, <3>1, <3>2, <3>3 DEF Spent
    <3> QED
      BY <2>1, <3>4
  <2> QED
    BY <2>2, <2>3
<1> QED
  BY <1>1, Invariance, PTL

(* waitForACK: as long as the daemon has not been restarted, "ACK received"  *)
(* is true of this very message, however ids, evictions and retries go.      *)
THEOREM AckReceivedIsTrue == Spec => [](restarts = 0 => AckIsTrue)
<1>1. IInv => (restarts = 0 => AckIsTrue)
  BY DEF IInv, Believed, AckIsTrue
<1> QED
  BY <1>1, Invariance, PTL

(* MarkAcked's verdict is overwritten only by a handler or a watchdog that   *)
(* had begun with the message before.                                        *)
THEOREM AckKept == Spec => AckLostOnlyInFlight
<1> DEFINE A == \A m \in buffer :
                  entry[m].status = "acked" /\ entry'[m].status # "acked"
                    => InFlight(m) \/ restarts' # restarts
<1>1. IInv /\ [Next]_vars => [A]_vars
  <2> SUFFICES ASSUME IInv, Next, NEW m \in buffer, entry[m].status = "acked",
                      entry'[m].status # "acked", restarts' = restarts
               PROVE  InFlight(m)
    BY DEF InFlight
  <2>0. /\ TypeOK /\ m \in Msg /\ pc[m] # "idle" /\ entry' # entry
        /\ entry \in [Msg -> Entry \cup {Absent}]
    BY DEF IInv, TypeOK, Unknown
  <2>1. ASSUME NEW k \in Msg, NEW st, SetStatus(k, st) PROVE k = m /\ st # "acked"
    BY <2>0, <2>1 DEF SetStatus
  <2>2. ASSUME NEW k \in Msg, Handler(k) PROVE InFlight(m)
    <3>1. CASE Buffer(k)
      <4>1. k # m /\ entry' = [entry EXCEPT ![k] = Fresh]
        BY <2>0, <3>1 DEF Buffer
      <4> QED
        BY <2>0, <4>1
    <3>2. CASE Deliver(k)
      BY <2>0, <3>2 DEF Deliver, storeVars
    <3>3. CASE DeliverFails(k) \/ Reply(k)
      <4>1. k = m /\ pc[k] \in {"buffered", "posted"}
        BY <2>1, <3>3 DEF DeliverFails, Reply, MarkSent
      <4> QED
        BY <4>1 DEF InFlight
    <3> QED
      BY <2>2, <3>1, <3>2, <3>3 DEF Handler
  <2>3. ASSUME NEW k \in Msg, Outside(k) \/ Age(k) PROVE FALSE
    <3>1. CASE Ack(k)
      <4>1. PICK j \in buffer : entry' = [entry EXCEPT ![j].status = "acked"]
        BY <3>1 DEF Ack
      <4>2. SetStatus(j, "acked") /\ j \in Msg
        BY <2>0, <4>1 DEF SetStatus, TypeOK
      <4> QED
        BY <2>1, <4>2
    <3>2. CASE Poll(k) \/ GiveUp(k) \/ Age(k)
      BY <2>0, <3>2 DEF Poll, GiveUp, Age, storeVars
    <3> QED
      BY <2>3, <3>1, <3>2 DEF Outside
  <2>4. ASSUME Watchdog PROVE InFlight(m)
    <3>1. CASE Scan
      <4>1. m \notin batch'
        BY <3>1 DEF Scan
      <4> QED
        BY <2>0, <3>1, <4>1 DEF Scan
    <3>2. CASE Collect \/ Sleep
      BY <2>0, <3>2 DEF Collect, Sleep, storeVars
    <3>3. ASSUME NEW k \in Msg,
                 Retry(k) \/ Exhaust(k) \/ ReplayFails(k) \/ ReplayMark(k)
          PROVE  InFlight(m)
      <4>1. batch # {} /\ k = Oldest(batch)
        BY <3>3 DEF IInv, Retry, Exhaust, ReplayFails, ReplayMark
      <4>2. k \in batch
        BY <2>0, <4>1, OldestIn DEF TypeOK
      <4>3. k = m
        <5>1. CASE Retry(k)
          BY <2>0, <5>1 DEF Retry
        <5>2. CASE Exhaust(k) \/ ReplayFails(k) \/ ReplayMark(k)
          BY <2>0, <2>1, <5>2 DEF Exhaust, ReplayFails, ReplayMark, MarkSent
        <5> QED
          BY <3>3, <5>1, <5>2
      <4> QED
        BY <4>2, <4>3 DEF InFlight
    <3>4. ASSUME NEW k \in Msg, Replay(k) PROVE FALSE
      BY <2>0, <3>4 DEF Replay, storeVars
    <3> QED
      BY <2>4, <3>1, <3>2, <3>3, <3>4 DEF Watchdog
  <2>5. ~Persist /\ ~Restart
    <3>1. ~Persist
      BY <2>0 DEF Persist, storeVars
    <3>2. restarts + 1 # restarts
      BY <2>0 DEF TypeOK
    <3> QED
      BY <3>1, <3>2 DEF Restart
  <2> QED
    BY <2>2, <2>3, <2>4, <2>5 DEF Next
<1> QED
  BY <1>1, Invariance, PTL DEF Spec, AckLostOnlyInFlight

(* evictLocked: what is dropped to make room is done with, unless nothing    *)
(* that stays is.                                                            *)
THEOREM CompletedGoFirst == Spec => OpenEvictedLast
<1> DEFINE A == restarts' = restarts
                  => \A m \in buffer \ buffer' : entry[m].status \in Done
                        \/ \A k \in buffer' : entry'[k].status \notin Done
<1>1. IInv /\ [Next]_vars => [A]_vars
  <2> SUFFICES ASSUME IInv, Next, restarts' = restarts, NEW m \in buffer \ buffer'
               PROVE  \/ entry[m].status \in Done
                      \/ \A k \in buffer' : entry'[k].status \notin Done
    OBVIOUS
  <2>0. TypeOK /\ m \in Msg /\ buffer' # buffer
    BY DEF IInv, TypeOK
  <2>1. PICK n \in Msg : Buffer(n)
    <3>1. restarts + 1 # restarts
      BY <2>0 DEF TypeOK
    <3>2. ~Restart /\ ~Persist
      BY <2>0, <3>1 DEF Restart, Persist, storeVars
    <3>3. ~Watchdog
      BY <2>0 DEF Watchdog, Scan, Collect, Sleep, Retry, Exhaust, Replay, ReplayFails,
                  ReplayMark, storeVars
    <3>4. \A k \in Msg : /\ ~Outside(k) /\ ~Age(k)
                         /\ ~Deliver(k) /\ ~DeliverFails(k) /\ ~Reply(k)
      BY <2>0 DEF Outside, Ack, Poll, GiveUp, Age, Deliver, DeliverFails, Reply, storeVars
    <3> QED
      BY <3>2, <3>3, <3>4 DEF Next, Handler
  <2> DEFINE s == buffer \cup {n}
             done == {x \in s : entry'[x].status \in Done}
             prey == IF done # {} THEN done ELSE s
             gone == CHOOSE x \in prey : \A k \in prey : id'[x] <= id'[k]
  <2>2. /\ buffer' = Evict(s, entry', id')
        /\ entry' = [entry EXCEPT ![n] = Fresh] /\ id' = [id EXCEPT ![n] = seq + 1]
        /\ pc[n] = "idle"
    BY <2>1 DEF Buffer
  <2>3. buffer' = s \/ buffer' = s \ {gone}
    BY <2>2 DEF Evict
  <2>4. m = gone
    <3> HIDE DEF gone
    <3> QED
      BY <2>3
  <2>5. m # n
    BY <2>2 DEF IInv, Unknown
  <2>6. entry'[m] = entry[m]
    BY <2>0, <2>2, <2>5 DEF TypeOK
  <2>7. CASE done = {}
    BY <2>3, <2>7
  <2>8. CASE done # {}
    <3>1. prey = done /\ prey \in SUBSET Msg /\ prey # {} /\ id' \in [Msg -> Nat]
      BY <2>0, <2>1, <2>2, <2>8 DEF TypeOK
    <3> HIDE DEF prey
    <3>2. \E x \in prey : \A k \in prey : id'[x] <= id'[k]
      BY <3>1, Lowest
    <3>3. gone \in prey
      BY <3>2
    <3> HIDE DEF gone
    <3> QED
      BY <2>4, <2>6, <3>1, <3>3
  <2> QED
    BY <2>7, <2>8
<1> QED
  BY <1>1, Invariance, PTL DEF Spec, OpenEvictedLast

=============================================================================
