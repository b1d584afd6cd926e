------------------------ MODULE BridgeRelay_proofs ------------------------
(***************************************************************************)
(* What the relay and the client of a dal keep of the order and of the     *)
(* messages of every poster, for every number of clients, posters and      *)
(* messages and every capacity of the channels and buffers.                *)
(***************************************************************************)
EXTENDS BridgeRelay, TLAPS

(* Within a sequence: a poster's messages rise. *)
Rising(s) ==
  \A i, j \in DOMAIN s : i < j /\ s[i][1] = s[j][1] => s[i][2] < s[j][2]

(* A poster's messages in S come before those in T. *)
Ahead(S, T) == \A m \in S, n \in T : m[1] = n[1] => m[2] < n[2]

(* All that a client may still see of its subscription. *)
All(c) == ToSet(inbox[c]) \cup ToSet(line[c]) \cup ToSet(queue[c])

Ordered(c) ==
  /\ Rising(inbox[c]) /\ Rising(queue[c])
  /\ Ahead(ToSet(inbox[c]), ToSet(line[c]))
  /\ Ahead(ToSet(inbox[c]), ToSet(queue[c]))
  /\ Ahead(ToSet(line[c]), ToSet(queue[c]))

(* What a client has seen, has in its channel and may see, against what was *)
(* posted and what a broadcast has still to bring it.                       *)
Numbered(c) ==
  /\ \A m \in All(c) :
       /\ taken[c][m[1]] < m[2] /\ m[2] <= posted[m[1]]
       /\ accepted[c][m[1]] # 0 => m[2] <= accepted[c][m[1]]
       /\ c \in rest[m[1]] => m[2] < posted[m[1]]
  /\ \A p \in Poster :
       /\ taken[c][p] <= posted[p] /\ accepted[c][p] <= posted[p]
       /\ c \in rest[p] => taken[c][p] < posted[p]

Explained(c) ==
  \A p \in Poster :
    /\ sub[c] = "on" /\ ~lost[c] /\ accepted[c][p] # 0
    /\ Forwards(c, <<p, accepted[c][p]>>) /\ Listens(c, <<p, accepted[c][p]>>)
    => taken[c][p] = accepted[c][p] \/ <<p, accepted[c][p]>> \in All(c)

IInv ==
  /\ TypeOK /\ ~broken
  /\ \A p \in Poster : rest[p] \subseteq Subscribed
  /\ \A c \in Client : Ordered(c) /\ Numbered(c) /\ Explained(c)

-----------------------------------------------------------------------------
(* Sequences. *)

(* A message is put behind the others: in order, if it is newer. *)
LEMMA AppendPiece ==
  ASSUME NEW S, NEW s \in Seq(S), NEW m \in S
  PROVE  /\ Append(s, m) \in Seq(S) /\ Len(Append(s, m)) = Len(s) + 1
         /\ Rising(s) /\ Ahead(ToSet(s), {m}) => Rising(Append(s, m))
<1>1. Append(s, m) \in Seq(S) /\ Len(Append(s, m)) = Len(s) + 1
  OBVIOUS
<1>2. /\ DOMAIN s = 1..Len(s) /\ DOMAIN Append(s, m) = 1..(Len(s) + 1)
      /\ \A i \in 1..Len(s) : Append(s, m)[i] = s[i]
      /\ Append(s, m)[Len(s) + 1] = m /\ Len(s) \in Nat
  OBVIOUS
<1>4. ASSUME Rising(s), Ahead(ToSet(s), {m}) PROVE Rising(Append(s, m))
  <2> DEFINE t == Append(s, m)
  <2> SUFFICES ASSUME NEW i \in 1..(Len(s) + 1), NEW j \in 1..(Len(s) + 1),
                      i < j, t[i][1] = t[j][1]
               PROVE  t[i][2] < t[j][2]
    BY <1>2 DEF Rising
  <2> HIDE DEF t
  <2>1. CASE j = Len(s) + 1
    <3>1. i \in 1..Len(s) /\ t[i] = s[i] /\ t[j] = m
      BY <2>1, <1>2 DEF t
    <3>2. s[i] \in ToSet(s)
      BY <3>1, <1>2 DEF ToSet
    <3> QED
      BY <3>1, <3>2, <1>4 DEF Ahead
  <2>2. CASE j # Len(s) + 1
    <3>1. i \in 1..Len(s) /\ j \in 1..Len(s) /\ t[i] = s[i] /\ t[j] = s[j]
      BY <2>2, <1>2 DEF t
    <3> QED
      BY <3>1, <1>2, <1>4 DEF Rising
  <2> QED
    BY <2>1, <2>2
<1> QED
  BY <1>1, <1>4

(* It is then one of them. *)
LEMMA AppendSet ==
  ASSUME NEW S, NEW s \in Seq(S), NEW m \in S
  PROVE  ToSet(Append(s, m)) = ToSet(s) \cup {m}
<1>1. /\ DOMAIN s = 1..Len(s) /\ DOMAIN Append(s, m) = 1..(Len(s) + 1)
      /\ \A i \in 1..Len(s) : Append(s, m)[i] = s[i]
      /\ Append(s, m)[Len(s) + 1] = m /\ Len(s) \in Nat
  OBVIOUS
<1> QED
  BY <1>1 DEF ToSet

(* The first message is taken off. *)
LEMMA TailPiece ==
  ASSUME NEW S, NEW s \in Seq(S), s # <<>>
  PROVE  /\ Tail(s) \in Seq(S) /\ Len(Tail(s)) = Len(s) - 1 /\ Head(s) \in S
         /\ Rising(s) => Rising(Tail(s)) /\ Ahead({Head(s)}, ToSet(Tail(s)))
<1>0. Len(s) \in Nat \ {0} /\ DOMAIN s = 1..Len(s) /\ Head(s) = s[1]
  OBVIOUS
<1>1. Tail(s) \in Seq(S) /\ Len(Tail(s)) = Len(s) - 1 /\ Head(s) \in S
  OBVIOUS
<1>2. /\ DOMAIN Tail(s) = 1..(Len(s) - 1)
      /\ \A i \in 1..(Len(s) - 1) : Tail(s)[i] = s[i + 1]
  OBVIOUS
<1>4. ASSUME Rising(s) PROVE Rising(Tail(s)) /\ Ahead({Head(s)}, ToSet(Tail(s)))
  <2>1. Rising(Tail(s))
    <3> SUFFICES ASSUME NEW i \in 1..(Len(s) - 1), NEW j \in 1..(Len(s) - 1),
                        i < j, Tail(s)[i][1] = Tail(s)[j][1]
                 PROVE  Tail(s)[i][2] < Tail(s)[j][2]
      BY <1>2 DEF Rising
    <3>1. /\ i + 1 \in 1..Len(s) /\ j + 1 \in 1..Len(s) /\ i + 1 < j + 1
          /\ Tail(s)[i] = s[i + 1] /\ Tail(s)[j] = s[j + 1]
      BY <1>0, <1>2
    <3> QED
      BY <3>1, <1>0, <1>4 DEF Rising
  <2>2. ASSUME NEW m \in ToSet(Tail(s)), Head(s)[1] = m[1] PROVE Head(s)[2] < m[2]
    <3>1. PICK i \in 1..(Len(s) - 1) : m = Tail(s)[i]
      BY <1>2 DEF ToSet
    <3>2. m = s[i + 1] /\ i + 1 \in 1..Len(s) /\ 1 \in 1..Len(s) /\ 1 < i + 1
      BY <3>1, <1>0, <1>2
    <3> QED
      BY <2>2, <3>2, <1>0, <1>4 DEF Rising
  <2> QED
    BY <2>1, <2>2 DEF Ahead
<1> QED
  BY <1>1, <1>4

(* The messages are the first one and the others. *)
LEMMA TailSet ==
  ASSUME NEW S, NEW s \in Seq(S), s # <<>>
  PROVE  ToSet(s) = {Head(s)} \cup ToSet(Tail(s))
<1>0. Len(s) \in Nat \ {0} /\ DOMAIN s = 1..Len(s) /\ Head(s) = s[1]
  OBVIOUS
<1>2. /\ DOMAIN Tail(s) = 1..(Len(s) - 1)
      /\ \A i \in 1..(Len(s) - 1) : Tail(s)[i] = s[i + 1]
  OBVIOUS
<1>3. ToSet(s) = {Head(s)} \cup ToSet(Tail(s))
  <2>1. ASSUME NEW m \in ToSet(s) PROVE m \in {Head(s)} \cup ToSet(Tail(s))
    <3>1. PICK i \in 1..Len(s) : m = s[i]
      BY <1>0 DEF ToSet
    <3>2. CASE i = 1
      BY <3>1, <3>2, <1>0
    <3>3. CASE i # 1
      <4>1. i - 1 \in 1..(Len(s) - 1) /\ Tail(s)[i - 1] = s[i]
        BY <3>3, <1>0, <1>2
      <4> QED
        BY <3>1, <4>1, <1>2 DEF ToSet
    <3> QED
      BY <3>2, <3>3
  <2>2. ASSUME NEW m \in ToSet(Tail(s)) PROVE m \in ToSet(s)
    <3>1. PICK i \in 1..(Len(s) - 1) : m = Tail(s)[i]
      BY <1>2 DEF ToSet
    <3>2. m = s[i + 1] /\ i + 1 \in 1..Len(s)
      BY <3>1, <1>0, <1>2
    <3> QED
      BY <3>2, <1>0 DEF ToSet
  <2>3. Head(s) \in ToSet(s)
    BY <1>0 DEF ToSet
  <2> QED
    BY <2>1, <2>2, <2>3
<1> QED
  BY <1>3

(* No message, one message. *)
LEMMA ShortPiece ==
  /\ ToSet(<<>>) = {} /\ Rising(<<>>)
  /\ \A m : ToSet(<<m>>) = {m}
BY DEF ToSet, Rising

(* At most one message. *)
LEMMA LinePiece ==
  ASSUME NEW S, NEW s \in Seq(S), Len(s) <= 1, s # <<>>
  PROVE  ToSet(s) = {Head(s)} /\ Head(s) \in S
<1>1. Len(s) \in Nat /\ Len(s) # 0 /\ DOMAIN s = 1..Len(s) /\ Head(s) = s[1]
      /\ Head(s) \in S
  OBVIOUS
<1>2. Len(s) = 1
  BY <1>1
<1>3. DOMAIN s = {1}
  BY <1>1, <1>2
<1> QED
  BY <1>1, <1>3 DEF ToSet

(* The messages of one sequence behind another. *)
LEMMA ConcatSet ==
  ASSUME NEW S, NEW s \in Seq(S), NEW t \in Seq(S)
  PROVE  ToSet(s \o t) = ToSet(s) \cup ToSet(t)
<1>0. /\ Len(s) \in Nat /\ Len(t) \in Nat /\ DOMAIN s = 1..Len(s) /\ DOMAIN t = 1..Len(t)
      /\ s \o t \in Seq(S) /\ DOMAIN (s \o t) = 1..(Len(s) + Len(t))
      /\ \A i \in 1..(Len(s) + Len(t)) :
           (s \o t)[i] = IF i <= Len(s) THEN s[i] ELSE t[i - Len(s)]
  OBVIOUS
<1> DEFINE u == s \o t
<1>1. ASSUME NEW i \in 1..(Len(s) + Len(t))
      PROVE  \/ i \in 1..Len(s) /\ u[i] = s[i] /\ u[i] \in ToSet(s)
             \/ /\ i > Len(s) /\ i - Len(s) \in 1..Len(t) /\ u[i] = t[i - Len(s)]
                /\ u[i] \in ToSet(t)
  BY <1>0 DEF ToSet
<1>2. ToSet(u) = ToSet(s) \cup ToSet(t)
  <2>1. ASSUME NEW m \in ToSet(u) PROVE m \in ToSet(s) \cup ToSet(t)
    BY <1>0, <1>1 DEF ToSet
  <2>2. ASSUME NEW m \in ToSet(s) PROVE m \in ToSet(u)
    <3>1. PICK i \in 1..Len(s) : m = s[i]
      BY <1>0 DEF ToSet
    <3>2. i \in 1..(Len(s) + Len(t)) /\ u[i] = s[i]
      BY <1>0
    <3> QED
      BY <3>1, <3>2, <1>0 DEF ToSet
  <2>3. ASSUME NEW m \in ToSet(t) PROVE m \in ToSet(u)
    <3>1. PICK i \in 1..Len(t) : m = t[i]
      BY <1>0 DEF ToSet
    <3>2. i + Len(s) \in 1..(Len(s) + Len(t)) /\ u[i + Len(s)] = t[i]
      BY <1>0
    <3> QED
      BY <3>1, <3>2, <1>0 DEF ToSet
  <2> QED
    BY <2>1, <2>2, <2>3
<1> QED
  BY <1>2

(* Their order. *)
LEMMA ConcatPiece ==
  ASSUME NEW S, NEW s \in Seq(S), NEW t \in Seq(S)
  PROVE  Rising(s) /\ Rising(t) /\ Ahead(ToSet(s), ToSet(t)) => Rising(s \o t)
<1>0. /\ Len(s) \in Nat /\ Len(t) \in Nat /\ DOMAIN s = 1..Len(s) /\ DOMAIN t = 1..Len(t)
      /\ s \o t \in Seq(S) /\ DOMAIN (s \o t) = 1..(Len(s) + Len(t))
      /\ \A i \in 1..(Len(s) + Len(t)) :
           (s \o t)[i] = IF i <= Len(s) THEN s[i] ELSE t[i - Len(s)]
  OBVIOUS
<1> DEFINE u == s \o t
<1>1. ASSUME NEW i \in 1..(Len(s) + Len(t))
      PROVE  \/ i \in 1..Len(s) /\ u[i] = s[i] /\ u[i] \in ToSet(s)
             \/ /\ i > Len(s) /\ i - Len(s) \in 1..Len(t) /\ u[i] = t[i - Len(s)]
                /\ u[i] \in ToSet(t)
  BY <1>0 DEF ToSet
<1>3. ASSUME Rising(s), Rising(t), Ahead(ToSet(s), ToSet(t)) PROVE Rising(u)
  <2> SUFFICES ASSUME NEW i \in 1..(Len(s) + Len(t)), NEW j \in 1..(Len(s) + Len(t)),
                      i < j, u[i][1] = u[j][1]
               PROVE  u[i][2] < u[j][2]
    BY <1>0 DEF Rising
  <2>1. CASE i \in 1..Len(s) /\ j \in 1..Len(s)
    BY <2>1, <1>0, <1>1, <1>3 DEF Rising
  <2>2. CASE i \in 1..Len(s) /\ j > Len(s)
    BY <2>2, <1>0, <1>1, <1>3 DEF Ahead
  <2>3. CASE i > Len(s) /\ j > Len(s)
    <3>1. /\ i - Len(s) \in 1..Len(t) /\ u[i] = t[i - Len(s)]
          /\ j - Len(s) \in 1..Len(t) /\ u[j] = t[j - Len(s)]
          /\ i - Len(s) < j - Len(s)
      BY <2>3, <1>0
    <3> HIDE DEF u
    <3> QED
      BY <3>1, <1>0, <1>3 DEF Rising
  <2> QED
    BY <1>0, <2>1, <2>2, <2>3
<1> QED
  BY <1>3

-----------------------------------------------------------------------------
(* Messages. *)

(* What a message is. *)
LEMMA AMessage ==
  ASSUME NEW m \in Message
  PROVE  m[1] \in Poster /\ m[2] \in Nat /\ m[2] # 0 /\ m = <<m[1], m[2]>>
         /\ m[2] <= MaxPosts[m[1]]
BY BridgeAssumption DEF Message

(* Every number up to the bound is a message's. *)
LEMMA IsMessage ==
  ASSUME NEW p \in Poster, NEW n \in Nat, n # 0, n <= MaxPosts[p]
  PROVE  <<p, n>> \in Message
<1>1. MaxPosts[p] \in Nat
  BY BridgeAssumption
<1>2. n \in 1..MaxPosts[p]
  BY <1>1
<1> QED
  BY <1>2 DEF Message

(* The state of one client, taken apart. *)
LEMMA Piecewise ==
  ASSUME TypeOK, NEW c \in Client
  PROVE  /\ queue[c] \in Seq(Message) /\ line[c] \in Seq(Message) /\ inbox[c] \in Seq(Message)
         /\ Len(queue[c]) <= QueueCap /\ Len(line[c]) <= 1 /\ Len(inbox[c]) <= InboxCap
         /\ sub[c] \in {"off", "on", "leaving", "deleted"} /\ lost[c] \in BOOLEAN
         /\ taken[c] \in Count /\ accepted[c] \in Count
         /\ \A p \in Poster : taken[c][p] \in Nat /\ accepted[c][p] \in Nat /\ posted[p] \in Nat
         /\ All(c) \subseteq Message
<1>1. /\ queue[c] \in Seq(Message) /\ line[c] \in Seq(Message) /\ inbox[c] \in Seq(Message)
      /\ Len(queue[c]) <= QueueCap /\ Len(line[c]) <= 1 /\ Len(inbox[c]) <= InboxCap
      /\ sub[c] \in {"off", "on", "leaving", "deleted"} /\ lost[c] \in BOOLEAN
      /\ taken[c] \in Count /\ accepted[c] \in Count
  BY DEF TypeOK
<1>2. \A p \in Poster : taken[c][p] \in Nat /\ accepted[c][p] \in Nat /\ posted[p] \in Nat
  BY <1>1 DEF TypeOK, Count
<1>3. \A s \in Seq(Message) : ToSet(s) \subseteq Message
  BY DEF ToSet
<1> QED
  BY <1>1, <1>2, <1>3 DEF All

(* A client of which nothing moves keeps the order of its messages. *)
LEMMA StaysOrdered ==
  ASSUME NEW c \in Client, Ordered(c),
         inbox'[c] = inbox[c], line'[c] = line[c], queue'[c] = queue[c]
  PROVE  Ordered(c)' /\ All(c)' = All(c)
BY DEF Ordered, All

(* When its messages are among the earlier ones, nothing new is heard of *)
(* posters, and no broadcast is on its way to it that was not, the       *)
(* numbers still agree.                                                  *)
LEMMA StaysNumbered ==
  ASSUME NEW c \in Client, Numbered(c), TypeOK,
         All(c)' \subseteq All(c), posted' = posted, taken'[c] = taken[c],
         accepted'[c] \in {accepted[c], Nothing},
         \A p \in Poster : c \in rest'[p] => c \in rest[p]
  PROVE  Numbered(c)'
<1>1. \A m \in All(c)' : m \in All(c) /\ m[1] \in Poster
  BY Piecewise, AMessage
<1>2. \A p \in Poster : accepted'[c][p] = accepted[c][p] \/ accepted'[c][p] = 0
  BY DEF Nothing
<1>3. \A p \in Poster : posted[p] \in Nat
  BY Piecewise
<1> QED
  BY <1>1, <1>2, <1>3 DEF Numbered

(* A lost connection, or no subscription, explains everything. *)
LEMMA LostExplains ==
  ASSUME NEW c \in Client, sub'[c] # "on" \/ lost'[c] \/ accepted'[c] = Nothing
  PROVE  Explained(c)'
BY DEF Explained, Nothing

(* A client keeps what explains its messages. *)
LEMMA StaysExplained ==
  ASSUME NEW c \in Client, Explained(c), sub'[c] = sub[c], lost'[c] = lost[c],
         accepted'[c] = accepted[c], taken'[c] = taken[c], All(c) \subseteq All(c)'
  PROVE  Explained(c)'
BY DEF Explained, Forwards, Listens

(* A client that a step does not concern keeps all three. *)
LEMMA OtherClient ==
  ASSUME TypeOK, NEW d \in Client, Ordered(d) /\ Numbered(d) /\ Explained(d),
         inbox'[d] = inbox[d], line'[d] = line[d], queue'[d] = queue[d],
         taken'[d] = taken[d], accepted'[d] = accepted[d], posted' = posted,
         sub'[d] = sub[d], lost'[d] = lost[d],
         \A p \in Poster : d \in rest'[p] => d \in rest[p]
  PROVE  Ordered(d)' /\ Numbered(d)' /\ Explained(d)'
<1>1. Ordered(d)' /\ All(d)' = All(d)
  BY StaysOrdered
<1>2. Numbered(d)'
  BY <1>1, StaysNumbered
<1>3. Explained(d)'
  BY <1>1, StaysExplained
<1> QED
  BY <1>1, <1>2, <1>3

-----------------------------------------------------------------------------
(* One step after the other. *)

(* In the beginning nothing was posted and nobody listens. *)
LEMMA InitIInv == Init => IInv
<1> SUFFICES ASSUME Init PROVE IInv
  OBVIOUS
<1>0. /\ Nothing \in Count /\ 0 \in 0..MaxTrouble
      /\ \A c \in Client : queue[c] = <<>> /\ line[c] = <<>> /\ inbox[c] = <<>>
      /\ \A c \in Client : taken[c] = Nothing /\ accepted[c] = Nothing
      /\ \A p \in Poster : Nothing[p] = 0 /\ rest[p] = {}
      /\ posted = Nothing
  BY BridgeAssumption DEF Init, Nothing, Count
<1>1. TypeOK
  <2>1. Len(<<>>) <= QueueCap /\ Len(<<>>) <= 1 /\ Len(<<>>) <= InboxCap
        /\ <<>> \in Seq(Message)
    BY BridgeAssumption
  <2>2. /\ queue \in [Client -> Seq(Message)] /\ line \in [Client -> Seq(Message)]
        /\ inbox \in [Client -> Seq(Message)]
    BY <2>1 DEF Init
  <2>3. taken \in [Client -> Count] /\ accepted \in [Client -> Count]
    BY <1>0 DEF Init
  <2>4. /\ sub \in [Client -> {"off", "on", "leaving", "deleted"}]
        /\ lost \in [Client -> BOOLEAN] /\ broken \in BOOLEAN
        /\ rest \in [Poster -> SUBSET Client]
    BY DEF Init
  <2>5. trouble \in 0..MaxTrouble
    BY <1>0 DEF Init
  <2> QED
    BY <1>0, <2>1, <2>2, <2>3, <2>4, <2>5 DEF TypeOK
<1>2. ~broken /\ \A p \in Poster : rest[p] \subseteq Subscribed
  BY <1>0 DEF Init
<1>3. ASSUME NEW c \in Client PROVE Ordered(c) /\ Numbered(c) /\ Explained(c)
  <2>1. All(c) = {}
    BY <1>0, ShortPiece DEF All
  <2>2. Ordered(c)
    BY <1>0, ShortPiece DEF Ordered, Ahead
  <2>3. Numbered(c)
    BY <1>0, <2>1 DEF Numbered
  <2>4. Explained(c)
    BY <1>0 DEF Explained
  <2> QED
    BY <2>2, <2>3, <2>4
<1> QED
  BY <1>1, <1>2, <1>3 DEF IInv

(* A post is newer than all of its poster's, and none of them is under way. *)
LEMMA PostGood ==
  ASSUME IInv, NEW p \in Poster, Post(p)
  PROVE  IInv'
<1>0. TypeOK
  BY DEF IInv
<1>1. /\ posted[p] < MaxPosts[p] /\ rest[p] = {}
      /\ \A q \in Poster : /\ posted'[q] = IF q = p THEN posted[p] + 1 ELSE posted[q]
                           /\ rest'[q] = IF q = p THEN Subscribed ELSE rest[q]
      /\ posted \in [Poster -> Nat] /\ MaxPosts[p] \in Nat
  BY <1>0, BridgeAssumption DEF Post, TypeOK, Idle, Count
<1>2. UNCHANGED <<sub, queue, line, inbox, taken, accepted, lost, broken, trouble>>
  BY DEF Post
<1>3. TypeOK'
  <2>1. posted' \in [Poster -> Nat] /\ rest' \in [Poster -> SUBSET Client]
    BY <1>0, <1>1 DEF Post, TypeOK, Subscribed
  <2>2. posted' \in Count
    <3>1. \A q \in Poster : posted[q] <= MaxPosts[q]
      BY <1>0 DEF Count, TypeOK
    <3>2. \A q \in Poster : posted'[q] <= MaxPosts[q]
      BY <1>1, <3>1
    <3> QED
      BY <2>1, <3>2 DEF Count
  <2> QED
    BY <1>0, <1>2, <2>1, <2>2 DEF TypeOK
<1>4. ~broken' /\ \A q \in Poster : rest'[q] \subseteq Subscribed'
  BY <1>1, <1>2 DEF IInv, Subscribed
<1>5. ASSUME NEW c \in Client PROVE Ordered(c)' /\ Numbered(c)' /\ Explained(c)'
  <2>0. Ordered(c) /\ Numbered(c) /\ Explained(c)
    BY DEF IInv
  <2>1. Ordered(c)' /\ All(c)' = All(c)
    BY <1>2, <2>0, StaysOrdered
  <2>2. \A m \in All(c) : m[1] \in Poster /\ m[2] \in Nat
    BY <1>0, Piecewise, AMessage
  <2>3. \A q \in Poster : taken[c][q] \in Nat /\ accepted[c][q] \in Nat /\ posted[q] \in Nat
    BY <1>0, Piecewise
  <2>4. Numbered(c)'
    <3>1. ASSUME NEW m \in All(c)
          PROVE  /\ taken'[c][m[1]] < m[2] /\ m[2] <= posted'[m[1]]
                 /\ accepted'[c][m[1]] # 0 => m[2] <= accepted'[c][m[1]]
                 /\ c \in rest'[m[1]] => m[2] < posted'[m[1]]
      BY <1>1, <1>2, <2>0, <2>2, <2>3 DEF Numbered
    <3>2. ASSUME NEW q \in Poster
          PROVE  /\ taken'[c][q] <= posted'[q] /\ accepted'[c][q] <= posted'[q]
                 /\ c \in rest'[q] => taken'[c][q] < posted'[q]
      BY <1>1, <1>2, <2>0, <2>3 DEF Numbered
    <3> QED
      BY <2>1, <3>1, <3>2 DEF Numbered
  <2>5. Explained(c)'
    BY <1>2, <2>0, <2>1, StaysExplained
  <2> QED
    BY <2>1, <2>4, <2>5
<1> QED
  BY <1>3, <1>4, <1>5 DEF IInv

(* What a broadcast brings a client is newer than all it has of the poster. *)
LEMMA SendGood ==
  ASSUME IInv, NEW p \in Poster, NEW c \in Client, Send(p, c)
  PROVE  IInv'
<1>0. TypeOK
  BY DEF IInv
<1> DEFINE m == <<p, posted[p]>>
<1>1. /\ c \in rest[p] /\ c \in Subscribed /\ sub[c] # "off"
      /\ Ordered(c) /\ Numbered(c) /\ Explained(c)
  BY DEF IInv, Send, Subscribed
<1>2. /\ UNCHANGED <<posted, sub, line, inbox, taken, lost, trouble, broken>>
      /\ \A q \in Poster : rest'[q] = IF q = p THEN rest[p] \ {c} ELSE rest[q]
      /\ rest' \in [Poster -> SUBSET Client]
  BY <1>0, <1>1 DEF Send, TypeOK
<1>3. /\ posted[p] \in Nat /\ posted[p] # 0 /\ posted[p] <= MaxPosts[p]
      /\ m \in Message /\ m[1] = p /\ m[2] = posted[p]
  <2>1. posted[p] \in Nat /\ taken[c][p] \in Nat /\ posted[p] <= MaxPosts[p]
    BY <1>0, Piecewise DEF TypeOK, Count
  <2>2. taken[c][p] < posted[p]
    BY <1>1 DEF Numbered
  <2>3. posted[p] # 0
    BY <2>1, <2>2
  <2> QED
    BY <2>1, <2>3, IsMessage
<1> HIDE DEF m
<1>4. ~broken' /\ \A q \in Poster : rest'[q] \subseteq Subscribed'
  BY <1>2 DEF IInv, Subscribed
<1>5. \A q \in Poster, d \in Client : d \in rest'[q] => d \in rest[q]
  BY <1>2
<1>6. CASE Len(queue[c]) < QueueCap
  <2>1. /\ queue' = [queue EXCEPT ![c] = Append(@, m)]
        /\ accepted' = [accepted EXCEPT ![c][p] = posted[p]]
    BY <1>1, <1>6 DEF Send, m
  <2>a. queue[c] \in Seq(Message)
    BY <1>0, Piecewise
  <2>2. /\ Len(queue[c]) \in Nat /\ accepted[c] \in Count
        /\ \A d \in Client : queue'[d] = IF d = c THEN Append(queue[c], m) ELSE queue[d]
        /\ \A d \in Client : d # c => accepted'[d] = accepted[d]
        /\ accepted'[c] = [accepted[c] EXCEPT ![p] = posted[p]]
    BY <1>0, <2>1, <2>a DEF TypeOK
  <2>3. \A q \in Poster : accepted'[c][q] = IF q = p THEN posted[p] ELSE accepted[c][q]
    BY <2>2 DEF Count
  <2>4. /\ Append(queue[c], m) \in Seq(Message)
        /\ Len(Append(queue[c], m)) = Len(queue[c]) + 1
        /\ ToSet(Append(queue[c], m)) = ToSet(queue[c]) \cup {m}
        /\ Rising(queue[c]) /\ Ahead(ToSet(queue[c]), {m}) => Rising(Append(queue[c], m))
    <3>1. Append(queue[c], m) \in Seq(Message)
          /\ Len(Append(queue[c], m)) = Len(queue[c]) + 1
      BY <1>3, <2>a
    <3>2. ToSet(Append(queue[c], m)) = ToSet(queue[c]) \cup {m}
      BY <1>3, <2>a, AppendSet
    <3>3. Rising(queue[c]) /\ Ahead(ToSet(queue[c]), {m}) => Rising(Append(queue[c], m))
      BY <1>3, <2>a, AppendPiece
    <3> QED
      BY <3>1, <3>2, <3>3
  <2>5. TypeOK'
    <3>1. accepted'[c] \in Count
      BY <1>3, <2>2 DEF Count
    <3>2. accepted' \in [Client -> Count]
      BY <1>0, <2>1, <3>1, <2>2 DEF TypeOK
    <3>3. queue' \in [Client -> Seq(Message)]
      BY <1>0, <2>1, <2>4 DEF TypeOK
    <3>4. \A d \in Client : Len(queue'[d]) <= QueueCap
      <4>1. QueueCap \in Nat
        BY BridgeAssumption
      <4>2. Len(queue'[c]) <= QueueCap
        <5>1. queue'[c] = Append(queue[c], m) /\ Len(queue[c]) \in Nat
          BY <2>2
        <5>2. Len(queue'[c]) = Len(queue[c]) + 1
          BY <2>4, <5>1
        <5> QED
          BY <1>6, <4>1, <5>1, <5>2
      <4>3. \A d \in Client : d # c => Len(queue'[d]) <= QueueCap
        BY <1>0, <2>2 DEF TypeOK
      <4> QED
        BY <4>2, <4>3
    <3> QED
      BY <1>0, <1>2, <3>2, <3>3, <3>4 DEF TypeOK
  <2>6. Ordered(c)' /\ Numbered(c)' /\ Explained(c)'
    <3>0. /\ inbox'[c] = inbox[c] /\ line'[c] = line[c] /\ queue'[c] = Append(queue[c], m)
          /\ taken'[c] = taken[c] /\ sub'[c] = sub[c] /\ lost'[c] = lost[c]
          /\ \A q \in Poster : posted'[q] = posted[q]
      BY <1>2, <2>2
    <3>1. All(c)' = All(c) \cup {m}
      BY <3>0, <2>4 DEF All
    <3>2. \A n \in All(c) : n[1] \in Poster /\ n[2] \in Nat /\ n[2] # 0
      BY <1>0, Piecewise, AMessage
    <3>3. \A n \in All(c) : n[1] = p => n[2] < posted[p]
      BY <1>1 DEF Numbered
    <3>4. Ordered(c)'
      <4>1. /\ Ahead(ToSet(queue[c]), {m}) /\ Ahead(ToSet(line[c]), {m})
            /\ Ahead(ToSet(inbox[c]), {m})
        BY <1>3, <3>3 DEF Ahead, All
      <4>2. /\ Ahead(ToSet(line[c]), ToSet(queue[c]) \cup {m})
            /\ Ahead(ToSet(inbox[c]), ToSet(queue[c]) \cup {m})
        BY <1>1, <4>1 DEF Ordered, Ahead
      <4> QED
        BY <1>1, <2>4, <3>0, <4>1, <4>2 DEF Ordered
    <3>5. Numbered(c)'
      <4>0. \A q \in Poster : taken[c][q] \in Nat /\ accepted[c][q] \in Nat /\ posted[q] \in Nat
        BY <1>0, Piecewise
      <4>1. ASSUME NEW n \in All(c) \cup {m}
            PROVE  /\ taken'[c][n[1]] < n[2] /\ n[2] <= posted'[n[1]]
                   /\ accepted'[c][n[1]] # 0 => n[2] <= accepted'[c][n[1]]
                   /\ c \in rest'[n[1]] => n[2] < posted'[n[1]]
        <5>1. CASE n = m
          BY <5>1, <1>1, <1>2, <1>3, <2>3, <3>0, <4>0 DEF Numbered
        <5>2. CASE n \in All(c)
          BY <5>2, <1>1, <1>2, <1>3, <1>5, <2>3, <3>0, <3>2, <3>3, <4>0 DEF Numbered
        <5> QED
          BY <5>1, <5>2
      <4>2. ASSUME NEW q \in Poster
            PROVE  /\ taken'[c][q] <= posted'[q] /\ accepted'[c][q] <= posted'[q]
                   /\ c \in rest'[q] => taken'[c][q] < posted'[q]
        BY <1>1, <1>5, <2>3, <3>0, <4>0 DEF Numbered
      <4> QED
        BY <3>1, <4>1, <4>2 DEF Numbered
    <3>6. Explained(c)'
      <4>1. ASSUME NEW q \in Poster, sub'[c] = "on", ~lost'[c], accepted'[c][q] # 0,
                   Forwards(c, <<q, accepted'[c][q]>>), Listens(c, <<q, accepted'[c][q]>>)
            PROVE  taken'[c][q] = accepted'[c][q] \/ <<q, accepted'[c][q]>> \in All(c)'
        <5>1. CASE q = p
          BY <5>1, <2>3, <3>1 DEF m
        <5>2. CASE q # p
          <6>1. accepted'[c][q] = accepted[c][q]
            BY <5>2, <2>3
          <6> QED
            BY <6>1, <4>1, <1>1, <3>0, <3>1 DEF Explained
        <5> QED
          BY <5>1, <5>2
      <4> QED
        BY <4>1 DEF Explained, Forwards, Listens
    <3> QED
      BY <3>4, <3>5, <3>6
  <2>7. ASSUME NEW d \in Client PROVE Ordered(d)' /\ Numbered(d)' /\ Explained(d)'
    <3>0. CASE d = c
      BY <3>0, <2>6
    <3>1. CASE d # c
      <4>0. Ordered(d) /\ Numbered(d) /\ Explained(d)
        BY DEF IInv
      <4>1. /\ inbox'[d] = inbox[d] /\ line'[d] = line[d] /\ queue'[d] = queue[d]
            /\ taken'[d] = taken[d] /\ sub'[d] = sub[d] /\ lost'[d] = lost[d]
            /\ accepted'[d] = accepted[d] /\ posted' = posted
        BY <1>2, <2>2, <3>1
      <4> QED
        BY <1>0, <1>5, <4>0, <4>1, OtherClient
    <3> QED
      BY <3>0, <3>1
  <2> QED
    BY <1>4, <2>5, <2>7 DEF IInv
<1>7. CASE ~(Len(queue[c]) < QueueCap)
  <2>1. UNCHANGED <<queue, accepted>>
    BY <1>1, <1>7 DEF Send
  <2>2. TypeOK'
    BY <1>0, <1>2, <2>1 DEF TypeOK
  <2>3. ASSUME NEW d \in Client PROVE Ordered(d)' /\ Numbered(d)' /\ Explained(d)'
    <3>0. Ordered(d) /\ Numbered(d) /\ Explained(d)
      BY DEF IInv
    <3> QED
      BY <1>0, <1>2, <1>5, <2>1, <3>0, OtherClient
  <2> QED
    BY <1>4, <2>2, <2>3 DEF IInv
<1> QED
  BY <1>6, <1>7

(* A new subscription starts with an empty channel. *)
LEMMA SubscribeGood ==
  ASSUME IInv, NEW c \in Client, Subscribe(c)
  PROVE  IInv'
<1>0. TypeOK /\ <<>> \in Seq(Message) /\ Nothing \in Count
  BY BridgeAssumption DEF IInv, Nothing, Count
<1>1. /\ UNCHANGED <<posted, rest, line, inbox, taken, broken, trouble>>
      /\ \A p \in Poster : rest[p] = {}
      /\ sub' = [sub EXCEPT ![c] = "on"] /\ queue' = [queue EXCEPT ![c] = <<>>]
      /\ accepted' = [accepted EXCEPT ![c] = Nothing] /\ lost' = [lost EXCEPT ![c] = FALSE]
  BY DEF Subscribe, Unlocked, Idle
<1>2. /\ \A d \in Client : /\ queue'[d] = IF d = c THEN <<>> ELSE queue[d]
                           /\ accepted'[d] = IF d = c THEN Nothing ELSE accepted[d]
      /\ \A d \in Client : d # c => sub'[d] = sub[d] /\ lost'[d] = lost[d]
  BY <1>0, <1>1 DEF TypeOK
<1>3. TypeOK'
  <2>1. /\ queue' \in [Client -> Seq(Message)] /\ accepted' \in [Client -> Count]
        /\ sub' \in [Client -> {"off", "on", "leaving", "deleted"}]
        /\ lost' \in [Client -> BOOLEAN]
    BY <1>0, <1>1 DEF TypeOK
  <2>2. Len(<<>>) <= QueueCap
    BY BridgeAssumption
  <2>3. \A d \in Client : Len(queue'[d]) <= QueueCap
    BY <1>0, <1>2, <2>2 DEF TypeOK
  <2> QED
    BY <1>0, <1>1, <2>1, <2>3 DEF TypeOK
<1>4. ~broken' /\ \A p \in Poster : rest'[p] \subseteq Subscribed'
  BY <1>1 DEF IInv
<1>5. ASSUME NEW d \in Client PROVE Ordered(d)' /\ Numbered(d)' /\ Explained(d)'
  <2>0. Ordered(d) /\ Numbered(d) /\ Explained(d)
    BY DEF IInv
  <2>1. CASE d = c
    <3>1. /\ queue'[c] = <<>> /\ line'[c] = line[c] /\ inbox'[c] = inbox[c]
          /\ ToSet(<<>>) = {} /\ Rising(<<>>)
      BY <1>1, <1>2, ShortPiece
    <3>2. All(c)' \subseteq All(c)
      BY <3>1 DEF All
    <3>3. Ordered(c)'
      BY <2>0, <2>1, <3>1 DEF Ordered, Ahead
    <3>4. Numbered(c)'
      BY <1>0, <1>1, <1>2, <2>0, <2>1, <3>2, StaysNumbered
    <3>5. Explained(c)'
      BY <1>2, LostExplains
    <3> QED
      BY <2>1, <3>3, <3>4, <3>5
  <2>2. CASE d # c
    BY <1>0, <1>1, <1>2, <2>0, <2>2, OtherClient
  <2> QED
    BY <2>1, <2>2
<1> QED
  BY <1>3, <1>4, <1>5 DEF IInv

(* A subscription leaves the map, and then is closed, while no broadcast    *)
(* holds it.                                                                *)
LEMMA LeaveGood ==
  ASSUME IInv, NEW c \in Client, Delete(c) \/ Close(c)
  PROVE  IInv'
<1>0. TypeOK
  BY DEF IInv
<1>1. /\ UNCHANGED <<posted, rest, queue, line, inbox, taken, accepted, lost, broken, trouble>>
      /\ \/ sub[c] = "leaving" /\ sub' = [sub EXCEPT ![c] = "deleted"]
            /\ \A p \in Poster : rest[p] = {}
         \/ sub[c] = "deleted" /\ sub' = [sub EXCEPT ![c] = "off"]
  BY DEF Delete, Close, Unlocked, Idle
<1>2. /\ sub'[c] \in {"deleted", "off"} /\ \A d \in Client : d # c => sub'[d] = sub[d]
      /\ sub' \in [Client -> {"off", "on", "leaving", "deleted"}]
  BY <1>0, <1>1 DEF TypeOK
<1>3. TypeOK'
  BY <1>0, <1>1, <1>2 DEF TypeOK
<1>4. ~broken' /\ \A p \in Poster : rest'[p] \subseteq Subscribed'
  <2>1. ASSUME NEW p \in Poster, NEW d \in rest[p] PROVE d \in Subscribed'
    <3>1. d \in Subscribed
      BY DEF IInv
    <3>2. d # c
      BY <1>1, <3>1 DEF Subscribed
    <3> QED
      BY <1>2, <3>1, <3>2 DEF Subscribed
  <2> QED
    BY <1>1, <2>1 DEF IInv
<1>5. ASSUME NEW d \in Client PROVE Ordered(d)' /\ Numbered(d)' /\ Explained(d)'
  <2>0. Ordered(d) /\ Numbered(d) /\ Explained(d)
    BY DEF IInv
  <2>1. CASE d = c
    <3>1. Ordered(c)' /\ All(c)' = All(c)
      BY <1>1, <2>0, <2>1, StaysOrdered
    <3>2. Numbered(c)'
      BY <1>0, <1>1, <2>0, <2>1, <3>1, StaysNumbered
    <3>3. Explained(c)'
      BY <1>2, LostExplains
    <3> QED
      BY <2>1, <3>1, <3>2, <3>3
  <2>2. CASE d # c
    BY <1>0, <1>1, <1>2, <2>0, <2>2, OtherClient
  <2> QED
    BY <2>1, <2>2
<1> QED
  BY <1>3, <1>4, <1>5 DEF IInv

(* The oldest message of the channel goes on the line, or is filtered. *)
LEMMA WriteGood ==
  ASSUME IInv, NEW c \in Client, Write(c)
  PROVE  IInv'
<1> DEFINE m == Head(queue[c])
<1>0. TypeOK /\ Ordered(c) /\ Numbered(c) /\ Explained(c)
  BY DEF IInv
<1>1. /\ UNCHANGED <<posted, rest, sub, inbox, taken, accepted, lost, broken, trouble>>
      /\ queue[c] # <<>> /\ line[c] = <<>>
      /\ queue' = [queue EXCEPT ![c] = Tail(queue[c])]
      /\ line' = [line EXCEPT ![c] = IF Forwards(c, m) THEN <<m>> ELSE <<>>]
  BY DEF Write
<1>2. /\ queue[c] \in Seq(Message) /\ Len(queue[c]) \in Nat /\ Len(queue[c]) <= QueueCap
      /\ QueueCap \in Nat
  BY <1>0, Piecewise, BridgeAssumption
<1>3. /\ Tail(queue[c]) \in Seq(Message) /\ m \in Message
      /\ Len(Tail(queue[c])) = Len(queue[c]) - 1
  BY <1>1, <1>2
<1>4. ToSet(queue[c]) = {m} \cup ToSet(Tail(queue[c]))
  BY <1>1, <1>2, TailSet
<1>5. Rising(Tail(queue[c])) /\ Ahead({m}, ToSet(Tail(queue[c])))
  BY <1>0, <1>1, <1>2, TailPiece DEF Ordered
<1> HIDE DEF m
<1>6. /\ \A d \in Client : /\ queue'[d] = IF d = c THEN Tail(queue[c]) ELSE queue[d]
                           /\ d # c => line'[d] = line[d]
      /\ line'[c] = IF Forwards(c, m) THEN <<m>> ELSE <<>>
  BY <1>0, <1>1 DEF TypeOK
<1>7. TypeOK'
  <2>1. <<m>> \in Seq(Message) /\ <<>> \in Seq(Message) /\ Len(<<m>>) <= 1 /\ Len(<<>>) <= 1
    BY <1>3
  <2>2. queue' \in [Client -> Seq(Message)]
    BY <1>0, <1>1, <1>3 DEF TypeOK
  <2>3. line' \in [Client -> Seq(Message)]
    BY <1>0, <1>1, <2>1 DEF TypeOK
  <2>4. \A d \in Client : Len(queue'[d]) <= QueueCap
    <3>1. Len(Tail(queue[c])) <= QueueCap
      BY <1>2, <1>3
    <3> QED
      BY <1>0, <1>6, <3>1 DEF TypeOK
  <2>5. \A d \in Client : Len(line'[d]) <= 1
    BY <1>0, <1>6, <2>1 DEF TypeOK
  <2> QED
    BY <1>0, <1>1, <2>2, <2>3, <2>4, <2>5 DEF TypeOK
<1>8. ~broken' /\ \A p \in Poster : rest'[p] \subseteq Subscribed'
  BY <1>1 DEF IInv, Subscribed
<1>9. Ordered(c)' /\ Numbered(c)' /\ Explained(c)'
  <2>1. /\ inbox'[c] = inbox[c] /\ queue'[c] = Tail(queue[c]) /\ ToSet(<<>>) = {}
        /\ ToSet(<<m>>) = {m} /\ ToSet(line[c]) = {}
    BY <1>1, <1>6, ShortPiece
  <2>2. ToSet(line'[c]) = IF Forwards(c, m) THEN {m} ELSE {}
    BY <1>6, <2>1
  <2>3. All(c)' \subseteq All(c) /\ (All(c) \subseteq All(c)' \cup {m})
        /\ (Forwards(c, m) => m \in All(c)')
    BY <1>4, <2>1, <2>2 DEF All
  <2>4. Ordered(c)'
    BY <1>0, <1>4, <1>5, <2>1, <2>2 DEF Ordered, Ahead
  <2>5. Numbered(c)'
    BY <1>0, <1>1, <2>3, StaysNumbered
  <2>6. Explained(c)'
    <3>1. ASSUME NEW p \in Poster, sub[c] = "on", ~lost[c], accepted[c][p] # 0,
                 Forwards(c, <<p, accepted[c][p]>>), Listens(c, <<p, accepted[c][p]>>)
          PROVE  taken[c][p] = accepted[c][p] \/ <<p, accepted[c][p]>> \in All(c)'
      BY <1>0, <2>3, <3>1 DEF Explained
    <3> QED
      BY <1>1, <3>1 DEF Explained, Forwards, Listens
  <2> QED
    BY <2>4, <2>5, <2>6
<1>10. ASSUME NEW d \in Client PROVE Ordered(d)' /\ Numbered(d)' /\ Explained(d)'
  <2>0. Ordered(d) /\ Numbered(d) /\ Explained(d)
    BY DEF IInv
  <2>1. CASE d = c
    BY <1>9, <2>1
  <2>2. CASE d # c
    BY <1>0, <1>1, <1>6, <2>0, <2>2, OtherClient
  <2> QED
    BY <2>1, <2>2
<1> QED
  BY <1>7, <1>8, <1>10 DEF IInv

(* The client buffers what is on the line, if it listens to it; a full      *)
(* buffer loses its oldest message, and says so.                            *)
LEMMA ReadGood ==
  ASSUME IInv, NEW c \in Client, Read(c)
  PROVE  IInv'
<1> DEFINE m == Head(line[c])
<1>0. TypeOK /\ Ordered(c) /\ Numbered(c) /\ Explained(c)
  BY DEF IInv
<1>1. /\ UNCHANGED <<posted, rest, sub, queue, taken, accepted, broken, trouble>>
      /\ line[c] # <<>> /\ line' = [line EXCEPT ![c] = <<>>]
      /\ Listens(c, m) => /\ inbox' = [inbox EXCEPT ![c] = Buffered(inbox[c], m)]
                          /\ lost' = [lost EXCEPT ![c] = lost[c] \/ Len(inbox[c]) = InboxCap]
      /\ ~Listens(c, m) => UNCHANGED <<inbox, lost>>
  BY DEF Read
<1>2. /\ line[c] \in Seq(Message) /\ Len(line[c]) <= 1 /\ inbox[c] \in Seq(Message)
      /\ Len(inbox[c]) \in Nat /\ Len(inbox[c]) <= InboxCap /\ InboxCap \in Nat \ {0}
      /\ lost[c] \in BOOLEAN
  BY <1>0, Piecewise, BridgeAssumption
<1>3. m \in Message /\ ToSet(line[c]) = {m}
  BY <1>1, <1>2, LinePiece
<1> HIDE DEF m
<1> DEFINE s == IF Len(inbox[c]) < InboxCap THEN inbox[c] ELSE Tail(inbox[c])
<1>4. /\ s \in Seq(Message) /\ Len(s) \in Nat /\ Len(s) < InboxCap
      /\ Rising(s) /\ ToSet(s) \subseteq ToSet(inbox[c])
  <2>1. CASE Len(inbox[c]) < InboxCap
    BY <1>0, <1>2, <2>1 DEF Ordered
  <2>2. CASE ~(Len(inbox[c]) < InboxCap)
    <3>1. inbox[c] # <<>> /\ Len(inbox[c]) = InboxCap
      BY <1>2, <2>2
    <3>2. Tail(inbox[c]) \in Seq(Message) /\ Len(Tail(inbox[c])) = Len(inbox[c]) - 1
      BY <1>2, <3>1
    <3>3. ToSet(inbox[c]) = {Head(inbox[c])} \cup ToSet(Tail(inbox[c]))
      BY <1>2, <3>1, TailSet
    <3>4. Rising(Tail(inbox[c]))
      BY <1>0, <1>2, <3>1, TailPiece DEF Ordered
    <3>5. ToSet(Tail(inbox[c])) \subseteq ToSet(inbox[c])
      BY <3>3
    <3>6. s = Tail(inbox[c])
      BY <2>2
    <3>7. Len(Tail(inbox[c])) \in Nat /\ Len(Tail(inbox[c])) < InboxCap
      BY <1>2, <3>1, <3>2
    <3> HIDE DEF s
    <3> QED
      BY <3>2, <3>4, <3>5, <3>6, <3>7
  <2> QED
    BY <2>1, <2>2
<1>4a. s \in Seq(Message) /\ (Len(inbox[c]) < InboxCap => s = inbox[c])
  BY <1>4
<1>5. Buffered(inbox[c], m) = Append(s, m)
  BY DEF Buffered
<1> HIDE DEF s
<1>6. Append(s, m) \in Seq(Message) /\ Len(Append(s, m)) = Len(s) + 1
  BY <1>3, <1>4
<1>7. ToSet(Append(s, m)) = ToSet(s) \cup {m}
  BY <1>3, <1>4a, AppendSet
<1>8. /\ \A d \in Client : d # c => /\ line'[d] = line[d] /\ inbox'[d] = inbox[d]
                                    /\ lost'[d] = lost[d]
      /\ line'[c] = <<>> /\ inbox'[c] = IF Listens(c, m) THEN Append(s, m) ELSE inbox[c]
      /\ inbox' \in [Client -> Seq(Message)] /\ line' \in [Client -> Seq(Message)]
      /\ lost' \in [Client -> BOOLEAN]
  <2>1. line'[c] = <<>> /\ line' \in [Client -> Seq(Message)]
        /\ \A d \in Client : d # c => line'[d] = line[d]
    BY <1>0, <1>1 DEF TypeOK
  <2>2. CASE Listens(c, m)
    <3>1. inbox' = [inbox EXCEPT ![c] = Append(s, m)]
          /\ lost' = [lost EXCEPT ![c] = lost[c] \/ Len(inbox[c]) = InboxCap]
      BY <1>1, <1>5, <2>2
    <3>2. /\ inbox'[c] = Append(s, m) /\ inbox' \in [Client -> Seq(Message)]
          /\ \A d \in Client : d # c => inbox'[d] = inbox[d]
      BY <1>0, <1>6, <3>1 DEF TypeOK
    <3>3. (lost[c] \/ Len(inbox[c]) = InboxCap) \in BOOLEAN
      BY <1>2
    <3>4. lost' \in [Client -> BOOLEAN] /\ \A d \in Client : d # c => lost'[d] = lost[d]
      BY <1>0, <3>1, <3>3 DEF TypeOK
    <3> QED
      BY <2>1, <2>2, <3>2, <3>4
  <2>3. CASE ~Listens(c, m)
    BY <1>0, <1>1, <2>1, <2>3 DEF TypeOK
  <2> QED
    BY <2>2, <2>3
<1>9. TypeOK'
  <2>1. Len(<<>>) <= 1 /\ Len(Append(s, m)) <= InboxCap
    BY <1>2, <1>4, <1>6
  <2>2. \A d \in Client : Len(line'[d]) <= 1
    BY <1>0, <1>8, <2>1 DEF TypeOK
  <2>3. \A d \in Client : Len(inbox'[d]) <= InboxCap
    BY <1>0, <1>8, <2>1 DEF TypeOK
  <2> QED
    BY <1>0, <1>1, <1>8, <2>2, <2>3 DEF TypeOK
<1>10. ~broken' /\ \A p \in Poster : rest'[p] \subseteq Subscribed'
  BY <1>1 DEF IInv, Subscribed
<1>11. Ordered(c)' /\ Numbered(c)' /\ Explained(c)'
  <2>1. ToSet(<<>>) = {} /\ line'[c] = <<>> /\ queue'[c] = queue[c]
    BY <1>1, <1>8, ShortPiece
  <2>2. /\ Ahead(ToSet(inbox[c]), {m}) /\ Ahead(ToSet(inbox[c]), ToSet(queue[c]))
        /\ Ahead({m}, ToSet(queue[c])) /\ Rising(inbox[c]) /\ Rising(queue[c])
    BY <1>0, <1>3 DEF Ordered
  <2>3. Rising(Append(s, m))
    <3>1. Ahead(ToSet(s), {m})
      BY <1>4, <2>2 DEF Ahead
    <3> QED
      BY <1>3, <1>4, <3>1, AppendPiece
  <2>4. All(c)' \subseteq All(c)
    BY <1>3, <1>4, <1>7, <1>8, <2>1 DEF All
  <2>5. Ordered(c)'
    <3>1. CASE Listens(c, m)
      <4>1. inbox'[c] = Append(s, m)
        BY <1>8, <3>1
      <4>2. Ahead(ToSet(Append(s, m)), ToSet(queue[c]))
        BY <1>4, <1>7, <2>2 DEF Ahead
      <4> QED
        BY <2>1, <2>2, <2>3, <4>1, <4>2 DEF Ordered, Ahead
    <3>2. CASE ~Listens(c, m)
      <4>1. inbox'[c] = inbox[c]
        BY <1>8, <3>2
      <4> QED
        BY <2>1, <2>2, <4>1 DEF Ordered, Ahead
    <3> QED
      BY <3>1, <3>2
  <2>6. Numbered(c)'
    BY <1>0, <1>1, <2>4, StaysNumbered
  <2>7. Explained(c)'
    <3>1. ASSUME NEW p \in Poster, sub'[c] = "on", ~lost'[c], accepted'[c][p] # 0,
                 Forwards(c, <<p, accepted'[c][p]>>), Listens(c, <<p, accepted'[c][p]>>)
          PROVE  taken'[c][p] = accepted'[c][p] \/ <<p, accepted'[c][p]>> \in All(c)'
      <4>1. sub[c] = "on" /\ accepted'[c][p] = accepted[c][p] /\ taken'[c][p] = taken[c][p]
        BY <1>1, <3>1
      <4>2. CASE Listens(c, m)
        <5>1. lost'[c] = (lost[c] \/ Len(inbox[c]) = InboxCap)
          BY <1>0, <1>1, <4>2 DEF TypeOK
        <5>2. ~lost[c] /\ Len(inbox[c]) < InboxCap
          <6>1. ~lost[c] /\ Len(inbox[c]) # InboxCap
            BY <3>1, <5>1
          <6> QED
            BY <1>2, <6>1
        <5>3. All(c) \subseteq All(c)'
          BY <1>3, <1>4a, <1>7, <1>8, <2>1, <4>2, <5>2 DEF All
        <5> QED
          BY <1>0, <3>1, <4>1, <5>2, <5>3 DEF Explained
      <4>3. CASE ~Listens(c, m)
        <5>1. ~lost[c] /\ All(c) \subseteq All(c)' \cup {m}
          BY <1>1, <1>3, <1>8, <2>1, <3>1, <4>3 DEF All
        <5> QED
          BY <1>0, <3>1, <4>1, <4>3, <5>1 DEF Explained
      <4> QED
        BY <4>2, <4>3
    <3> QED
      BY <3>1 DEF Explained, Forwards, Listens
  <2> QED
    BY <2>5, <2>6, <2>7
<1>12. ASSUME NEW d \in Client PROVE Ordered(d)' /\ Numbered(d)' /\ Explained(d)'
  <2>0. Ordered(d) /\ Numbered(d) /\ Explained(d)
    BY DEF IInv
  <2>1. CASE d = c
    BY <1>11, <2>1
  <2>2. CASE d # c
    BY <1>0, <1>1, <1>8, <2>0, <2>2, OtherClient
  <2> QED
    BY <2>1, <2>2
<1> QED
  BY <1>9, <1>10, <1>12 DEF IInv

(* The agent loop takes the oldest message: what is left is newer. *)
LEMMA TakeGood ==
  ASSUME IInv, NEW c \in Client, Take(c)
  PROVE  IInv'
<1> DEFINE m == Head(inbox[c])
<1>0. TypeOK /\ Ordered(c) /\ Numbered(c) /\ Explained(c)
  BY DEF IInv
<1>1. /\ UNCHANGED <<posted, rest, sub, queue, line, accepted, lost, broken, trouble>>
      /\ inbox[c] # <<>> /\ inbox' = [inbox EXCEPT ![c] = Tail(inbox[c])]
      /\ taken' = [taken EXCEPT ![c][m[1]] = m[2]]
  BY DEF Take
<1>2. /\ inbox[c] \in Seq(Message) /\ Len(inbox[c]) \in Nat /\ Len(inbox[c]) <= InboxCap
      /\ InboxCap \in Nat /\ taken[c] \in Count
  BY <1>0, Piecewise, BridgeAssumption
<1>3. /\ Tail(inbox[c]) \in Seq(Message) /\ m \in Message
      /\ Len(Tail(inbox[c])) = Len(inbox[c]) - 1
  BY <1>1, <1>2
<1>4. ToSet(inbox[c]) = {m} \cup ToSet(Tail(inbox[c]))
  BY <1>1, <1>2, TailSet
<1>5. Rising(Tail(inbox[c])) /\ Ahead({m}, ToSet(Tail(inbox[c])))
  BY <1>0, <1>1, <1>2, TailPiece DEF Ordered
<1> HIDE DEF m
<1>6. m[1] \in Poster /\ m[2] \in Nat /\ m = <<m[1], m[2]>> /\ m[2] <= MaxPosts[m[1]]
  BY <1>3, AMessage
<1>7. /\ \A d \in Client : /\ inbox'[d] = IF d = c THEN Tail(inbox[c]) ELSE inbox[d]
                           /\ d # c => taken'[d] = taken[d]
      /\ taken'[c] = [taken[c] EXCEPT ![m[1]] = m[2]]
  BY <1>0, <1>1 DEF TypeOK
<1>8. \A p \in Poster : taken'[c][p] = IF p = m[1] THEN m[2] ELSE taken[c][p]
  BY <1>2, <1>7 DEF Count
<1>9. TypeOK'
  <2>1. inbox' \in [Client -> Seq(Message)]
    BY <1>0, <1>1, <1>3 DEF TypeOK
  <2>2. \A d \in Client : Len(inbox'[d]) <= InboxCap
    <3>1. Len(Tail(inbox[c])) <= InboxCap
      BY <1>2, <1>3
    <3> QED
      BY <1>0, <1>7, <3>1 DEF TypeOK
  <2>3. taken'[c] \in Count
    BY <1>2, <1>6, <1>7 DEF Count
  <2>4. taken' \in [Client -> Count]
    BY <1>0, <1>1, <1>7, <2>3 DEF TypeOK
  <2> QED
    BY <1>0, <1>1, <2>1, <2>2, <2>4 DEF TypeOK
<1>10. ~broken' /\ \A p \in Poster : rest'[p] \subseteq Subscribed'
  BY <1>1 DEF IInv, Subscribed
<1>11. Ordered(c)' /\ Numbered(c)' /\ Explained(c)'
  <2>1. line'[c] = line[c] /\ queue'[c] = queue[c] /\ inbox'[c] = Tail(inbox[c])
    BY <1>1, <1>7
  <2>2. All(c)' \subseteq All(c) /\ All(c) \subseteq All(c)' \cup {m} /\ m \in All(c)
    BY <1>4, <2>1 DEF All
  <2>3. Ordered(c)'
    BY <1>0, <1>4, <1>5, <2>1 DEF Ordered, Ahead
  <2>4. \A n \in All(c)' : n[1] = m[1] => m[2] < n[2]
    BY <1>0, <1>4, <1>5, <2>1 DEF Ordered, Ahead, All
  <2>5. Numbered(c)'
    <3>0. \A q \in Poster : taken[c][q] \in Nat /\ accepted[c][q] \in Nat /\ posted[q] \in Nat
      BY <1>0, Piecewise
    <3>1. ASSUME NEW n \in All(c)'
          PROVE  /\ taken'[c][n[1]] < n[2] /\ n[2] <= posted[n[1]]
                 /\ accepted[c][n[1]] # 0 => n[2] <= accepted[c][n[1]]
                 /\ c \in rest[n[1]] => n[2] < posted[n[1]]
      <4>1. n \in All(c) /\ n[1] \in Poster
        BY <1>0, <2>2, Piecewise, AMessage
      <4> QED
        BY <1>0, <1>8, <2>4, <4>1 DEF Numbered
    <3>2. ASSUME NEW q \in Poster
          PROVE  /\ taken'[c][q] <= posted[q] /\ accepted[c][q] <= posted[q]
                 /\ c \in rest[q] => taken'[c][q] < posted[q]
      BY <1>0, <1>8, <2>2, <3>0 DEF Numbered
    <3> QED
      BY <1>1, <3>1, <3>2 DEF Numbered
  <2>6. Explained(c)'
    <3>1. ASSUME NEW p \in Poster, sub[c] = "on", ~lost[c], accepted[c][p] # 0,
                 Forwards(c, <<p, accepted[c][p]>>), Listens(c, <<p, accepted[c][p]>>)
          PROVE  taken'[c][p] = accepted[c][p] \/ <<p, accepted[c][p]>> \in All(c)'
      <4>1. taken[c][p] = accepted[c][p] \/ <<p, accepted[c][p]>> \in All(c)
        BY <1>0, <3>1 DEF Explained
      <4>2. CASE p = m[1]
        <5>1. taken[c][p] \in Nat /\ accepted[c][p] \in Nat
          BY <1>0, Piecewise
        <5>2. taken[c][p] < m[2] /\ m[2] <= accepted[c][p]
          BY <1>0, <2>2, <3>1, <4>2 DEF Numbered
        <5>3. taken[c][p] # accepted[c][p]
          BY <1>6, <5>1, <5>2
        <5>4. <<p, accepted[c][p]>> \in All(c)' \cup {m}
          BY <2>2, <4>1, <5>3
        <5>5. CASE <<p, accepted[c][p]>> = m
          BY <1>8, <4>2, <5>5
        <5> QED
          BY <5>4, <5>5
      <4>3. CASE p # m[1]
        BY <1>8, <2>2, <4>1, <4>3
      <4> QED
        BY <4>2, <4>3
    <3> QED
      BY <1>1, <3>1 DEF Explained, Forwards, Listens
  <2> QED
    BY <2>3, <2>5, <2>6
<1>12. ASSUME NEW d \in Client PROVE Ordered(d)' /\ Numbered(d)' /\ Explained(d)'
  <2>0. Ordered(d) /\ Numbered(d) /\ Explained(d)
    BY DEF IInv
  <2>1. CASE d = c
    BY <1>11, <2>1
  <2>2. CASE d # c
    BY <1>0, <1>1, <1>7, <2>0, <2>2, OtherClient
  <2> QED
    BY <2>1, <2>2
<1> QED
  BY <1>9, <1>10, <1>12 DEF IInv

(* A connection breaks: its client has lost messages, and none comes twice. *)
LEMMA DisconnectGood ==
  ASSUME IInv, NEW c \in Client, Disconnect(c)
  PROVE  IInv'
<1>0. TypeOK /\ Ordered(c) /\ Numbered(c)
  BY DEF IInv
<1>1. /\ UNCHANGED <<posted, rest, queue, inbox, taken, accepted, broken>>
      /\ sub[c] = "on" /\ sub' = [sub EXCEPT ![c] = "leaving"]
      /\ line' \in {line, [line EXCEPT ![c] = <<>>]}
      /\ lost' = [lost EXCEPT ![c] = TRUE]
      /\ trouble < MaxTrouble /\ trouble' = trouble + 1
  BY DEF Disconnect, Trouble
<1>2. /\ \A d \in Client : d # c => /\ sub'[d] = sub[d] /\ line'[d] = line[d]
                                    /\ lost'[d] = lost[d]
      /\ sub'[c] = "leaving" /\ lost'[c] /\ line'[c] \in {line[c], <<>>}
  BY <1>0, <1>1 DEF TypeOK
<1>3. TypeOK'
  <2>1. trouble' \in 0..MaxTrouble
    BY <1>0, <1>1, BridgeAssumption DEF TypeOK
  <2>2. /\ sub' \in [Client -> {"off", "on", "leaving", "deleted"}]
        /\ lost' \in [Client -> BOOLEAN] /\ line' \in [Client -> Seq(Message)]
    <3>1. sub' \in [Client -> {"off", "on", "leaving", "deleted"}]
      BY <1>0, <1>1 DEF TypeOK
    <3>2. lost' \in [Client -> BOOLEAN]
      BY <1>0, <1>1 DEF TypeOK
    <3>3. <<>> \in Seq(Message) /\ line \in [Client -> Seq(Message)]
      BY <1>0 DEF TypeOK
    <3>4. line' \in [Client -> Seq(Message)]
      BY <1>1, <3>3
    <3> QED
      BY <3>1, <3>2, <3>4
  <2>3. Len(<<>>) <= 1
    OBVIOUS
  <2>4. \A d \in Client : Len(line'[d]) <= 1
    BY <1>0, <1>2, <2>3 DEF TypeOK
  <2> QED
    BY <1>0, <1>1, <2>1, <2>2, <2>4 DEF TypeOK
<1>4. ~broken' /\ \A p \in Poster : rest'[p] \subseteq Subscribed'
  <2>1. Subscribed' = Subscribed
    BY <1>1, <1>2 DEF Subscribed
  <2> QED
    BY <1>1, <2>1 DEF IInv
<1>5. Ordered(c)' /\ Numbered(c)' /\ Explained(c)'
  <2>1. ToSet(line'[c]) \subseteq ToSet(line[c])
    BY <1>2, ShortPiece
  <2>2. All(c)' \subseteq All(c)
    BY <1>1, <2>1 DEF All
  <2>3. Ordered(c)'
    BY <1>0, <1>1, <2>1 DEF Ordered, Ahead
  <2>4. Numbered(c)'
    BY <1>0, <1>1, <2>2, StaysNumbered
  <2>5. Explained(c)'
    BY <1>2, LostExplains
  <2> QED
    BY <2>3, <2>4, <2>5
<1>6. ASSUME NEW d \in Client PROVE Ordered(d)' /\ Numbered(d)' /\ Explained(d)'
  <2>0. Ordered(d) /\ Numbered(d) /\ Explained(d)
    BY DEF IInv
  <2>1. CASE d = c
    BY <1>5, <2>1
  <2>2. CASE d # c
    BY <1>0, <1>1, <1>2, <2>0, <2>2, OtherClient
  <2> QED
    BY <2>1, <2>2
<1> QED
  BY <1>3, <1>4, <1>6 DEF IInv

(* The relay starts again with nothing. *)
LEMMA RestartGood ==
  ASSUME IInv, RelayRestarts
  PROVE  IInv'
<1>0. TypeOK
  BY DEF IInv
<1>1. /\ UNCHANGED <<posted, inbox, taken, accepted, broken>>
      /\ rest' = [p \in Poster |-> {}] /\ sub' = [c \in Client |-> "off"]
      /\ queue' = [c \in Client |-> <<>>] /\ lost' = [c \in Client |-> TRUE]
      /\ line' \in {line, [c \in Client |-> <<>>]}
      /\ trouble < MaxTrouble /\ trouble' = trouble + 1
  BY DEF RelayRestarts, Trouble
<1>2. \A d \in Client : line'[d] \in {line[d], <<>>} /\ queue'[d] = <<>> /\ sub'[d] = "off"
  BY <1>1
<1>3. TypeOK'
  <2>1. trouble' \in 0..MaxTrouble
    BY <1>0, <1>1, BridgeAssumption DEF TypeOK
  <2>2. <<>> \in Seq(Message) /\ Len(<<>>) <= 1 /\ Len(<<>>) <= QueueCap
    BY BridgeAssumption
  <2>3. /\ sub' \in [Client -> {"off", "on", "leaving", "deleted"}]
        /\ lost' \in [Client -> BOOLEAN] /\ rest' \in [Poster -> SUBSET Client]
    BY <1>1
  <2>4. line' \in [Client -> Seq(Message)] /\ queue' \in [Client -> Seq(Message)]
    BY <1>0, <1>1, <2>2 DEF TypeOK
  <2>5. \A d \in Client : Len(line'[d]) <= 1 /\ Len(queue'[d]) <= QueueCap
    BY <1>0, <1>2, <2>2 DEF TypeOK
  <2> QED
    BY <1>0, <1>1, <2>1, <2>3, <2>4, <2>5 DEF TypeOK
<1>4. ~broken' /\ \A p \in Poster : rest'[p] \subseteq Subscribed'
  BY <1>1 DEF IInv
<1>5. ASSUME NEW d \in Client PROVE Ordered(d)' /\ Numbered(d)' /\ Explained(d)'
  <2>0. Ordered(d) /\ Numbered(d)
    BY DEF IInv
  <2>1. ToSet(line'[d]) \subseteq ToSet(line[d]) /\ ToSet(queue'[d]) = {} /\ Rising(queue'[d])
    BY <1>2, ShortPiece
  <2>2. All(d)' \subseteq All(d)
    BY <1>1, <2>1 DEF All
  <2>3. Ordered(d)'
    BY <1>1, <2>0, <2>1 DEF Ordered, Ahead
  <2>4. Numbered(d)'
    BY <1>0, <1>1, <2>0, <2>2, StaysNumbered
  <2>5. Explained(d)'
    BY <1>2, LostExplains
  <2> QED
    BY <2>3, <2>4, <2>5
<1> QED
  BY <1>3, <1>4, <1>5 DEF IInv

(* Every step keeps the invariant. *)
LEMMA NextIInv == IInv /\ [Next]_vars => IInv'
<1> SUFFICES ASSUME IInv, [Next]_vars PROVE IInv'
  OBVIOUS
<1>1. CASE \E p \in Poster : Post(p) \/ \E c \in Client : Send(p, c)
  BY <1>1, PostGood, SendGood
<1>2. CASE \E c \in Client :
             Subscribe(c) \/ Delete(c) \/ Close(c) \/ Write(c) \/ Read(c) \/ Take(c)
               \/ Disconnect(c)
  BY <1>2, SubscribeGood, LeaveGood, WriteGood, ReadGood, TakeGood, DisconnectGood
<1>3. CASE RelayRestarts
  BY <1>3, RestartGood
<1>4. CASE UNCHANGED vars
  <2>1. /\ UNCHANGED <<posted, rest, sub, queue, line, inbox>>
        /\ UNCHANGED <<taken, accepted, lost, broken, trouble>>
    BY <1>4 DEF vars
  <2>2. TypeOK' /\ ~broken' /\ \A p \in Poster : rest'[p] \subseteq Subscribed'
    BY <2>1 DEF IInv, TypeOK, Subscribed
  <2>3. ASSUME NEW d \in Client PROVE Ordered(d)' /\ Numbered(d)' /\ Explained(d)'
    BY <2>1, OtherClient DEF IInv
  <2> QED
    BY <2>2, <2>3 DEF IInv
<1> QED
  BY <1>1, <1>2, <1>3, <1>4 DEF Next

(* The inductive invariant holds. *)
THEOREM Invariance == Spec => []IInv
<1> QED
  BY InitIInv, NextIInv, PTL DEF Spec

(* Counts stay within what was posted, channels, the line and the buffers   *)
(* within their capacities.                                                 *)
THEOREM TypesHold == Spec => []TypeOK
<1>1. IInv => TypeOK
  BY DEF IInv
<1> QED
  BY <1>1, Invariance, PTL

(* broadcast never sends on a channel that unsubscribe has closed: a client  *)
(* that a broadcast has still to visit is in the map, and leaves it under    *)
(* the lock only.                                                            *)
THEOREM NeverPanics == Spec => []NoSendOnClosed
<1>1. IInv => NoSendOnClosed
  BY DEF IInv, NoSendOnClosed
<1> QED
  BY <1>1, Invariance, PTL

(* What waits for a client is among all its messages, and in order.         *)
LEMMA WaitingPiece ==
  ASSUME IInv, NEW c \in Client
  PROVE  /\ Waiting(c) \in Seq(Message) /\ Rising(Waiting(c))
         /\ ToSet(Waiting(c)) \subseteq All(c)
         /\ sub[c] # "off" => ToSet(Waiting(c)) = All(c)
<1> DEFINE q == IF sub[c] = "off" THEN <<>> ELSE queue[c]
           i == inbox[c]
           l == line[c]
           w == i \o l
<1>1. /\ q \in Seq(Message) /\ l \in Seq(Message) /\ i \in Seq(Message) /\ Len(l) <= 1
      /\ Rising(i)
  BY Piecewise DEF IInv, Ordered
<1>2. /\ ToSet(q) \subseteq ToSet(queue[c]) /\ Rising(q)
      /\ sub[c] # "off" => ToSet(q) = ToSet(queue[c])
  BY ShortPiece DEF IInv, Ordered
<1>3. /\ Ahead(ToSet(i), ToSet(l)) /\ Ahead(ToSet(i), ToSet(queue[c]))
      /\ Ahead(ToSet(l), ToSet(queue[c]))
  BY DEF IInv, Ordered
<1>4. Ahead(ToSet(i), ToSet(q)) /\ Ahead(ToSet(l), ToSet(q))
  BY <1>2, <1>3 DEF Ahead
<1> HIDE DEF q
<1>5. Waiting(c) = w \o q /\ All(c) = ToSet(i) \cup ToSet(l) \cup ToSet(queue[c])
  BY DEF Waiting, All, q
<1> HIDE DEF i, l
<1>6. Rising(l)
  <2>1. DOMAIN l = 1..Len(l) /\ Len(l) \in Nat
    BY <1>1
  <2> QED
    BY <1>1, <2>1 DEF Rising
<1>7. w \in Seq(Message)
  BY <1>1
<1>8. ToSet(w) = ToSet(i) \cup ToSet(l)
  BY <1>1, ConcatSet
<1>9. Rising(w)
  BY <1>1, <1>3, <1>6, ConcatPiece
<1> HIDE DEF w
<1>10. w \o q \in Seq(Message)
  BY <1>1, <1>7
<1>11. ToSet(w \o q) = ToSet(w) \cup ToSet(q)
  BY <1>1, <1>7, ConcatSet
<1>12. Ahead(ToSet(w), ToSet(q))
  BY <1>4, <1>8 DEF Ahead
<1>13. Rising(w \o q)
  BY <1>1, <1>2, <1>7, <1>9, <1>12, ConcatPiece
<1> QED
  BY <1>2, <1>5, <1>8, <1>10, <1>11, <1>13

(* A dal sees the messages of a poster in their order and none twice, over  *)
(* overlapping broadcasts, lost connections and restarts of the relay.      *)
THEOREM InOrder == Spec => []PosterOrder
<1>1. IInv => PosterOrder
  <2> SUFFICES ASSUME IInv, NEW c \in Client
               PROVE  /\ \A i, j \in DOMAIN Waiting(c) :
                           i < j /\ Waiting(c)[i][1] = Waiting(c)[j][1]
                             => Waiting(c)[i][2] < Waiting(c)[j][2]
                      /\ \A i \in DOMAIN Waiting(c) :
                           Waiting(c)[i][2] > taken[c][Waiting(c)[i][1]]
    BY DEF PosterOrder
  <2>0. TypeOK /\ Numbered(c)
    BY DEF IInv
  <2>1. Rising(Waiting(c)) /\ ToSet(Waiting(c)) \subseteq All(c)
    BY WaitingPiece
  <2>2. ASSUME NEW i \in DOMAIN Waiting(c)
        PROVE  Waiting(c)[i][2] > taken[c][Waiting(c)[i][1]]
    <3> DEFINE m == Waiting(c)[i]
    <3>1. m \in All(c)
      BY <2>1 DEF ToSet
    <3> HIDE DEF m
    <3>2. m[1] \in Poster /\ m[2] \in Nat /\ taken[c][m[1]] \in Nat
      BY <2>0, <3>1, Piecewise, AMessage
    <3>3. taken[c][m[1]] < m[2]
      BY <2>0, <3>1 DEF Numbered
    <3>4. m[2] > taken[c][m[1]]
      BY <3>2, <3>3
    <3> QED
      BY <3>4 DEF m
  <2> QED
    BY <2>1, <2>2 DEF Rising
<1> QED
  BY <1>1, Invariance, PTL

(* Of a poster that a connected client listens to, the last message that    *)
(* its channel took is taken or waits, unless the client knows of a loss.   *)
THEOREM NothingLostUnseen == Spec => []LossExplained
<1>1. IInv => LossExplained
  <2> SUFFICES ASSUME IInv, NEW c \in Client, NEW p \in Poster,
                      sub[c] = "on", ~lost[c], accepted[c][p] # 0,
                      Forwards(c, <<p, accepted[c][p]>>), Listens(c, <<p, accepted[c][p]>>)
               PROVE  \/ taken[c][p] = accepted[c][p]
                      \/ <<p, accepted[c][p]>> \in ToSet(Waiting(c))
    BY DEF LossExplained
  <2>1. ToSet(Waiting(c)) = All(c)
    BY WaitingPiece
  <2> QED
    BY <2>1 DEF IInv, Explained
<1> QED
  BY <1>1, Invariance, PTL

=============================================================================
