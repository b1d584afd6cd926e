------------------------ MODULE DalLifecycle_proofs ------------------------
(***************************************************************************)
(* The map of the containers tells the truth about every dal nobody works  *)
(* on, for every number of dals and of concurrent requests.                *)
(***************************************************************************)
EXTENDS DalLifecycle, FiniteSetTheorems, TLAPS

(* A dal of which the map promises something. *)
Sound(d) == d \in Dal /\ d \notin clashed /\ d \notin slipped

(* Who works on d, in what company. *)
Courteous(d) ==
  /\ \A r \in Handler : h[r].dal = d /\ h[r].op \in {"restart", "replace"}
       => \A s \in Handler : h[s].dal = d => s = r
  /\ Recovers(d) => \A r \in Handler : h[r].dal # d
  /\ \A r, s \in Handler :
       h[r].dal = d /\ h[r].op = "wake" /\ h[s].dal = d /\ h[s].op = "wake"
       => r = s

(* r does more to d than being about to stop what it saw. *)
Busy(r, d) ==
  h[r].dal = d /\ ~(h[r].op \in {"sleep", "sync"} /\ h[r].pc = "stop")

(* What the step r is at says of docker and of the map. *)
Stage(r, d) ==
  /\ h[r].pc = "stop" =>
       /\ h[r].seen # None
       /\ box[d].id = h[r].seen => reg[d] = h[r].seen
       /\ h[r].op \in {"restart", "replace"} => box[d].id = h[r].seen
  /\ h[r].pc = "check" =>
       /\ h[r].op = "restart" => reg[d] = None /\ (d \in Leader \/ ~box[d].up)
       /\ h[r].op = "replace" =>
            h[r].seen # None /\ reg[d] = h[r].seen /\ box[d].id = h[r].seen
  /\ h[r].pc = "clean" => reg[d] = None /\ h[r].op # "replace"
  /\ h[r].pc = "run" =>
       box[d] = Gone /\ h[r].op # "replace" /\ (h[r].op = "sync" <=> reg[d] # None)
  /\ h[r].pc = "set" =>
       /\ h[r].made # None /\ box[d].id = h[r].made /\ reg[d] # h[r].made
       /\ h[r].op # "replace" /\ (h[r].op = "sync" <=> reg[d] # None)
  /\ h[r].pc = "drop" => reg[d] # None /\ box[d].id # reg[d] /\ ~box[d].up
  /\ h[r].pc = "delete" =>
       /\ reg[d] # None
       /\ \/ box[d] = Gone
          \/ h[r].op = "restart" /\ d \in Leader /\ box[d].id = reg[d]

WatchStage(d) ==
  w.dal = d =>
    /\ w.pc = "stop" => w.seen # None /\ reg[d] = w.seen /\ box[d].id = w.seen
    /\ w.pc = "delete" => box[d] = Gone /\ reg[d] # None
    /\ w.pc = "run" => box[d] = Gone /\ reg[d] = None
    /\ w.pc = "set" => w.made # None /\ box[d].id = w.made /\ reg[d] = None

Truthful(d) ==
  /\ reg[d] # None => box[d].id = reg[d]
  /\ box[d].up => reg[d] = box[d].id

Mapped(d) ==
  \A r \in Handler : <<d, box[d].id>> \in h[r].todo =>
    \/ reg[d] = box[d].id
    \/ /\ d \in Leader
       /\ \E s \in Handler : h[s].dal = d /\ h[s].op = "restart"
                              /\ h[s].pc \in {"check", "clean"}

Good(d) ==
  /\ Courteous(d)
  /\ \A r \in Handler : h[r].dal = d => Stage(r, d)
  /\ WatchStage(d)
  /\ Mapped(d)
  /\ \A r, s \in Handler : Busy(r, d) /\ Busy(s, d) => r = s
  /\ (\A r \in Handler : ~Busy(r, d)) /\ ~Recovers(d) => Truthful(d)

(* What a handler may remember. *)
Work ==
  [op : {"none", "wake", "sleep", "restart", "replace", "sync"},
   pc : {"idle", "check", "clean", "run", "set", "stop", "delete", "pick", "drop"},
   dal : Dal \cup {None}, seen : Id \cup {None}, made : Id \cup {None},
   left : 0..2, todo : SUBSET (Dal \X Id)]

(* The steps of each operation. *)
Shape(s) ==
  \/ s = Free
  \/ s.op = "sync" /\ s.pc = "pick" /\ s.dal = None
  \/ /\ s.dal \in Dal
     /\ \/ s.op = "wake" /\ s.pc \in {"clean", "run", "set"}
        \/ s.op = "sleep" /\ s.pc \in {"stop", "delete"}
        \/ /\ s.op \in {"restart", "replace"}
           /\ s.pc \in {"check", "clean", "run", "set", "stop", "delete"}
        \/ s.op = "sync" /\ s.pc \in {"stop", "run", "set", "drop"}
     /\ s.op # "sync" /\ s.pc \in {"clean", "run", "set"} => s.dal \in Leader

(* A snapshot has one entry for a dal at most. *)
Fine(s) ==
  s \in Work /\ Shape(s) /\ \A p, q \in s.todo : p[1] = q[1] => p = q

WatchShape ==
  /\ w.pc = "idle" => w.dal = None
  /\ w.pc # "idle" => w.dal \in Leader
  /\ w.pc \in {"idle", "inspect"} => w.fails < FailThreshold + w.tries
  /\ w.pc \notin {"idle", "inspect"} =>
       w.tries < MaxRetry /\ w.fails <= FailThreshold + w.tries

IInv ==
  /\ TypeOK /\ WatchShape
  /\ \A r \in Handler : Fine(h[r])
  /\ \A d \in Dal : Sound(d) => Good(d)

-----------------------------------------------------------------------------
(* A finite set that a function on a finite set covers is no larger.        *)
LEMMA Cover ==
  ASSUME NEW S, IsFiniteSet(S), NEW T, NEW f,
         \A t \in T : \E x \in S : f[x] = t
  PROVE  IsFiniteSet(T) /\ Cardinality(T) <= Cardinality(S)
         /\ Cardinality(T) \in Nat /\ Cardinality(S) \in Nat
<1> DEFINE U == {x \in S : f[x] \in T}
           g == [x \in U |-> f[x]]
<1>1. IsFiniteSet(U) /\ Cardinality(U) <= Cardinality(S)
  BY FS_Subset, U \in SUBSET S
<1>2. g \in Surjection(U, T)
  BY DEF Surjection
<1>3. IsFiniteSet(T) /\ Cardinality(T) <= Cardinality(U)
  <2> HIDE DEF g, U
  <2> QED
    BY <1>1, <1>2, FS_Surjection
<1>4. Cardinality(T) \in Nat /\ Cardinality(U) \in Nat /\ Cardinality(S) \in Nat
  BY <1>1, <1>3, FS_CardinalityType
<1> HIDE DEF U
<1> QED
  BY <1>1, <1>3, <1>4

(* The union of two finite sets is finite and no larger than both together. *)
LEMMA UnionSize ==
  ASSUME NEW S, IsFiniteSet(S), NEW T, IsFiniteSet(T),
         NEW m \in Nat, NEW n \in Nat, Cardinality(S) <= m, Cardinality(T) <= n
  PROVE  IsFiniteSet(S \cup T) /\ Cardinality(S \cup T) <= m + n
<1>1. Cardinality(S \cup T) = Cardinality(S) + Cardinality(T) - Cardinality(S \cap T)
  BY FS_Union
<1>2. IsFiniteSet(S \cap T) /\ IsFiniteSet(S \cup T)
  BY FS_Union, FS_Intersection
<1>3. /\ Cardinality(S) \in Nat /\ Cardinality(T) \in Nat
      /\ Cardinality(S \cap T) \in Nat /\ Cardinality(S \cup T) \in Nat
  BY <1>2, FS_CardinalityType
<1> QED
  BY <1>1, <1>2, <1>3

(* The ids are enough: there is always one nobody holds.                    *)
LEMMA NewIdIsNew ==
  ASSUME TypeOK, \A r \in Handler : Fine(h[r])
  PROVE  NewId \in Id /\ NewId \notin Held
<1> DEFINE nd == Cardinality(Dal)
           nh == Cardinality(Handler)
           np == Cardinality(Handler \X Dal)
           A == {box[d].id : d \in Dal}
           B == {reg[d] : d \in Dal}
           C == {h[r].seen : r \in Handler}
           D == {h[r].made : r \in Handler}
           E == UNION {{p[2] : p \in h[r].todo} : r \in Handler}
           W == {w.seen, w.made}
<1>1. /\ IsFiniteSet(Dal) /\ IsFiniteSet(Handler) /\ IsFiniteSet(Id)
      /\ Cardinality(Id) > 2 * (nd + nh + 1) + nh * nd
  BY LifecycleAssumption
<1>2. nd \in Nat /\ nh \in Nat /\ Cardinality(Id) \in Nat
  BY <1>1, FS_CardinalityType
<1>3. IsFiniteSet(Handler \X Dal) /\ np = nh * nd
  BY <1>1, FS_Product
<1>4. np \in Nat
  BY <1>3, FS_CardinalityType
<1>a. IsFiniteSet(A) /\ Cardinality(A) <= nd
  <2> DEFINE f == [d \in Dal |-> box[d].id]
  <2>1. \A t \in A : \E d \in Dal : f[d] = t
    OBVIOUS
  <2> HIDE DEF f, A
  <2> QED
    BY <2>1, <1>1, Cover
<1>b. IsFiniteSet(B) /\ Cardinality(B) <= nd
  <2>1. \A t \in B : \E d \in Dal : reg[d] = t
    OBVIOUS
  <2> HIDE DEF B
  <2> QED
    BY <2>1, <1>1, Cover
<1>c. IsFiniteSet(C) /\ Cardinality(C) <= nh
  <2> DEFINE f == [r \in Handler |-> h[r].seen]
  <2>1. \A t \in C : \E r \in Handler : f[r] = t
    OBVIOUS
  <2> HIDE DEF f, C
  <2> QED
    BY <2>1, <1>1, Cover
<1>d. IsFiniteSet(D) /\ Cardinality(D) <= nh
  <2> DEFINE f == [r \in Handler |-> h[r].made]
  <2>1. \A t \in D : \E r \in Handler : f[r] = t
    OBVIOUS
  <2> HIDE DEF f, D
  <2> QED
    BY <2>1, <1>1, Cover
<1>e. IsFiniteSet(E) /\ Cardinality(E) <= np
  <2> DEFINE f == [x \in Handler \X Dal |->
                     CHOOSE i \in Id : <<x[2], i>> \in h[x[1]].todo]
  <2>1. ASSUME NEW t \in E PROVE \E x \in Handler \X Dal : f[x] = t
    <3>0. PICK r \in Handler : \E p \in h[r].todo : p[2] = t
      OBVIOUS
    <3>1. PICK p \in h[r].todo : p[2] = t
      BY <3>0
    <3>2. h[r].todo \in SUBSET (Dal \X Id)
      BY DEF TypeOK
    <3>3. p[1] \in Dal /\ p[2] \in Id /\ p = <<p[1], p[2]>>
      BY <3>2
    <3>4. \A i \in Id : <<p[1], i>> \in h[r].todo => i = t
      <4> SUFFICES ASSUME NEW i \in Id, <<p[1], i>> \in h[r].todo PROVE i = t
        OBVIOUS
      <4>1. <<p[1], i>> = p
        BY <3>1, <3>2 DEF Fine
      <4> QED
        BY <4>1, <3>1
    <3>5. (CHOOSE i \in Id : <<p[1], i>> \in h[r].todo) = t
      BY <3>1, <3>3, <3>4
    <3>6. <<r, p[1]>> \in Handler \X Dal /\ f[<<r, p[1]>>] = t
      BY <3>3, <3>5
    <3> QED
      BY <3>6
  <2> HIDE DEF f, E
  <2> QED
    BY <2>1, <1>3, Cover
<1>w. IsFiniteSet(W) /\ Cardinality(W) <= 2
  <2>1. IsFiniteSet({w.seen}) /\ Cardinality({w.seen}) = 1
    BY FS_Singleton
  <2>2. IsFiniteSet({w.made}) /\ Cardinality({w.made}) = 1
    BY FS_Singleton
  <2>3. W = {w.seen} \cup {w.made}
    OBVIOUS
  <2>4. IsFiniteSet({w.seen} \cup {w.made})
        /\ Cardinality({w.seen} \cup {w.made}) <= 1 + 1
    <3> HIDE DEF W
    <3>1. Cardinality({w.seen}) <= 1 /\ Cardinality({w.made}) <= 1 /\ 1 \in Nat
      BY <2>1, <2>2
    <3> QED
      BY <2>1, <2>2, <3>1, UnionSize
  <2> QED
    BY <2>3, <2>4
<1>5. Held = ((((A \cup B) \cup C) \cup D) \cup E) \cup W
  BY DEF Held
<1> HIDE DEF A, B, C, D, E, W, nd, nh, np
<1>6. IsFiniteSet(A \cup B) /\ Cardinality(A \cup B) <= nd + nd
  BY <1>a, <1>b, <1>2, UnionSize
<1>7. IsFiniteSet((A \cup B) \cup C) /\ Cardinality((A \cup B) \cup C) <= (nd + nd) + nh
  BY <1>6, <1>c, <1>2, UnionSize, nd + nd \in Nat
<1>8. /\ IsFiniteSet(((A \cup B) \cup C) \cup D)
      /\ Cardinality(((A \cup B) \cup C) \cup D) <= ((nd + nd) + nh) + nh
  BY <1>7, <1>d, <1>2, UnionSize, (nd + nd) + nh \in Nat
<1>9. /\ IsFiniteSet((((A \cup B) \cup C) \cup D) \cup E)
      /\ Cardinality((((A \cup B) \cup C) \cup D) \cup E) <= (((nd + nd) + nh) + nh) + np
  BY <1>8, <1>e, <1>2, <1>4, UnionSize, ((nd + nd) + nh) + nh \in Nat
<1>10. /\ IsFiniteSet(Held)
       /\ Cardinality(Held) <= ((((nd + nd) + nh) + nh) + np) + 2
  BY <1>5, <1>9, <1>w, <1>2, <1>4, UnionSize, (((nd + nd) + nh) + nh) + np \in Nat
<1>11. Cardinality(Id) > Cardinality(Held)
  <2>1. Cardinality(Held) \in Nat
    BY <1>10, FS_CardinalityType
  <2>2. Cardinality(Id) > 2 * (nd + nh + 1) + np
    BY <1>1, <1>3
  <2> QED
    BY <2>1, <2>2, <1>10, <1>2, <1>4
<1>12. ~(Id \subseteq Held)
  <2>1. ASSUME Id \in SUBSET Held PROVE Cardinality(Id) <= Cardinality(Held)
    BY <2>1, <1>10, FS_Subset
  <2>2. Cardinality(Held) \in Nat
    BY <1>10, FS_CardinalityType
  <2> QED
    BY <2>1, <2>2, <1>2, <1>11
<1> QED
  BY <1>12 DEF NewId

-----------------------------------------------------------------------------
(* A handler that has nothing to do is fine. *)
LEMMA FreeIsFine == Fine(Free)
BY DEF Fine, Work, Shape, Free

(* A handler's fields may be set one by one. *)
LEMMA Put ==
  ASSUME NEW s \in Work
  PROVE  /\ \A v \in {"idle", "check", "clean", "run", "set", "stop", "delete",
                     "pick", "drop"} : [s EXCEPT !.pc = v] \in Work
         /\ \A v \in Dal \cup {None} : [s EXCEPT !.dal = v] \in Work
         /\ \A v \in Id \cup {None} :
              [s EXCEPT !.seen = v] \in Work /\ [s EXCEPT !.made = v] \in Work
         /\ \A v \in 0..2 : [s EXCEPT !.left = v] \in Work
         /\ \A v \in SUBSET (Dal \X Id) : [s EXCEPT !.todo = v] \in Work
BY DEF Work

(* What a wake leaves to do is fine. *)
LEMMA AfterWakeIsFine ==
  ASSUME NEW r \in Handler, Fine(h[r]), h[r].dal \in Dal
  PROVE  Fine(AfterWake(r)) /\ AfterWake(r).todo \subseteq h[r].todo
<1>1. CASE h[r].op = "replace" /\ h[r].left = 2
  <2> DEFINE n == [h[r] EXCEPT !.pc = "check", !.left = 1, !.made = None]
  <2>1. n \in Work
    <3>1. h[r] \in Work
      BY DEF Fine
    <3>2. [h[r] EXCEPT !.pc = "check"] \in Work
      BY <3>1, Put
    <3>3. [h[r] EXCEPT !.pc = "check", !.left = 1] \in Work
      BY <3>2, Put, 1 \in 0..2
    <3> QED
      BY <3>3, Put
  <2>2. n.op = "replace" /\ n.pc = "check" /\ n.dal = h[r].dal /\ n.todo = h[r].todo
    BY <1>1 DEF Fine, Work
  <2>3. AfterWake(r) = n
    BY <1>1 DEF AfterWake
  <2> HIDE DEF n
  <2> QED
    BY <2>1, <2>2, <2>3 DEF Fine, Shape
<1>2. CASE h[r].op = "replace" /\ h[r].left = 1
  <2> DEFINE n == [h[r] EXCEPT !.pc = "stop", !.left = 0, !.made = None]
  <2>1. n \in Work
    <3>1. h[r] \in Work
      BY DEF Fine
    <3>2. [h[r] EXCEPT !.pc = "stop"] \in Work
      BY <3>1, Put
    <3>3. [h[r] EXCEPT !.pc = "stop", !.left = 0] \in Work
      BY <3>2, Put, 0 \in 0..2
    <3> QED
      BY <3>3, Put
  <2>2. n.op = "replace" /\ n.pc = "stop" /\ n.dal = h[r].dal /\ n.todo = h[r].todo
    BY <1>2 DEF Fine, Work
  <2>3. AfterWake(r) = n
    BY <1>2 DEF AfterWake
  <2> HIDE DEF n
  <2> QED
    BY <2>1, <2>2, <2>3 DEF Fine, Shape
<1>3. CASE ~(h[r].op = "replace" /\ h[r].left \in {1, 2})
  <2>1. AfterWake(r) = Free
    BY <1>3 DEF AfterWake
  <2> QED
    BY <2>1, FreeIsFine DEF Free
<1> QED
  BY <1>1, <1>2, <1>3

(* What a turn of runSync leaves to do is fine. *)
LEMMA AfterSyncIsFine ==
  ASSUME NEW r \in Handler, Fine(h[r])
  PROVE  Fine(AfterSync(r)) /\ AfterSync(r).todo \subseteq h[r].todo
<1> DEFINE n == [Free EXCEPT !.op = "sync", !.pc = "pick", !.todo = h[r].todo]
<1>1. n \in Work
  <2>1. h[r].todo \in SUBSET (Dal \X Id)
    BY DEF Fine, Work
  <2>2. Free \in Work
    BY FreeIsFine DEF Fine
  <2> QED
    BY <2>1, <2>2 DEF Work
<1>2. n.op = "sync" /\ n.pc = "pick" /\ n.dal = None /\ n.todo = h[r].todo
  BY DEF Free
<1>3. AfterSync(r) = n \/ AfterSync(r) = Free
  BY DEF AfterSync
<1> HIDE DEF n
<1> QED
  BY <1>1, <1>2, <1>3, FreeIsFine DEF Fine, Shape, Free

(* Whatever a handler does, it is then fine, and it only drops entries of   *)
(* its snapshot or takes a new one.                                         *)
LEMMA HandlerMoves ==
  ASSUME TypeOK, \A q \in Handler : Fine(h[q]), NEW r \in Handler, Handle(r)
  PROVE  \E n : Fine(n) /\ Go(r, n)
<1>. Free \in Work /\ Fine(Free)
  BY FreeIsFine DEF Fine
<1>0. /\ h[r] \in Work /\ Fine(h[r]) /\ Shape(h[r])
      /\ h[r].todo \in SUBSET (Dal \X Id)
      /\ reg \in [Dal -> Id \cup {None}]
      /\ None \notin Dal
  BY LifecycleAssumption DEF TypeOK, Fine, Work
<1>1. ASSUME NEW d \in Dal, Wake(r, d) PROVE \E n : Fine(n) /\ Go(r, n)
  <2> DEFINE n == [Free EXCEPT !.op = "wake", !.dal = d, !.pc = "clean"]
  <2>1. n \in Work
    BY DEF Work
  <2>2. n.op = "wake" /\ n.pc = "clean" /\ n.dal = d /\ n.todo = {}
    BY DEF Free
  <2>3. Go(r, n) /\ d \in Leader
    BY <1>1 DEF Wake, Arrives, WakeAllowed
  <2> HIDE DEF n
  <2> QED
    BY <2>1, <2>2, <2>3 DEF Fine, Shape
<1>2. ASSUME NEW d \in Dal, Sleep(r, d) PROVE \E n : Fine(n) /\ Go(r, n)
  <2> DEFINE n == [Free EXCEPT !.op = "sleep", !.dal = d, !.pc = "stop", !.seen = reg[d]]
  <2>1. n \in Work
    BY <1>0 DEF Work
  <2>2. n.op = "sleep" /\ n.pc = "stop" /\ n.dal = d /\ n.todo = {}
    BY DEF Free
  <2>3. Go(r, n)
    BY <1>2 DEF Sleep
  <2> HIDE DEF n
  <2> QED
    BY <2>1, <2>2, <2>3 DEF Fine, Shape
<1>3. ASSUME NEW d \in Dal, Restart(r, d) PROVE \E n : Fine(n) /\ Go(r, n)
  <2> DEFINE pc == IF reg[d] = None THEN "check" ELSE "stop"
             n == [Free EXCEPT !.op = "restart", !.dal = d, !.seen = reg[d], !.pc = pc]
  <2>0. pc \in {"check", "stop"}
    OBVIOUS
  <2>3. Go(r, n)
    BY <1>3 DEF Restart
  <2> HIDE DEF pc
  <2>1. n \in Work
    BY <2>0, <1>0 DEF Work
  <2>2. n.op = "restart" /\ n.pc = pc /\ n.dal = d /\ n.todo = {}
    BY DEF Free
  <2> HIDE DEF n
  <2> QED
    BY <2>0, <2>1, <2>2, <2>3 DEF Fine, Shape
<1>4. ASSUME NEW d \in Dal, Replace(r, d) PROVE \E n : Fine(n) /\ Go(r, n)
  <2> DEFINE n == [Free EXCEPT !.op = "replace", !.dal = d, !.pc = "check",
                               !.seen = reg[d], !.left = 2]
  <2>1. n \in Work
    <3>1. [Free EXCEPT !.op = "replace", !.dal = d, !.pc = "check"] \in Work
      BY DEF Work
    <3>2. [Free EXCEPT !.op = "replace", !.dal = d, !.pc = "check", !.seen = reg[d]] \in Work
      BY <3>1, <1>0, Put
    <3> QED
      BY <3>2, Put, 2 \in 0..2
  <2>2. n.op = "replace" /\ n.pc = "check" /\ n.dal = d /\ n.todo = {}
    BY DEF Free
  <2>3. Go(r, n)
    BY <1>4 DEF Replace
  <2> HIDE DEF n
  <2> QED
    BY <2>1, <2>2, <2>3 DEF Fine, Shape
<1>5. ASSUME NEW p \in Dal \X Id, Pick(r, p) PROVE \E n : Fine(n) /\ Go(r, n)
  <2> DEFINE t == h[r].todo \ {p}
             m == [h[r] EXCEPT !.todo = t]
             n == [m EXCEPT !.pc = "stop", !.dal = p[1], !.seen = p[2]]
  <2>1. h[r].pc = "pick" /\ h[r].op = "sync" /\ h[r].dal = None
    BY <1>5, <1>0 DEF Pick, At, Shape, Free
  <2>2. m \in Work
    BY <1>0, Put
  <2>3. [m EXCEPT !.pc = "stop"] \in Work
    BY <2>2, Put
  <2>4. [m EXCEPT !.pc = "stop", !.dal = p[1]] \in Work
    BY <2>3, Put
  <2>5. n \in Work
    BY <2>4, Put
  <2>6. m.op = "sync" /\ m.pc = "pick" /\ m.dal = None /\ m.todo = t
    BY <2>1, <1>0 DEF Work
  <2>7. n.op = "sync" /\ n.pc = "stop" /\ n.dal = p[1] /\ n.todo = t
    BY <2>1, <1>0 DEF Work
  <2>8. \A x, y \in t : x[1] = y[1] => x = y
    BY <1>0 DEF Fine
  <2>9. Go(r, n) \/ Go(r, m) \/ Go(r, Free)
    BY <1>5 DEF Pick
  <2> HIDE DEF n, m, t
  <2>10. Fine(m) /\ Fine(n)
    BY <2>2, <2>5, <2>6, <2>7, <2>8 DEF Fine, Shape
  <2> QED
    BY <2>9, <2>10
<1>6. ASSUME Sync(r) PROVE \E n : Fine(n) /\ Go(r, n)
  <2> DEFINE t == {p \in Dal \X Id : reg[p[1]] = p[2]}
             n == [Free EXCEPT !.op = "sync", !.pc = "pick", !.todo = t]
  <2>1. n \in Work
    BY DEF Work
  <2>2. n.op = "sync" /\ n.pc = "pick" /\ n.dal = None /\ n.todo = t
    BY DEF Free
  <2>3. Go(r, n)
    BY <1>6 DEF Sync
  <2>4. \A x, y \in t : x[1] = y[1] => x = y
    OBVIOUS
  <2> HIDE DEF n, t
  <2> QED
    BY <2>1, <2>2, <2>3, <2>4 DEF Fine, Shape
<1>w. ASSUME h[r].pc \notin {"idle", "pick"} PROVE h[r].dal \in Dal
  BY <1>w, <1>0 DEF Shape, Free
<1>a. ASSUME h[r].pc \notin {"idle", "pick"}
      PROVE Fine(AfterWake(r)) /\ Fine(AfterSync(r)) /\ Fine(AfterRun(r))
  BY <1>a, <1>0, <1>w, AfterWakeIsFine, AfterSyncIsFine DEF AfterRun
<1>7. ASSUME WakeInside(r) PROVE \E n : Fine(n) /\ Go(r, n)
  <2> DEFINE n == [h[r] EXCEPT !.pc = "clean"]
  <2>1. n \in Work
    BY <1>0, Put
  <2>2. n.op = h[r].op /\ n.pc = "clean" /\ n.dal = h[r].dal /\ n.todo = h[r].todo
    BY <1>0 DEF Work
  <2>3. h[r].pc = "check" /\ h[r].op \in {"restart", "replace"} /\ h[r].dal \in Dal
    BY <1>7, <1>0 DEF WakeInside, At, Shape, Free
  <2>4. (WakeAllowed(h[r].dal) /\ Go(r, n)) \/ Go(r, AfterWake(r))
    BY <1>7 DEF WakeInside
  <2> HIDE DEF n
  <2>5. WakeAllowed(h[r].dal) => Fine(n)
    BY <1>0, <2>1, <2>2, <2>3 DEF Fine, Shape, WakeAllowed
  <2> QED
    BY <2>3, <2>4, <2>5, <1>a
<1>8. ASSUME Clean(r) PROVE \E n : Fine(n) /\ Go(r, n)
  <2> DEFINE n == [h[r] EXCEPT !.pc = "run"]
  <2>1. n \in Work
    BY <1>0, Put
  <2>2. n.op = h[r].op /\ n.pc = "run" /\ n.dal = h[r].dal /\ n.todo = h[r].todo
    BY <1>0 DEF Work
  <2>3. h[r].pc = "clean" /\ h[r].dal \in Dal
    BY <1>8, <1>0 DEF Clean, At, Shape, Free
  <2>4. Go(r, n)
    BY <1>8 DEF Clean
  <2> HIDE DEF n
  <2>5. Fine(n)
    BY <1>0, <2>1, <2>2, <2>3 DEF Fine, Shape, Free
  <2> QED
    BY <2>4, <2>5
<1>9. ASSUME Run(r) PROVE \E n : Fine(n) /\ Go(r, n)
  <2> DEFINE n == [h[r] EXCEPT !.pc = "set", !.made = NewId]
  <2>1. n \in Work
    BY <1>0, Put, NewIdIsNew
  <2>2. n.op = h[r].op /\ n.pc = "set" /\ n.dal = h[r].dal /\ n.todo = h[r].todo
    BY <1>0 DEF Work
  <2>3. h[r].pc = "run" /\ h[r].dal \in Dal
    BY <1>9, <1>0 DEF Run, At, Shape, Free
  <2>4. Go(r, n)
    BY <1>9 DEF Run
  <2> HIDE DEF n
  <2>5. Fine(n)
    BY <1>0, <2>1, <2>2, <2>3 DEF Fine, Shape, Free
  <2> QED
    BY <2>4, <2>5
<1>10. ASSUME RunError(r) PROVE \E n : Fine(n) /\ Go(r, n)
  <2> DEFINE n == [h[r] EXCEPT !.pc = "drop"]
  <2>1. n \in Work
    BY <1>0, Put
  <2>2. n.op = h[r].op /\ n.pc = "drop" /\ n.dal = h[r].dal /\ n.todo = h[r].todo
    BY <1>0 DEF Work
  <2>3. h[r].pc = "run" /\ h[r].dal \in Dal
    BY <1>10, <1>0 DEF RunError, At, Shape, Free
  <2>4. (h[r].op = "sync" /\ Go(r, n)) \/ Go(r, AfterWake(r))
    BY <1>10 DEF RunError
  <2> HIDE DEF n
  <2>5. h[r].op = "sync" => Fine(n)
    BY <1>0, <2>1, <2>2, <2>3 DEF Fine, Shape, Free
  <2> QED
    BY <2>3, <2>4, <2>5, <1>a
<1>11. ASSUME Set(r) PROVE \E n : Fine(n) /\ Go(r, n)
  BY <1>11, <1>a DEF Set, At
<1>12. ASSUME Stopped(r) PROVE \E n : Fine(n) /\ Go(r, n)
  <2> DEFINE pc == IF h[r].op = "sync" THEN "run" ELSE "delete"
             n == [h[r] EXCEPT !.pc = pc, !.seen = None]
  <2>0. pc \in {"run", "delete"} /\ (pc = "run" <=> h[r].op = "sync")
    OBVIOUS
  <2>4. Go(r, n)
    BY <1>12 DEF Stopped
  <2>3. h[r].pc = "stop" /\ h[r].dal \in Dal
    BY <1>12, <1>0 DEF Stopped, At, Shape, Free
  <2> HIDE DEF pc
  <2>1. n \in Work
    BY <2>0, <1>0, Put
  <2>2. n.op = h[r].op /\ n.pc = pc /\ n.dal = h[r].dal /\ n.todo = h[r].todo
    BY <1>0 DEF Work
  <2> HIDE DEF n
  <2>5. Fine(n)
    BY <1>0, <2>0, <2>1, <2>2, <2>3 DEF Fine, Shape, Free
  <2> QED
    BY <2>4, <2>5
<1>13. ASSUME StopError(r) PROVE \E n : Fine(n) /\ Go(r, n)
  <2> DEFINE n == [h[r] EXCEPT !.pc = "delete", !.seen = None]
  <2>1. n \in Work
    BY <1>0, Put
  <2>2. n.op = h[r].op /\ n.pc = "delete" /\ n.dal = h[r].dal /\ n.todo = h[r].todo
    BY <1>0 DEF Work
  <2>3. h[r].pc = "stop" /\ h[r].dal \in Dal
    BY <1>13, <1>0 DEF StopError, At, Shape, Free
  <2>4. Go(r, Free) \/ Go(r, AfterSync(r)) \/ (h[r].op # "sync" /\ Go(r, n))
    BY <1>13 DEF StopError
  <2> HIDE DEF n
  <2>5. h[r].op # "sync" => Fine(n)
    BY <1>0, <2>1, <2>2, <2>3 DEF Fine, Shape, Free
  <2> QED
    BY <2>3, <2>4, <2>5, <1>a
<1>14. ASSUME Delete(r) PROVE \E n : Fine(n) /\ Go(r, n)
  <2> DEFINE n == [h[r] EXCEPT !.pc = "check"]
  <2>1. n \in Work
    BY <1>0, Put
  <2>2. n.op = h[r].op /\ n.pc = "check" /\ n.dal = h[r].dal /\ n.todo = h[r].todo
    BY <1>0 DEF Work
  <2>3. h[r].pc = "delete" /\ h[r].dal \in Dal
    BY <1>14, <1>0 DEF Delete, At, Shape, Free
  <2>4. (h[r].op = "restart" /\ Go(r, n)) \/ Go(r, Free)
    BY <1>14 DEF Delete
  <2> HIDE DEF n
  <2>5. h[r].op = "restart" => Fine(n)
    BY <1>0, <2>1, <2>2, <2>3 DEF Fine, Shape, Free
  <2> QED
    BY <2>4, <2>5
<1>15. ASSUME Drop(r) PROVE \E n : Fine(n) /\ Go(r, n)
  BY <1>15, <1>a DEF Drop, At
<1> QED
  BY <1>1, <1>2, <1>3, <1>4, <1>5, <1>6, <1>7, <1>8, <1>9, <1>10, <1>11, <1>12,
     <1>13, <1>14, <1>15 DEF Handle

(* What docker may have under the names. *)
Boxes ==
  {b \in [Dal -> [id : Id \cup {None}, up : BOOLEAN]] :
     \A d \in Dal : b[d].up => b[d].id # None}

(* No call of docker leaves anything else. *)
LEMMA DockerTypes ==
  ASSUME TypeOK, \A q \in Handler : Fine(h[q]), NEW d \in Dal, NEW i,
         \/ Stops(d, i) \/ StopFails(d, i) \/ Runs(d) \/ RunFails(d)
         \/ box' = [box EXCEPT ![d] = Gone] \/ Dies(d) \/ UNCHANGED box
  PROVE  box' \in Boxes
<1>0. box \in Boxes /\ None \notin Id
  BY LifecycleAssumption DEF TypeOK, Boxes
<1>1. NewId \in Id
  BY NewIdIsNew
<1>2. ASSUME NEW b \in [id : Id \cup {None}, up : BOOLEAN], b.up => b.id # None,
             box' = [box EXCEPT ![d] = b]
      PROVE  box' \in Boxes
  BY <1>0, <1>2 DEF Boxes
<1>3. CASE box' = [box EXCEPT ![d] = Gone]
  BY <1>2, <1>3 DEF Gone
<1>4. CASE box' = [box EXCEPT ![d].up = FALSE]
  <2>1. [box[d] EXCEPT !.up = FALSE] \in [id : Id \cup {None}, up : BOOLEAN]
    BY <1>0 DEF Boxes
  <2>2. ~[box[d] EXCEPT !.up = FALSE].up
    BY <1>0 DEF Boxes
  <2> QED
    BY <1>2, <1>4, <2>1, <2>2
<1>5. CASE box' = [box EXCEPT ![d] = [id |-> NewId, up |-> TRUE]]
  BY <1>0, <1>1, <1>2, <1>5
<1>6. CASE box' = [box EXCEPT ![d] = [id |-> NewId, up |-> FALSE]]
  BY <1>1, <1>2, <1>6
<1>7. CASE UNCHANGED box
  BY <1>0, <1>7
<1> QED
  BY <1>3, <1>4, <1>5, <1>6, <1>7 DEF Stops, StopFails, Runs, RunFails, Dies

(* A handler leaves everything as it should look. *)
LEMMA HandlerTypes ==
  ASSUME TypeOK, \A q \in Handler : Fine(h[q]), NEW r \in Handler, Handle(r)
  PROVE  /\ box' \in Boxes /\ reg' \in [Dal -> Id \cup {None}]
         /\ failed' \subseteq Leader /\ slipped' \subseteq Dal /\ UNCHANGED w
         /\ h' \in [Handler -> Work] /\ \A q \in Handler : Fine(h'[q])
<1>0. /\ h[r] \in Work /\ Shape(h[r]) /\ None \notin Dal
      /\ h \in [Handler -> Work]
      /\ reg \in [Dal -> Id \cup {None}] /\ failed \subseteq Leader /\ slipped \subseteq Dal
  BY LifecycleAssumption DEF TypeOK, Fine, Work
<1>1. h' \in [Handler -> Work] /\ \A q \in Handler : Fine(h'[q])
  <2>1. PICK n : Fine(n) /\ Go(r, n)
    BY HandlerMoves
  <2> QED
    BY <2>1, <1>0 DEF Fine, Go
<1>2. UNCHANGED w
  BY DEF Handle, Wake, Sleep, Restart, Replace, Pick, Sync, WakeInside, Clean,
         Run, RunError, Set, Stopped, StopError, Delete, Drop
<1>3. CASE UNCHANGED <<box, reg, failed, slipped>>
  <2>1. box' \in Boxes
    BY <1>3 DEF TypeOK, Boxes
  <2> QED
    BY <1>0, <1>1, <1>2, <1>3, <2>1
<1>d. ASSUME h[r].pc \notin {"idle", "pick"} PROVE h[r].dal \in Dal
  BY <1>d, <1>0 DEF Shape, Free
<1>4. CASE Clean(r)
  <2>1. h[r].dal \in Dal /\ reg' = reg /\ failed' = failed
    BY <1>4, <1>d DEF Clean, At
  <2>2. box' = [box EXCEPT ![h[r].dal] = Gone] \/ UNCHANGED box
    BY <1>4 DEF Clean
  <2>3. slipped' \subseteq Dal
    BY <1>4, <2>1, <1>0 DEF Clean
  <2> QED
    BY <1>0, <1>1, <1>2, <2>1, <2>2, <2>3, DockerTypes
<1>5. CASE Run(r) \/ RunError(r)
  <2>1. h[r].dal \in Dal /\ UNCHANGED <<reg, failed, slipped>>
    BY <1>5, <1>d DEF Run, RunError, At, ghosts
  <2>2. Runs(h[r].dal) \/ RunFails(h[r].dal)
    BY <1>5 DEF Run, RunError
  <2> QED
    BY <1>0, <1>1, <1>2, <2>1, <2>2, DockerTypes
<1>6. CASE Stopped(r) \/ StopError(r)
  <2>1. h[r].dal \in Dal /\ UNCHANGED <<reg, failed>>
    BY <1>6, <1>d DEF Stopped, StopError, At, ghosts
  <2>2. Stops(h[r].dal, h[r].seen) \/ StopFails(h[r].dal, h[r].seen)
    BY <1>6 DEF Stopped, StopError
  <2>3. slipped' \subseteq Dal
    BY <1>6, <2>1, <1>0 DEF Stopped, StopError, ghosts
  <2> QED
    BY <1>0, <1>1, <1>2, <2>1, <2>2, <2>3, DockerTypes
<1>7. CASE Set(r) \/ Delete(r) \/ Drop(r)
  <2>1. h[r].dal \in Dal /\ UNCHANGED <<box, slipped>> /\ failed' \subseteq failed
    BY <1>7, <1>d DEF Set, Delete, Drop, At, ghosts
  <2>2. h[r].made \in Id \cup {None}
    BY <1>0 DEF Work
  <2>3. reg' = [reg EXCEPT ![h[r].dal] = h[r].made]
        \/ reg' = [reg EXCEPT ![h[r].dal] = None]
    BY <1>7 DEF Set, Delete, Drop
  <2>4. reg' \in [Dal -> Id \cup {None}]
    BY <2>1, <2>2, <2>3, <1>0
  <2>5. box' \in Boxes
    BY <2>1 DEF TypeOK, Boxes
  <2> QED
    BY <1>0, <1>1, <1>2, <2>1, <2>4, <2>5
<1>8. CASE \/ \E d \in Dal : Wake(r, d) \/ Sleep(r, d) \/ Restart(r, d) \/ Replace(r, d)
           \/ \E p \in Dal \X Id : Pick(r, p)
           \/ Sync(r) \/ WakeInside(r)
  BY <1>3, <1>8 DEF Wake, Sleep, Restart, Replace, Pick, Sync, WakeInside, ghosts
<1> QED
  BY <1>4, <1>5, <1>6, <1>7, <1>8 DEF Handle

(* What the watcher may remember. *)
Health ==
  [pc : {"idle", "inspect", "lookup", "stop", "delete", "run", "set"},
   dal : Dal \cup {None}, seen : Id \cup {None}, made : Id \cup {None},
   fails : 0..(FailThreshold + MaxRetry), tries : 0..MaxRetry]

(* The watcher leaves everything as it should look, its counts included.    *)
LEMMA WatchTypes ==
  ASSUME TypeOK, \A q \in Handler : Fine(h[q]), WatchShape, Watch
  PROVE  /\ box' \in Boxes /\ reg' \in [Dal -> Id \cup {None}]
         /\ failed' \subseteq Leader /\ slipped' \subseteq Dal /\ UNCHANGED h
         /\ w' \in Health /\ WatchShape'
<1>0. /\ w \in Health /\ None \notin Dal /\ box \in Boxes
      /\ reg \in [Dal -> Id \cup {None}] /\ failed \subseteq Leader /\ slipped \subseteq Dal
      /\ Leader \subseteq Dal
  BY LifecycleAssumption DEF TypeOK, Health, Boxes
<1>n. FailThreshold \in Nat \ {0} /\ MaxRetry \in Nat
  BY LifecycleAssumption
<1>f. /\ w.fails \in Nat /\ w.tries \in Nat /\ w.tries <= MaxRetry
      /\ w.pc \in {"idle", "inspect", "lookup", "stop", "delete", "run", "set"}
      /\ w.dal \in Dal \cup {None} /\ w.seen \in Id \cup {None} /\ w.made \in Id \cup {None}
  BY <1>0, <1>n DEF Health
<1>u. UNCHANGED h
  BY DEF Watch, WatchNone, WatchFind, WatchHealthy, WatchSick, WatchLookup,
         WatchStop, WatchDelete, WatchRun, WatchRunError, WatchSet
<1>i. ASSUME NEW f \in Nat, NEW t \in Nat, t <= MaxRetry, f < FailThreshold + t,
             w' = Idle(f, t)
      PROVE  w' \in Health /\ WatchShape'
  <2>1. /\ w'.pc = "idle" /\ w'.dal = None /\ w'.seen = None /\ w'.made = None
        /\ w'.fails = f /\ w'.tries = t
    BY <1>i DEF Idle, Calm
  <2>2. w' = [pc |-> "idle", dal |-> None, seen |-> None, made |-> None,
              fails |-> f, tries |-> t]
    BY <1>i DEF Idle, Calm
  <2>3. f \in 0..(FailThreshold + MaxRetry) /\ t \in 0..MaxRetry
    BY <1>i, <1>n
  <2>4. w' \in Health
    BY <2>2, <2>3 DEF Health
  <2> QED
    BY <1>i, <2>1, <2>4 DEF WatchShape
<1>c. ASSUME w' = Calm PROVE w' \in Health /\ WatchShape'
  <2>1. /\ w'.pc = "idle" /\ w'.dal = None /\ w'.fails = 0 /\ w'.tries = 0
        /\ 0 \in 0..(FailThreshold + MaxRetry) /\ 0 \in 0..MaxRetry
    BY <1>c, <1>n DEF Calm
  <2>2. w' \in Health
    BY <1>c, <2>1 DEF Calm, Health
  <2> QED
    BY <2>1, <2>2, <1>n DEF WatchShape
<1>1. CASE WatchNone
  <2>1. /\ w' = [w EXCEPT !.fails = 0] /\ w.pc = "idle"
        /\ UNCHANGED <<box, reg, failed, slipped>>
    BY <1>1 DEF WatchNone, ghosts
  <2>2. 0 \in 0..(FailThreshold + MaxRetry)
    BY <1>n
  <2>3. w' \in Health
    BY <1>0, <2>1, <2>2 DEF Health
  <2>4. w'.pc = w.pc /\ w'.dal = w.dal /\ w'.fails = 0 /\ w'.tries = w.tries
    BY <1>0, <2>1 DEF Health
  <2>5. 0 < FailThreshold + w.tries
    BY <1>n, <1>f
  <2> QED
    BY <1>0, <1>u, <2>1, <2>3, <2>4, <2>5 DEF WatchShape
<1>2. ASSUME NEW l \in Leader, WatchFind(l) PROVE
        /\ UNCHANGED <<box, reg, failed, slipped>> /\ w' \in Health /\ WatchShape'
  <2>1. /\ w' = [w EXCEPT !.pc = "inspect", !.dal = l, !.seen = reg[l]] /\ w.pc = "idle"
        /\ UNCHANGED <<box, reg, failed, slipped>>
    BY <1>2 DEF WatchFind, ghosts
  <2>2. l \in Dal \cup {None} /\ reg[l] \in Id \cup {None}
    BY <1>0
  <2>3. w' \in Health
    BY <1>0, <2>1, <2>2 DEF Health
  <2>4. w'.pc = "inspect" /\ w'.dal = l /\ w'.fails = w.fails /\ w'.tries = w.tries
    BY <1>0, <2>1 DEF Health
  <2> QED
    BY <2>1, <2>3, <2>4 DEF WatchShape
<1>3. CASE WatchHealthy
  BY <1>0, <1>u, <1>3, <1>c DEF WatchHealthy, ghosts
<1>4. CASE WatchSick
  <2>0. w.pc = "inspect" /\ UNCHANGED <<box, reg, slipped>> /\ failed' \subseteq failed
    BY <1>4 DEF WatchSick
  <2>5. w.dal \in Leader /\ w.fails < FailThreshold + w.tries
    BY <2>0 DEF WatchShape
  <2>1. CASE w.fails + 1 < FailThreshold /\ w' = Idle(w.fails + 1, w.tries)
    <3>1. w.fails + 1 \in Nat /\ w.fails + 1 < FailThreshold + w.tries
      BY <2>1, <1>f, <1>n
    <3> QED
      BY <3>1, <2>0, <2>1, <1>0, <1>u, <1>f, <1>i
  <2>2. CASE w' = Calm
    BY <2>0, <2>2, <1>0, <1>u, <1>c
  <2>3. CASE w.tries < MaxRetry /\ w' = [w EXCEPT !.pc = "lookup", !.fails = w.fails + 1]
    <3>1. w.fails + 1 \in 0..(FailThreshold + MaxRetry)
      BY <2>3, <2>5, <1>f, <1>n
    <3>2. w' \in Health
      BY <1>0, <2>3, <3>1 DEF Health
    <3>3. w'.pc = "lookup" /\ w'.dal = w.dal /\ w'.fails = w.fails + 1 /\ w'.tries = w.tries
      BY <1>0, <2>3 DEF Health
    <3>4. w.fails + 1 <= FailThreshold + w.tries
      BY <2>5, <1>f, <1>n
    <3> QED
      BY <2>0, <2>3, <2>5, <3>2, <3>3, <3>4, <1>0, <1>u DEF WatchShape
  <2> QED
    BY <1>4, <2>1, <2>2, <2>3 DEF WatchSick
<1>r. ASSUME w.pc \notin {"idle", "inspect"}
      PROVE  /\ w.dal \in Leader /\ w.dal \in Dal
             /\ w.tries < MaxRetry /\ w.fails <= FailThreshold + w.tries
             /\ w.tries + 1 \in Nat /\ w.tries + 1 <= MaxRetry
             /\ w.fails < FailThreshold + (w.tries + 1)
             /\ 0 < FailThreshold + (w.tries + 1)
  <2>1. w.dal \in Leader /\ w.tries < MaxRetry /\ w.fails <= FailThreshold + w.tries
    BY <1>r, <1>f DEF WatchShape
  <2> QED
    BY <2>1, <1>0, <1>f, <1>n
<1>g. ASSUME NEW pc \in {"stop", "delete", "run", "set"},
             w.pc \notin {"idle", "inspect"},
             w' \in Health, w'.pc = pc, w'.dal = w.dal, w'.fails = w.fails, w'.tries = w.tries
      PROVE  WatchShape'
  BY <1>g, <1>r DEF WatchShape
<1>5. CASE WatchLookup
  <2>1. w.pc = "lookup" /\ UNCHANGED <<box, reg, failed, slipped>>
    BY <1>5 DEF WatchLookup, ghosts
  <2>2. CASE w' = Idle(w.fails, w.tries + 1)
    BY <2>1, <2>2, <1>0, <1>u, <1>r, <1>i, <1>f
  <2>3. CASE w' = [w EXCEPT !.pc = "stop", !.seen = reg[w.dal]]
    <3>1. reg[w.dal] \in Id \cup {None}
      BY <2>1, <1>r, <1>0
    <3>2. w' \in Health
      BY <1>0, <2>3, <3>1 DEF Health
    <3>3. w'.pc = "stop" /\ w'.dal = w.dal /\ w'.fails = w.fails /\ w'.tries = w.tries
      BY <1>0, <2>3 DEF Health
    <3>4. WatchShape'
      BY <2>1, <3>2, <3>3, <1>g
    <3> QED
      BY <2>1, <3>2, <3>4, <1>0, <1>u
  <2> QED
    BY <1>5, <2>2, <2>3 DEF WatchLookup
<1>6. CASE WatchStop
  <2>1. /\ w.pc = "stop" /\ UNCHANGED <<reg, failed>>
        /\ w' = [w EXCEPT !.pc = "delete", !.seen = None]
        /\ Stops(w.dal, w.seen) \/ StopFails(w.dal, w.seen)
    BY <1>6 DEF WatchStop
  <2>2. slipped' \subseteq Dal
    BY <1>6, <2>1, <1>0, <1>r DEF WatchStop
  <2>3. w' \in Health
    BY <1>0, <2>1 DEF Health
  <2>4. w'.pc = "delete" /\ w'.dal = w.dal /\ w'.fails = w.fails /\ w'.tries = w.tries
    BY <1>0, <2>1 DEF Health
  <2>5. WatchShape'
    BY <2>1, <2>3, <2>4, <1>g
  <2>6. box' \in Boxes
    BY <2>1, <1>r, DockerTypes
  <2> QED
    BY <2>1, <2>2, <2>3, <2>5, <2>6, <1>0, <1>u
<1>7. CASE WatchDelete
  <2>1. /\ w.pc = "delete" /\ UNCHANGED <<box, failed, slipped>>
        /\ reg' = [reg EXCEPT ![w.dal] = None] /\ w' = [w EXCEPT !.pc = "run"]
    BY <1>7 DEF WatchDelete, ghosts
  <2>3. w' \in Health
    BY <1>0, <2>1 DEF Health
  <2>4. w'.pc = "run" /\ w'.dal = w.dal /\ w'.fails = w.fails /\ w'.tries = w.tries
    BY <1>0, <2>1 DEF Health
  <2>5. WatchShape'
    BY <2>1, <2>3, <2>4, <1>g
  <2> QED
    BY <2>1, <2>3, <2>5, <1>0, <1>u
<1>8. CASE WatchRun
  <2>1. /\ w.pc = "run" /\ UNCHANGED <<reg, failed, slipped>>
        /\ Runs(w.dal) /\ w' = [w EXCEPT !.pc = "set", !.made = NewId]
    BY <1>8 DEF WatchRun, ghosts
  <2>2. NewId \in Id \cup {None}
    BY NewIdIsNew
  <2>3. w' \in Health
    BY <1>0, <2>1, <2>2 DEF Health
  <2>4. w'.pc = "set" /\ w'.dal = w.dal /\ w'.fails = w.fails /\ w'.tries = w.tries
    BY <1>0, <2>1 DEF Health
  <2>5. WatchShape'
    BY <2>1, <2>3, <2>4, <1>g
  <2>6. box' \in Boxes
    BY <2>1, <1>r, DockerTypes
  <2> QED
    BY <2>1, <2>3, <2>5, <2>6, <1>0, <1>u
<1>9. CASE WatchRunError
  <2>1. /\ w.pc = "run" /\ UNCHANGED <<reg, slipped>> /\ RunFails(w.dal)
        /\ w' = Idle(w.fails, w.tries + 1) /\ failed' = failed \cup {w.dal}
    BY <1>9 DEF WatchRunError
  <2>2. w' \in Health /\ WatchShape'
    BY <2>1, <1>r, <1>i, <1>f
  <2>3. failed' \subseteq Leader
    BY <2>1, <1>r, <1>0
  <2>6. box' \in Boxes
    BY <2>1, <1>r, DockerTypes
  <2> QED
    BY <2>1, <2>2, <2>3, <2>6, <1>0, <1>u
<1>10. CASE WatchSet
  <2>1. /\ w.pc = "set" /\ UNCHANGED <<box, slipped>> /\ failed' \subseteq failed
        /\ w' = Idle(0, w.tries + 1) /\ reg' = [reg EXCEPT ![w.dal] = w.made]
    BY <1>10 DEF WatchSet
  <2>2. w' \in Health /\ WatchShape'
    BY <2>1, <1>r, <1>i, <1>f
  <2> QED
    BY <2>1, <2>2, <1>0, <1>u, <1>f
<1> QED
  BY <1>0, <1>1, <1>2, <1>3, <1>4, <1>5, <1>6, <1>7, <1>8, <1>9, <1>10, <1>u DEF Watch

-----------------------------------------------------------------------------
(* Nobody has ever heard of a new id. *)
LEMMA NewIdUnknown ==
  ASSUME TypeOK, \A q \in Handler : Fine(h[q])
  PROVE  /\ NewId \in Id /\ NewId # None
         /\ \A d \in Dal : reg[d] # NewId /\ box[d].id # NewId
         /\ \A q \in Handler : h[q].seen # NewId
         /\ \A q \in Handler, d \in Dal : <<d, NewId>> \notin h[q].todo
<1>1. NewId \in Id /\ NewId \notin Held /\ None \notin Id
  BY NewIdIsNew, LifecycleAssumption
<1>2. ASSUME NEW q \in Handler, NEW d \in Dal, <<d, NewId>> \in h[q].todo
      PROVE  FALSE
  <2>1. NewId \in {p[2] : p \in h[q].todo}
    BY <1>2
  <2>2. NewId \in UNION {{p[2] : p \in h[r].todo} : r \in Handler}
    BY <2>1
  <2> QED
    BY <1>1, <2>2 DEF Held
<1>3. ASSUME NEW d \in Dal PROVE reg[d] # NewId /\ box[d].id # NewId
  BY <1>1 DEF Held
<1>4. ASSUME NEW q \in Handler PROVE h[q].seen # NewId
  BY <1>1 DEF Held
<1> QED
  BY <1>1, <1>2, <1>3, <1>4

(* A set of handlers without two members. *)
LEMMA AtMostOne ==
  ASSUME NEW S \in SUBSET Handler, ~(Cardinality(S) > 1), NEW r \in S, NEW s \in S
  PROVE  r = s
<1> SUFFICES ASSUME r # s PROVE FALSE
  OBVIOUS
<1>1. IsFiniteSet(S) /\ Cardinality(S) \in Nat
  BY LifecycleAssumption, FS_Subset, FS_CardinalityType
<1>2. IsFiniteSet(S \ {r}) /\ Cardinality(S \ {r}) = Cardinality(S) - 1
  BY <1>1, FS_RemoveElement
<1>3. Cardinality(S \ {r}) # 0
  BY <1>2, FS_EmptySet
<1>4. Cardinality(S \ {r}) \in Nat
  BY <1>2, FS_CardinalityType
<1> QED
  BY <1>1, <1>2, <1>3, <1>4

(* A dal that is not marked has only operations that tolerate each other.   *)
LEMMA StaysCourteous ==
  ASSUME NEW d \in Dal, Track, d \notin clashed'
  PROVE  Courteous(d)'
<1> DEFINE on == {r \in Handler : h'[r].dal = d}
           wakes == {r \in on : h'[r].op = "wake"}
<1>1. ~Clash(d)'
  BY DEF Track
<1>2. /\ ~(Rude(d)' # {} /\ Cardinality(on) > 1)
      /\ ~(Recovers(d)' /\ on # {})
      /\ ~(Cardinality(wakes) > 1)
  BY <1>1 DEF Clash
<1>3. on \in SUBSET Handler /\ wakes \in SUBSET Handler
  OBVIOUS
<1>4. ASSUME NEW r \in Handler, h'[r].dal = d, h'[r].op \in {"restart", "replace"},
             NEW s \in Handler, h'[s].dal = d
      PROVE  s = r
  <2>1. r \in Rude(d)' /\ r \in on /\ s \in on
    BY <1>4 DEF Rude
  <2> HIDE DEF on
  <2> QED
    BY <2>1, <1>2, <1>3, AtMostOne
<1>5. ASSUME Recovers(d)', NEW r \in Handler PROVE h'[r].dal # d
  BY <1>2, <1>5
<1>6. ASSUME NEW r \in Handler, NEW s \in Handler, h'[r].dal = d, h'[r].op = "wake",
             h'[s].dal = d, h'[s].op = "wake"
      PROVE  r = s
  <2>1. r \in wakes /\ s \in wakes
    BY <1>6
  <2> HIDE DEF wakes
  <2> QED
    BY <2>1, <1>2, <1>3, AtMostOne
<1> QED
  BY <1>4, <1>5, <1>6 DEF Courteous

(* What docker and the map say of a dal holds on when others work elsewhere. *)
LEMMA Elsewhere ==
  ASSUME NEW d \in Dal, Good(d), Courteous(d)',
         box'[d] = box[d], reg'[d] = reg[d],
         \A r \in Handler : h'[r].dal = d => h'[r] = h[r],
         \A r \in Handler : Busy(r, d) => h'[r] = h[r],
         \A r \in Handler : <<d, box[d].id>> \in h'[r].todo =>
            <<d, box[d].id>> \in h[r].todo \/ reg[d] = box[d].id,
         WatchStage(d)', Recovers(d) => Recovers(d)'
  PROVE  Good(d)'
<1>1. \A r \in Handler : h'[r].dal = d => Stage(r, d)'
  BY DEF Good, Stage
<1>2. Mapped(d)'
  BY DEF Good, Mapped, Busy
<1>3. \A r, s \in Handler : Busy(r, d)' /\ Busy(s, d)' => r = s
  BY DEF Good, Busy
<1>4. (\A r \in Handler : ~Busy(r, d)') /\ ~Recovers(d)' => Truthful(d)'
  <2>1. SUFFICES ASSUME \A r \in Handler : ~Busy(r, d)', ~Recovers(d)' PROVE Truthful(d)'
    OBVIOUS
  <2>2. \A r \in Handler : ~Busy(r, d)
    BY <2>1 DEF Busy
  <2> QED
    BY <2>1, <2>2 DEF Good, Truthful
<1> QED
  BY <1>1, <1>2, <1>3, <1>4 DEF Good

(* Somebody turns to a dal. *)
LEMMA Arrival ==
  ASSUME NEW d \in Dal, Good(d), Courteous(d)', NEW r \in Handler,
         h[r].dal # d, h'[r].dal = d, \A q \in Handler \ {r} : h'[q] = h[q],
         UNCHANGED <<box, reg, w>>, h'[r].todo \subseteq h[r].todo,
         Stage(r, d)', Busy(r, d)' => \A q \in Handler \ {r} : ~Busy(q, d)
  PROVE  Good(d)'
<1>1. \A q \in Handler : h'[q].dal = d => Stage(q, d)'
  BY DEF Good, Stage
<1>2. Mapped(d)'
  BY DEF Good, Mapped
<1>3. \A q, s \in Handler : Busy(q, d)' /\ Busy(s, d)' => q = s
  BY DEF Good, Busy
<1>4. (\A q \in Handler : ~Busy(q, d)') /\ ~Recovers(d)' => Truthful(d)'
  <2>1. SUFFICES ASSUME \A q \in Handler : ~Busy(q, d)', ~Recovers(d)' PROVE Truthful(d)'
    OBVIOUS
  <2>2. \A q \in Handler : ~Busy(q, d)
    BY <2>1 DEF Busy
  <2>3. ~Recovers(d)
    BY <2>1 DEF Recovers
  <2> QED
    BY <2>2, <2>3 DEF Good, Truthful
<1>5. WatchStage(d)'
  BY DEF Good, WatchStage
<1> QED
  BY <1>1, <1>2, <1>3, <1>4, <1>5 DEF Good

(* The one who is busy with a dal takes a step. *)
LEMMA BusyStep ==
  ASSUME NEW d \in Dal, Good(d), Courteous(d)', NEW r \in Handler, Busy(r, d),
         \A q \in Handler : Fine(h[q]),
         \A q \in Handler \ {r} : h'[q] = h[q], UNCHANGED w,
         h'[r].todo \subseteq h[r].todo,
         \A q \in Handler \ {r} : h[q].dal = d /\ box'[d].id = h[q].seen
            => reg'[d] = h[q].seen \/ h[q].seen = None,
         \A q \in Handler : <<d, box'[d].id>> \in h[q].todo =>
            \/ reg'[d] = box'[d].id
            \/ d \in Leader /\ h'[r].dal = d /\ h'[r].op = "restart"
               /\ h'[r].pc \in {"check", "clean"},
         h'[r].dal = d => Stage(r, d)',
         ~Busy(r, d)' => Truthful(d)'
  PROVE  Good(d)'
<1>0. \A q \in Handler \ {r} : ~Busy(q, d)
  BY DEF Good
<1>1. \A q \in Handler : h'[q].dal = d => Stage(q, d)'
  <2> SUFFICES ASSUME NEW q \in Handler \ {r}, h[q].dal = d PROVE Stage(q, d)'
    OBVIOUS
  <2>1. h'[q] = h[q] /\ h[q].pc = "stop" /\ h[q].op \in {"sleep", "sync"}
    BY <1>0 DEF Busy
  <2>2. h[q].seen # None
    BY <2>1 DEF Good, Stage
  <2> QED
    BY <2>1, <2>2 DEF Stage
<1>2. Mapped(d)'
  BY DEF Mapped
<1>3. \A q, s \in Handler : Busy(q, d)' /\ Busy(s, d)' => q = s
  BY <1>0 DEF Busy
<1>4. (\A q \in Handler : ~Busy(q, d)') /\ ~Recovers(d)' => Truthful(d)'
  OBVIOUS
<1>5. WatchStage(d)'
  <2>1. ~Recovers(d)
    BY DEF Good, Courteous, Busy
  <2> QED
    BY <2>1 DEF Recovers, WatchStage
<1> QED
  BY <1>1, <1>2, <1>3, <1>4, <1>5 DEF Good

(* The watcher recovers a dal: nobody else works on it. *)
LEMMA WatchStep ==
  ASSUME NEW d \in Dal, Good(d), Courteous(d)', UNCHANGED h,
         Recovers(d) \/ Recovers(d)',
         WatchStage(d)',
         \A q \in Handler : <<d, box'[d].id>> \in h[q].todo => reg'[d] = box'[d].id,
         ~Recovers(d)' => Truthful(d)'
  PROVE  Good(d)'
<1>1. \A q \in Handler : h[q].dal # d /\ h'[q].dal # d
  BY DEF Good, Courteous
<1>2. Mapped(d)'
  BY DEF Mapped
<1> QED
  BY <1>1, <1>2 DEF Good, Busy

(* While the registered container is there, nobody is busy with the dal. *)
LEMMA NobodyBusy ==
  ASSUME NEW d \in Dal, Good(d), \A q \in Handler : Fine(h[q]),
         reg[d] # None, box[d].id = reg[d],
         \A q \in Handler : h[q].dal = d => h[q].op \notin {"restart", "replace"}
  PROVE  \A q \in Handler : ~Busy(q, d)
<1> SUFFICES ASSUME NEW q \in Handler, Busy(q, d) PROVE FALSE
  OBVIOUS
<1>1. h[q].dal = d /\ Stage(q, d) /\ Shape(h[q]) /\ None \notin Dal
  BY LifecycleAssumption DEF Good, Busy, Fine
<1> QED
  BY <1>1 DEF Busy, Stage, Shape, Free, Gone

(* A handler's step on one dal leaves the others alone. *)
LEMMA OtherDal ==
  ASSUME NEW d \in Dal, Good(d), Courteous(d)', NEW r \in Handler,
         h[r].dal # d, h'[r].dal # d, \A q \in Handler \ {r} : h'[q] = h[q],
         box'[d] = box[d], reg'[d] = reg[d], UNCHANGED w,
         \A i : <<d, i>> \in h'[r].todo => <<d, i>> \in h[r].todo \/ reg[d] = i
  PROVE  Good(d)'
<1>1. WatchStage(d)' /\ (Recovers(d) => Recovers(d)')
  BY DEF Good, WatchStage, Recovers
<1>2. /\ \A q \in Handler : h'[q].dal = d => h'[q] = h[q]
      /\ \A q \in Handler : Busy(q, d) => h'[q] = h[q]
      /\ \A q \in Handler : <<d, box[d].id>> \in h'[q].todo =>
            <<d, box[d].id>> \in h[q].todo \/ reg[d] = box[d].id
  BY DEF Busy
<1> QED
  BY <1>1, <1>2, Elsewhere

(* Where a handler is after a wake or after a turn of runSync. *)
LEMMA AfterWakeIs ==
  ASSUME NEW r \in Handler, h[r] \in Work
  PROVE  \/ AfterWake(r) = Free
         \/ /\ h[r].op = "replace" /\ AfterWake(r).op = "replace"
            /\ AfterWake(r).dal = h[r].dal /\ AfterWake(r).seen = h[r].seen
            /\ AfterWake(r).pc \in {"check", "stop"}
            /\ AfterWake(r).todo = h[r].todo
<1>1. CASE h[r].op = "replace" /\ h[r].left = 2
  <2> DEFINE n == [h[r] EXCEPT !.pc = "check", !.left = 1, !.made = None]
  <2>1. AfterWake(r) = n
    BY <1>1 DEF AfterWake
  <2>2. n.op = "replace" /\ n.pc = "check" /\ n.dal = h[r].dal /\ n.seen = h[r].seen
        /\ n.todo = h[r].todo
    BY <1>1 DEF Work
  <2> HIDE DEF n
  <2> QED
    BY <1>1, <2>1, <2>2
<1>2. CASE h[r].op = "replace" /\ h[r].left = 1
  <2> DEFINE n == [h[r] EXCEPT !.pc = "stop", !.left = 0, !.made = None]
  <2>1. AfterWake(r) = n
    BY <1>2 DEF AfterWake
  <2>2. n.op = "replace" /\ n.pc = "stop" /\ n.dal = h[r].dal /\ n.seen = h[r].seen
        /\ n.todo = h[r].todo
    BY <1>2 DEF Work
  <2> HIDE DEF n
  <2> QED
    BY <1>2, <2>1, <2>2
<1>3. CASE ~(h[r].op = "replace" /\ h[r].left \in {1, 2})
  BY <1>3 DEF AfterWake
<1> QED
  BY <1>1, <1>2, <1>3

(* After a turn runSync works on no dal. *)
LEMMA AfterSyncIs ==
  ASSUME NEW r \in Handler
  PROVE  AfterSync(r).dal = None /\ AfterSync(r).todo \subseteq h[r].todo
BY DEF AfterSync, Free

(* What every step of a handler starts from. *)
LEMMA HandlerFacts ==
  ASSUME TypeOK, \A q \in Handler : Fine(h[q]), NEW r \in Handler
  PROVE  /\ h[r] \in Work /\ Fine(h[r]) /\ Shape(h[r]) /\ None \notin Dal /\ None \notin Id
         /\ h \in [Handler -> Work] /\ h[r].todo \subseteq Dal \X Id
         /\ reg \in [Dal -> Id \cup {None}]
         /\ box \in [Dal -> [id : Id \cup {None}, up : BOOLEAN]]
         /\ \A d \in Dal : box[d].up => box[d].id # None
         /\ h[r].pc \notin {"idle", "pick"} => h[r].dal \in Dal
         /\ h[r].pc \in {"idle", "pick"} => h[r].dal = None
         /\ h[r] = Free => h[r].dal = None /\ h[r].todo = {}
         /\ \A n : Go(r, n) => h'[r] = n /\ \A q \in Handler \ {r} : h'[q] = h[q]
<1>1. /\ h[r] \in Work /\ Fine(h[r]) /\ Shape(h[r]) /\ None \notin Dal /\ None \notin Id
      /\ h \in [Handler -> Work] /\ h[r].todo \subseteq Dal \X Id
      /\ reg \in [Dal -> Id \cup {None}]
      /\ box \in [Dal -> [id : Id \cup {None}, up : BOOLEAN]]
      /\ \A d \in Dal : box[d].up => box[d].id # None
  BY LifecycleAssumption DEF TypeOK, Fine, Work
<1>2. /\ h[r].pc \notin {"idle", "pick"} => h[r].dal \in Dal
      /\ h[r].pc \in {"idle", "pick"} => h[r].dal = None
      /\ h[r] = Free => h[r].dal = None /\ h[r].todo = {}
  BY <1>1 DEF Shape, Free
<1>3. \A n : Go(r, n) => h'[r] = n /\ \A q \in Handler \ {r} : h'[q] = h[q]
  BY <1>1 DEF Go
<1> QED
  BY <1>1, <1>2, <1>3

(* A new request: nothing but the handler changes. *)
LEMMA ArrivalGood ==
  ASSUME TypeOK, \A q \in Handler : Fine(h[q]), NEW r \in Handler, Track,
         NEW e \in Dal, Wake(r, e) \/ Sleep(r, e) \/ Restart(r, e) \/ Replace(r, e),
         NEW d \in Dal, d \notin clashed', Good(d)
  PROVE  Good(d)'
<1>1. Courteous(d)'
  BY StaysCourteous
<1>2. UNCHANGED <<box, reg, w>> /\ h[r] = Free
  BY DEF Wake, Sleep, Restart, Replace, Arrives
<1>3. h[r].dal = None /\ None # d
  BY <1>2, HandlerFacts
<1>4. PICK n : Go(r, n) /\ n.dal = e /\ n.todo = {}
      /\ \/ n.op = "wake" /\ n.pc = "clean" /\ reg[e] = None
         \/ n.op = "sleep" /\ n.pc = "stop" /\ n.seen = reg[e] /\ reg[e] # None
         \/ n.op = "restart" /\ n.seen = reg[e] /\ reg[e] # None /\ n.pc = "stop"
         \/ n.op = "restart" /\ n.seen = reg[e] /\ reg[e] = None /\ n.pc = "check"
         \/ n.op = "replace" /\ n.seen = reg[e] /\ reg[e] # None /\ n.pc = "check"
  <2>1. CASE Wake(r, e)
    <3> DEFINE n == [Free EXCEPT !.op = "wake", !.dal = e, !.pc = "clean"]
    <3>1. n.dal = e /\ n.todo = {} /\ n.op = "wake" /\ n.pc = "clean"
      BY DEF Free
    <3>2. Go(r, n) /\ reg[e] = None
      BY <2>1 DEF Wake, Arrives, WakeAllowed
    <3> HIDE DEF n
    <3> QED
      BY <3>1, <3>2
  <2>2. CASE Sleep(r, e)
    <3> DEFINE n == [Free EXCEPT !.op = "sleep", !.dal = e, !.pc = "stop", !.seen = reg[e]]
    <3>1. n.dal = e /\ n.todo = {} /\ n.op = "sleep" /\ n.pc = "stop" /\ n.seen = reg[e]
      BY DEF Free
    <3>2. Go(r, n) /\ reg[e] # None
      BY <2>2 DEF Sleep
    <3> HIDE DEF n
    <3> QED
      BY <3>1, <3>2
  <2>3. CASE Restart(r, e)
    <3> DEFINE pc == IF reg[e] = None THEN "check" ELSE "stop"
               n == [Free EXCEPT !.op = "restart", !.dal = e, !.seen = reg[e], !.pc = pc]
    <3>1. n.dal = e /\ n.todo = {} /\ n.op = "restart" /\ n.pc = pc /\ n.seen = reg[e]
      BY DEF Free
    <3>2. Go(r, n)
      BY <2>3 DEF Restart
    <3> HIDE DEF n
    <3> QED
      BY <3>1, <3>2
  <2>4. CASE Replace(r, e)
    <3> DEFINE n == [Free EXCEPT !.op = "replace", !.dal = e, !.pc = "check",
                                 !.seen = reg[e], !.left = 2]
    <3>1. n.dal = e /\ n.todo = {} /\ n.op = "replace" /\ n.pc = "check" /\ n.seen = reg[e]
      BY DEF Free
    <3>2. Go(r, n) /\ reg[e] # None
      BY <2>4 DEF Replace
    <3> HIDE DEF n
    <3> QED
      BY <3>1, <3>2
  <2> QED
    BY <2>1, <2>2, <2>3, <2>4
<1>5. h'[r] = n /\ \A q \in Handler \ {r} : h'[q] = h[q]
  BY <1>4, HandlerFacts
<1>6. CASE d # e
  BY <1>1, <1>2, <1>3, <1>4, <1>5, <1>6, OtherDal
<1>7. CASE d = e
  <2>1. \A q \in Handler \ {r} : Shape(h[q]) /\ None \notin Dal
    BY HandlerFacts
  <2>2. CASE n.op = "wake"
    <3>1. Stage(r, d)'
      BY <1>2, <1>4, <1>5, <1>7, <2>2 DEF Stage
    <3>2. ASSUME NEW q \in Handler \ {r}, Busy(q, d) PROVE FALSE
      <4>1. Stage(q, d) /\ h[q].dal = d /\ h'[q] = h[q]
        BY <3>2, <1>5 DEF Good, Busy
      <4>2. h[q].op \notin {"wake", "restart", "replace"}
        BY <4>1, <1>1, <1>4, <1>5, <1>7, <2>2 DEF Courteous
      <4> QED
        BY <4>1, <4>2, <2>1, <3>2, <1>4, <1>7, <2>2 DEF Shape, Stage, Busy, Free
    <3> QED
      BY <1>1, <1>2, <1>3, <1>4, <1>5, <1>7, <3>1, <3>2, Arrival
  <2>3. CASE n.op = "sleep"
    <3>1. Stage(r, d)' /\ ~Busy(r, d)'
      BY <1>2, <1>4, <1>5, <1>7, <2>3 DEF Stage, Busy
    <3> QED
      BY <1>1, <1>2, <1>3, <1>4, <1>5, <1>7, <3>1, Arrival
  <2>4. CASE n.op \in {"restart", "replace"}
    <3>1. \A q \in Handler : h[q].dal # d
      BY <1>1, <1>3, <1>4, <1>5, <1>7, <2>4 DEF Courteous
    <3>2. ~Recovers(d)
      BY <1>1, <1>2, <1>4, <1>5, <1>7 DEF Courteous, Recovers
    <3>3. Truthful(d)
      BY <3>1, <3>2 DEF Good, Busy
    <3>4. Stage(r, d)'
      BY <1>2, <1>4, <1>5, <1>7, <2>4, <3>3, HandlerFacts DEF Stage, Truthful
    <3>5. \A q \in Handler \ {r} : ~Busy(q, d)
      BY <3>1 DEF Busy
    <3> QED
      BY <1>1, <1>2, <1>3, <1>4, <1>5, <1>7, <3>4, <3>5, Arrival
  <2> QED
    BY <1>4, <2>2, <2>3, <2>4
<1> QED
  BY <1>6, <1>7

(* runSync takes its snapshot, or looks at an entry of it. *)
LEMMA SnapshotGood ==
  ASSUME TypeOK, \A q \in Handler : Fine(h[q]), NEW r \in Handler, Track,
         Sync(r) \/ \E p \in Dal \X Id : Pick(r, p),
         NEW d \in Dal, d \notin clashed', Good(d)
  PROVE  Good(d)'
<1>1. Courteous(d)'
  BY StaysCourteous
<1>2. UNCHANGED <<box, reg, w>>
  BY DEF Sync, Pick
<1>3. h[r].dal = None /\ None # d
  BY HandlerFacts DEF Sync, Pick, At
<1>4. CASE Sync(r)
  <2> DEFINE t == {p \in Dal \X Id : reg[p[1]] = p[2]}
             n == [Free EXCEPT !.op = "sync", !.pc = "pick", !.todo = t]
  <2>1. n.dal = None /\ n.todo = t
    BY DEF Free
  <2>2. Go(r, n)
    BY <1>4 DEF Sync
  <2>3. \A i : <<d, i>> \in t => reg[d] = i
    OBVIOUS
  <2> HIDE DEF n, t
  <2>4. h'[r] = n /\ \A q \in Handler \ {r} : h'[q] = h[q]
    BY <2>2, HandlerFacts
  <2> QED
    BY <1>1, <1>2, <1>3, <2>1, <2>3, <2>4, OtherDal
<1>5. ASSUME NEW p \in Dal \X Id, Pick(r, p) PROVE Good(d)'
  <2> DEFINE m == [h[r] EXCEPT !.todo = h[r].todo \ {p}]
             n == [m EXCEPT !.pc = "stop", !.dal = p[1], !.seen = p[2]]
  <2>a. /\ h[r] \in Work /\ Shape(h[r]) /\ h[r].todo \in SUBSET (Dal \X Id) /\ None \notin Id
    BY HandlerFacts
  <2>c. p = <<p[1], p[2]>> /\ p[1] \in Dal /\ p[2] \in Id
    OBVIOUS
  <2>b. p \in h[r].todo /\ h[r].pc = "pick"
    BY <1>5 DEF Pick, At
  <2>0. h[r] \in Work /\ p \in h[r].todo /\ p = <<p[1], p[2]>>
        /\ p[1] \in Dal /\ p[2] \in Id /\ None \notin Id
        /\ h[r].op = "sync" /\ h[r].pc = "pick"
    BY <2>a, <2>b, <2>c DEF Shape, Free
  <2>1. m.dal = None /\ m.todo \subseteq h[r].todo
    BY <2>0, <1>3 DEF Work
  <2>2. /\ n.dal = p[1] /\ n.todo \subseteq h[r].todo /\ n.pc = "stop"
        /\ n.seen = p[2] /\ n.op = "sync"
    BY <2>0 DEF Work
  <2>3. \/ Go(r, n) /\ box[p[1]].id = p[2]
        \/ Go(r, m) \/ Go(r, Free)
    BY <1>5 DEF Pick
  <2> HIDE DEF n, m
  <2>4. CASE Go(r, m) \/ Go(r, Free)
    <3>1. h'[r] \in {m, Free} /\ \A q \in Handler \ {r} : h'[q] = h[q]
      BY <2>4, HandlerFacts
    <3>2. h'[r].dal = None /\ h'[r].todo \subseteq h[r].todo
      BY <3>1, <2>1 DEF Free
    <3> QED
      BY <1>1, <1>2, <1>3, <3>1, <3>2, OtherDal
  <2>5. CASE Go(r, n) /\ box[p[1]].id = p[2]
    <3>1. h'[r] = n /\ \A q \in Handler \ {r} : h'[q] = h[q]
      BY <2>5, HandlerFacts
    <3>2. CASE p[1] # d
      BY <1>1, <1>2, <1>3, <3>1, <3>2, <2>2, OtherDal
    <3>3. CASE p[1] = d
      <4>1. \/ reg[d] = box[d].id
            \/ \E s \in Handler : h[s].dal = d /\ h[s].op = "restart"
        BY <2>0, <2>5, <3>3 DEF Good, Mapped
      <4>2. reg[d] = p[2]
        BY <4>1, <1>1, <1>3, <2>2, <2>5, <3>1, <3>3 DEF Courteous
      <4>3. Stage(r, d)' /\ ~Busy(r, d)'
        BY <4>2, <1>2, <2>0, <2>2, <3>1, <3>3 DEF Stage, Busy
      <4> QED
        BY <1>1, <1>2, <1>3, <2>2, <3>1, <3>3, <4>3, Arrival
    <3> QED
      BY <3>2, <3>3
  <2> QED
    BY <2>3, <2>4, <2>5
<1> QED
  BY <1>4, <1>5

(* The steps around a wake: the check, the clean-up, docker run and the entry *)
(* in the map.                                                              *)
LEMMA WakeGood ==
  ASSUME TypeOK, \A q \in Handler : Fine(h[q]), NEW r \in Handler, Track,
         WakeInside(r) \/ Clean(r) \/ Run(r) \/ RunError(r) \/ Set(r),
         NEW d \in Dal, d \notin clashed', d \notin slipped', Good(d)
  PROVE  Good(d)'
<1>1. Courteous(d)'
  BY StaysCourteous
<1>2. UNCHANGED w /\ h[r].pc \in {"check", "clean", "run", "set"}
  BY DEF WakeInside, Clean, Run, RunError, Set, At
<1>3. /\ h[r] \in Work /\ Shape(h[r]) /\ h[r].dal \in Dal /\ None \notin Dal /\ None \notin Id
      /\ h[r].todo \subseteq Dal \X Id
      /\ reg \in [Dal -> Id \cup {None}]
      /\ box \in [Dal -> [id : Id \cup {None}, up : BOOLEAN]]
      /\ \A e \in Dal : box[e].up => box[e].id # None
  BY <1>2, HandlerFacts
<1>f. Free.dal = None /\ Free.todo = {}
  BY DEF Free
<1>a. WakeInside(r) =>
        \/ /\ WakeAllowed(h[r].dal) /\ h'[r].dal = h[r].dal /\ h'[r].op = h[r].op
           /\ h'[r].pc = "clean" /\ h'[r].todo = h[r].todo
        \/ /\ h[r].op = "replace" /\ h'[r].op = "replace" /\ h'[r].pc \in {"check", "stop"}
           /\ h'[r].seen = h[r].seen /\ h'[r].dal = h[r].dal /\ h'[r].todo = h[r].todo
        \/ ~WakeAllowed(h[r].dal) /\ h'[r].dal = None /\ h'[r].todo = {}
  <2> SUFFICES ASSUME WakeInside(r)
               PROVE  \/ /\ WakeAllowed(h[r].dal) /\ h'[r].dal = h[r].dal /\ h'[r].op = h[r].op
                         /\ h'[r].pc = "clean" /\ h'[r].todo = h[r].todo
                      \/ /\ h[r].op = "replace" /\ h'[r].op = "replace"
                         /\ h'[r].pc \in {"check", "stop"}
                         /\ h'[r].seen = h[r].seen /\ h'[r].dal = h[r].dal
                         /\ h'[r].todo = h[r].todo
                      \/ ~WakeAllowed(h[r].dal) /\ h'[r].dal = None /\ h'[r].todo = {}
    OBVIOUS
  <2> DEFINE n == [h[r] EXCEPT !.pc = "clean"]
  <2>1. n.dal = h[r].dal /\ n.op = h[r].op /\ n.pc = "clean" /\ n.todo = h[r].todo
    BY <1>3 DEF Work
  <2>2. \/ Go(r, n) /\ WakeAllowed(h[r].dal)
        \/ Go(r, AfterWake(r)) /\ ~WakeAllowed(h[r].dal)
    BY DEF WakeInside
  <2> HIDE DEF n
  <2>3. \/ h'[r] = n /\ WakeAllowed(h[r].dal)
        \/ h'[r] = AfterWake(r) /\ ~WakeAllowed(h[r].dal)
    BY <2>2, HandlerFacts
  <2> QED
    BY <2>1, <2>3, <1>f, <1>3, AfterWakeIs
<1>b. Clean(r) => /\ h'[r].dal = h[r].dal /\ h'[r].op = h[r].op /\ h'[r].pc = "run"
                  /\ h'[r].todo = h[r].todo
  <2> DEFINE n == [h[r] EXCEPT !.pc = "run"]
  <2>1. n.dal = h[r].dal /\ n.op = h[r].op /\ n.pc = "run" /\ n.todo = h[r].todo
    BY <1>3 DEF Work
  <2>2. Clean(r) => Go(r, n)
    BY DEF Clean
  <2> HIDE DEF n
  <2> QED
    BY <2>1, <2>2, HandlerFacts
<1>c. Run(r) => /\ h'[r].dal = h[r].dal /\ h'[r].op = h[r].op /\ h'[r].pc = "set"
                /\ h'[r].made = NewId /\ h'[r].todo = h[r].todo
  <2> DEFINE n == [h[r] EXCEPT !.pc = "set", !.made = NewId]
  <2>1. n.dal = h[r].dal /\ n.op = h[r].op /\ n.pc = "set" /\ n.todo = h[r].todo
        /\ n.made = NewId
    BY <1>3 DEF Work
  <2>2. Run(r) => Go(r, n)
    BY DEF Run
  <2> HIDE DEF n
  <2> QED
    BY <2>1, <2>2, HandlerFacts
<1>d. RunError(r) =>
        IF h[r].op = "sync"
          THEN /\ h'[r].dal = h[r].dal /\ h'[r].op = "sync" /\ h'[r].pc = "drop"
               /\ h'[r].todo = h[r].todo
          ELSE /\ h[r].op # "replace" => h'[r].dal = None
               /\ h'[r].dal \in {h[r].dal, None} /\ h'[r].todo \subseteq h[r].todo
  <2> DEFINE n == [h[r] EXCEPT !.pc = "drop"]
  <2>1. n.dal = h[r].dal /\ n.op = h[r].op /\ n.pc = "drop" /\ n.todo = h[r].todo
    BY <1>3 DEF Work
  <2>2. RunError(r) => Go(r, IF h[r].op = "sync" THEN n ELSE AfterWake(r))
    BY DEF RunError
  <2> HIDE DEF n
  <2>3. RunError(r) => h'[r] = IF h[r].op = "sync" THEN n ELSE AfterWake(r)
    BY <2>2, HandlerFacts
  <2> QED
    BY <2>1, <2>3, <1>f, <1>3, AfterWakeIs
<1>e. Set(r) => /\ h[r].op # "replace" => h'[r].dal = None
                /\ h'[r].dal \in {h[r].dal, None} /\ h'[r].todo \subseteq h[r].todo
  <2>1. Set(r) => h'[r] = IF h[r].op = "sync" THEN AfterSync(r) ELSE AfterWake(r)
    BY HandlerFacts DEF Set, AfterRun
  <2> QED
    BY <2>1, <1>f, <1>3, AfterWakeIs, AfterSyncIs
<1>4. h'[r].dal \in {h[r].dal, None} /\ h'[r].todo \subseteq h[r].todo
  BY <1>a, <1>b, <1>c, <1>d, <1>e
<1>5. \A q \in Handler \ {r} : h'[q] = h[q]
  BY HandlerFacts DEF WakeInside, Clean, Run, RunError, Set
<1>6. CASE d # h[r].dal
  <2>1. box'[d] = box[d] /\ reg'[d] = reg[d]
    BY <1>2, <1>3, <1>6 DEF WakeInside, Clean, Run, RunError, Runs, RunFails, Set, ghosts
  <2> QED
    BY <1>1, <1>2, <1>3, <1>4, <1>5, <1>6, <2>1, OtherDal
<1>7. CASE d = h[r].dal
  <2>1. Busy(r, d) /\ Stage(r, d)
    BY <1>2, <1>7 DEF Busy, Good
  <2>2. \A q \in Handler \ {r} : h[q].dal = d =>
          h[q].seen # None /\ (box[d].id = h[q].seen => reg[d] = h[q].seen)
    <3> SUFFICES ASSUME NEW q \in Handler \ {r}, h[q].dal = d
                 PROVE  h[q].seen # None /\ (box[d].id = h[q].seen => reg[d] = h[q].seen)
      OBVIOUS
    <3>1. ~Busy(q, d) /\ Stage(q, d)
      BY <2>1 DEF Good
    <3> QED
      BY <3>1 DEF Busy, Stage
  <2>3. \A q \in Handler : h[q].todo \subseteq Dal \X Id
    BY HandlerFacts
  <2>4. \A q \in Handler : <<d, None>> \notin h[q].todo
    BY <2>3, <1>3
  <2>5. \A q \in Handler : <<d, box[d].id>> \in h[q].todo =>
          \/ reg[d] = box[d].id
          \/ d \in Leader /\ h[r].op = "restart" /\ h[r].pc \in {"check", "clean"}
    <3> SUFFICES ASSUME NEW q \in Handler, <<d, box[d].id>> \in h[q].todo, reg[d] # box[d].id
                 PROVE  d \in Leader /\ h[r].op = "restart" /\ h[r].pc \in {"check", "clean"}
      OBVIOUS
    <3>1. PICK s \in Handler : d \in Leader /\ h[s].dal = d /\ h[s].op = "restart"
                            /\ h[s].pc \in {"check", "clean"}
      BY DEF Good, Mapped
    <3>2. s = r
      BY <3>1, <2>1 DEF Good, Busy
    <3> QED
      BY <3>1, <3>2
  <2>n. /\ NewId \in Id /\ NewId # None /\ reg[d] # NewId
        /\ \A q \in Handler : h[q].seen # NewId /\ <<d, NewId>> \notin h[q].todo
    BY NewIdUnknown
  <2>6. CASE WakeInside(r)
    <3>1. UNCHANGED <<box, reg>> /\ h[r].pc = "check"
      BY <2>6 DEF WakeInside, ghosts, At
    <3>2. h[r].op \in {"restart", "replace"}
      BY <3>1, <1>3, <1>2 DEF Shape, Free
    <3>3. CASE h'[r].dal = d /\ h'[r].op = h[r].op /\ h'[r].pc = "clean" /\ WakeAllowed(d)
      <4>1. Stage(r, d)' /\ Busy(r, d)' /\ (h[r].op = "restart")
        BY <3>1, <3>2, <3>3, <2>1, <1>5 DEF Stage, Busy, WakeAllowed
      <4> QED
        BY <1>1, <1>2, <1>4, <1>5, <2>1, <2>2, <2>5, <3>1, <3>3, <4>1, BusyStep
    <3>4. CASE /\ h[r].op = "replace" /\ h'[r].op = "replace" /\ h'[r].dal = d
               /\ h'[r].pc \in {"check", "stop"} /\ h'[r].seen = h[r].seen
      <4>1. Stage(r, d)' /\ Busy(r, d)'
        BY <3>1, <3>4, <2>1, <1>5 DEF Stage, Busy
      <4> QED
        BY <1>1, <1>2, <1>4, <1>5, <2>1, <2>2, <2>5, <3>1, <3>4, <4>1, BusyStep
    <3>5. CASE h'[r].dal = None /\ ~WakeAllowed(d)
      <4>1. Truthful(d)
        BY <3>1, <3>2, <3>5, <2>1, <1>3 DEF Stage, WakeAllowed, Truthful
      <4>2. Truthful(d)'
        BY <4>1, <3>1 DEF Truthful
      <4>5. h[r].op = "replace" => reg[d] = box[d].id
        BY <3>1, <2>1 DEF Stage
      <4>6. h[r].op = "restart" => d \notin Leader
        BY <3>1, <3>5, <2>1 DEF Stage, WakeAllowed
      <4>7. \A q \in Handler : <<d, box[d].id>> \in h[q].todo => reg[d] = box[d].id
        BY <2>5, <3>2, <4>5, <4>6
      <4>8. h'[r].dal # d
        BY <3>5, <1>3, <1>7
      <4> QED
        BY <1>1, <1>2, <1>4, <1>5, <2>1, <2>2, <3>1, <4>2, <4>7, <4>8, BusyStep
    <3> QED
      BY <1>a, <1>7, <2>6, <3>3, <3>4, <3>5
  <2>7. CASE Clean(r)
    <3>1. /\ reg' = reg /\ h[r].pc = "clean" /\ reg[d] = None /\ h[r].op # "replace"
      BY <2>7, <2>1 DEF Clean, At, Stage
    <3>2. h'[r].dal = d /\ h'[r].op = h[r].op /\ h'[r].pc = "run"
      BY <1>b, <1>7, <2>7, <3>1
    <3>3. h[r].op # "sync" /\ h[r].op # "none"
      BY <3>1, <1>3 DEF Shape, Free
    <3>4. box'[d] = Gone
      BY <2>7, <1>3, <1>7 DEF Clean
    <3>5. Stage(r, d)' /\ Busy(r, d)'
      BY <1>5, <3>1, <3>2, <3>3, <3>4 DEF Stage, Busy
    <3>6. box'[d].id = None
      BY <3>4 DEF Gone
    <3> QED
      BY <1>1, <1>2, <1>4, <1>5, <2>1, <2>4, <3>1, <3>2, <3>5, <3>6, <2>2, BusyStep
  <2>8. CASE Run(r)
    <3>1. /\ reg' = reg /\ h[r].pc = "run" /\ box[d] = Gone /\ h[r].op # "replace"
          /\ h[r].op = "sync" <=> reg[d] # None
      BY <2>8, <2>1 DEF Run, At, Stage
    <3>2. h'[r].dal = d /\ h'[r].op = h[r].op /\ h'[r].pc = "set" /\ h'[r].made = NewId
      BY <1>c, <1>7, <2>8, <3>1
    <3>4. box'[d] = [id |-> NewId, up |-> TRUE]
      BY <2>8, <1>3, <1>7 DEF Run, Runs
    <3>5. Stage(r, d)' /\ Busy(r, d)'
      BY <1>5, <2>n, <3>1, <3>2, <3>4 DEF Stage, Busy
    <3>6. box'[d].id = NewId
      BY <3>4
    <3> QED
      BY <1>1, <1>2, <1>4, <1>5, <2>1, <2>n, <3>1, <3>2, <3>5, <3>6, BusyStep
  <2>9. CASE RunError(r)
    <3>1. /\ reg' = reg /\ h[r].pc = "run" /\ box[d] = Gone /\ h[r].op # "replace"
          /\ h[r].op = "sync" <=> reg[d] # None
      BY <2>9, <2>1 DEF RunError, At, Stage, ghosts
    <3>2. \/ h'[r].dal = d /\ h'[r].op = "sync" /\ h[r].op = "sync" /\ h'[r].pc = "drop"
          \/ h[r].op # "sync" /\ h'[r].dal = None
      BY <1>d, <1>7, <2>9, <3>1
    <3>4. box'[d] = [id |-> NewId, up |-> FALSE] \/ box'[d] = Gone
      BY <2>9, <3>1, <1>3, <1>7 DEF RunError, RunFails
    <3>6. box'[d].id \in {None, NewId} /\ ~box'[d].up
      BY <3>4 DEF Gone
    <3>5. h'[r].dal = d => Stage(r, d)'
      BY <1>5, <1>3, <2>n, <3>1, <3>2, <3>6 DEF Stage
    <3>7. ~Busy(r, d)' => Truthful(d)'
      BY <1>5, <3>1, <3>2, <3>6 DEF Busy, Truthful
    <3> QED
      BY <1>1, <1>2, <1>4, <1>5, <2>1, <2>n, <2>4, <3>1, <3>2, <3>5, <3>6, <3>7, BusyStep
  <2>10. CASE Set(r)
    <3>1. /\ UNCHANGED box /\ h[r].pc = "set" /\ h[r].op # "replace"
          /\ box[d].id = h[r].made /\ h[r].made # None
      BY <2>10, <2>1 DEF Set, At, Stage
    <3>2. h'[r].dal = None
      BY <1>e, <1>7, <2>10, <3>1
    <3>3. reg'[d] = h[r].made
      BY <2>10, <1>3, <1>7 DEF Set
    <3>4. Truthful(d)' /\ h'[r].dal # d
      BY <1>3, <1>5, <1>7, <3>1, <3>2, <3>3 DEF Truthful
    <3> QED
      BY <1>1, <1>2, <1>4, <1>5, <2>1, <3>1, <3>3, <3>4, BusyStep
  <2> QED
    BY <2>6, <2>7, <2>8, <2>9, <2>10
<1> QED
  BY <1>6, <1>7

(* The calls that stop a container, and the entry that goes afterwards.     *)
LEMMA StopGood ==
  ASSUME TypeOK, \A q \in Handler : Fine(h[q]), NEW r \in Handler, Track,
         Stopped(r) \/ StopError(r) \/ Delete(r) \/ Drop(r),
         NEW d \in Dal, d \notin clashed', d \notin slipped', Good(d)
  PROVE  Good(d)'
<1>1. Courteous(d)'
  BY StaysCourteous
<1>2. UNCHANGED w /\ h[r].pc \in {"stop", "delete", "drop"}
  BY DEF Stopped, StopError, Delete, Drop, At
<1>3. /\ h[r] \in Work /\ Shape(h[r]) /\ h[r].dal \in Dal /\ None \notin Dal /\ None \notin Id
      /\ h[r].todo \subseteq Dal \X Id
      /\ reg \in [Dal -> Id \cup {None}]
      /\ box \in [Dal -> [id : Id \cup {None}, up : BOOLEAN]]
      /\ \A e \in Dal : box[e].up => box[e].id # None
  BY <1>2, HandlerFacts
<1>4. \A q \in Handler \ {r} : h'[q] = h[q]
  BY HandlerFacts DEF Stopped, StopError, Delete, Drop
<1>f. Free.dal = None /\ Free.todo = {}
  BY DEF Free
<1>a. Stopped(r) => /\ h'[r].dal = h[r].dal /\ h'[r].op = h[r].op /\ h'[r].todo = h[r].todo
                    /\ h'[r].pc = IF h[r].op = "sync" THEN "run" ELSE "delete"
  <2> DEFINE pc == IF h[r].op = "sync" THEN "run" ELSE "delete"
             n == [h[r] EXCEPT !.pc = pc, !.seen = None]
  <2>1. Stopped(r) => Go(r, n)
    BY DEF Stopped
  <2> HIDE DEF pc
  <2>2. n.dal = h[r].dal /\ n.op = h[r].op /\ n.pc = pc /\ n.todo = h[r].todo
    BY <1>3 DEF Work
  <2> HIDE DEF n
  <2>3. Stopped(r) => h'[r].dal = h[r].dal /\ h'[r].op = h[r].op /\ h'[r].pc = pc
                      /\ h'[r].todo = h[r].todo
    BY <2>1, <2>2, HandlerFacts
  <2> QED
    BY <2>3 DEF pc
<1>b. StopError(r) =>
        IF h[r].op \in {"sleep", "sync"}
          THEN h'[r].dal = None /\ h'[r].todo \subseteq h[r].todo
          ELSE /\ h'[r].dal = h[r].dal /\ h'[r].op = h[r].op /\ h'[r].pc = "delete"
               /\ h'[r].todo = h[r].todo
  <2> DEFINE n == [h[r] EXCEPT !.pc = "delete", !.seen = None]
  <2>1. StopError(r) => Go(r, CASE h[r].op = "sleep" -> Free
                                [] h[r].op = "sync" -> AfterSync(r) [] OTHER -> n)
    BY DEF StopError
  <2>2. n.dal = h[r].dal /\ n.op = h[r].op /\ n.pc = "delete" /\ n.todo = h[r].todo
    BY <1>3 DEF Work
  <2> HIDE DEF n
  <2>3. StopError(r) => h'[r] = IF h[r].op = "sleep" THEN Free ELSE
                                IF h[r].op = "sync" THEN AfterSync(r) ELSE n
    BY <2>1, HandlerFacts
  <2> QED
    BY <2>2, <2>3, <1>f, AfterSyncIs
<1>c. Delete(r) =>
        IF h[r].op = "restart"
          THEN /\ h'[r].dal = h[r].dal /\ h'[r].op = "restart" /\ h'[r].pc = "check"
               /\ h'[r].todo = h[r].todo
          ELSE h'[r].dal = None /\ h'[r].todo = {}
  <2> DEFINE n == [h[r] EXCEPT !.pc = "check"]
  <2>1. Delete(r) => Go(r, IF h[r].op = "restart" THEN n ELSE Free)
    BY DEF Delete
  <2>2. n.dal = h[r].dal /\ n.op = h[r].op /\ n.pc = "check" /\ n.todo = h[r].todo
    BY <1>3 DEF Work
  <2> HIDE DEF n
  <2>3. Delete(r) => h'[r] = IF h[r].op = "restart" THEN n ELSE Free
    BY <2>1, HandlerFacts
  <2> QED
    BY <2>2, <2>3, <1>f
<1>d. Drop(r) => h'[r].dal = None /\ h'[r].todo \subseteq h[r].todo
  BY AfterSyncIs, HandlerFacts DEF Drop
<1>5. h'[r].dal \in {h[r].dal, None} /\ h'[r].todo \subseteq h[r].todo
  BY <1>a, <1>b, <1>c, <1>d
<1>6. CASE d # h[r].dal
  <2>1. box'[d] = box[d] /\ reg'[d] = reg[d]
    BY <1>2, <1>3, <1>6 DEF Stopped, StopError, Stops, StopFails, Delete, Drop, ghosts
  <2> QED
    BY <1>1, <1>2, <1>3, <1>4, <1>5, <1>6, <2>1, OtherDal
<1>7. CASE d = h[r].dal
  <2>1. Stage(r, d)
    BY <1>7 DEF Good
  <2>2. \A q \in Handler \ {r} : Busy(r, d) /\ h[q].dal = d =>
          h[q].seen # None /\ (box[d].id = h[q].seen => reg[d] = h[q].seen)
    <3> SUFFICES ASSUME NEW q \in Handler \ {r}, h[q].dal = d, Busy(r, d)
                 PROVE  h[q].seen # None /\ (box[d].id = h[q].seen => reg[d] = h[q].seen)
      OBVIOUS
    <3>1. ~Busy(q, d) /\ Stage(q, d)
      BY DEF Good
    <3> QED
      BY <3>1 DEF Busy, Stage
  <2>4. \A q \in Handler : <<d, None>> \notin h[q].todo
    <3>1. \A q \in Handler : h[q].todo \subseteq Dal \X Id
      BY HandlerFacts
    <3> QED
      BY <3>1, <1>3
  <2>5. ASSUME h[r].op # "restart" \/ h[r].pc \notin {"check", "clean"}, Busy(r, d),
               NEW q \in Handler, <<d, box[d].id>> \in h[q].todo
        PROVE  reg[d] = box[d].id
    <3> SUFFICES ASSUME reg[d] # box[d].id PROVE FALSE
      OBVIOUS
    <3>1. PICK s \in Handler : h[s].dal = d /\ h[s].op = "restart"
                            /\ h[s].pc \in {"check", "clean"}
      BY <2>5 DEF Good, Mapped
    <3>2. s = r
      BY <2>5, <3>1 DEF Good, Busy
    <3> QED
      BY <2>5, <3>1, <3>2
  <2>6. CASE Stopped(r)
    <3>1. /\ reg' = reg /\ h[r].pc = "stop" /\ h[r].seen # None
          /\ box[d].id = h[r].seen /\ reg[d] = h[r].seen
      BY <2>1, <2>6, <1>7 DEF Stopped, Stops, Stage, At
    <3>2. box'[d] = Gone /\ box'[d].id = None
      BY <2>6, <1>3, <1>7 DEF Stopped, Stops, Gone
    <3>3. Stage(r, d)' /\ Busy(r, d)'
      <4>1. h[r].op # "sync" => h'[r].pc = "delete"
        BY <1>a, <2>6
      <4>2. h[r].op = "sync" => h'[r].pc = "run"
        BY <1>a, <2>6
      <4>3. h'[r].dal = d /\ h'[r].op = h[r].op /\ h'[r].pc \in {"run", "delete"}
        BY <1>a, <1>7, <2>6
      <4> QED
        BY <3>1, <3>2, <4>1, <4>2, <4>3 DEF Stage, Busy
    <3>4. CASE Busy(r, d)
      BY <1>1, <1>2, <1>4, <1>5, <2>2, <2>4, <3>1, <3>2, <3>3, <3>4, BusyStep
    <3>5. CASE ~Busy(r, d)
      <4>1. h[r].op \in {"sleep", "sync"}
        BY <3>5, <1>7 DEF Busy
      <4>2. \A q \in Handler : h[q].dal = d => h[q].op \notin {"restart", "replace"}
        BY <4>1, <1>7 DEF Good, Courteous
      <4>3. \A q \in Handler : ~Busy(q, d)
        BY <3>1, <4>2, NobodyBusy
      <4>4. \A q \in Handler : h'[q].dal = d => Stage(q, d)'
        <5> SUFFICES ASSUME NEW q \in Handler \ {r}, h'[q].dal = d PROVE Stage(q, d)'
          BY <3>3
        <5>1. h'[q] = h[q] /\ h[q].pc = "stop" /\ h[q].op \in {"sleep", "sync"}
          BY <1>4, <4>3 DEF Busy
        <5>2. h[q].seen # None
          BY <5>1 DEF Good, Stage
        <5> QED
          BY <5>1, <5>2, <3>2 DEF Stage
      <4>5. Mapped(d)'
        BY <1>4, <1>5, <2>4, <3>2 DEF Mapped
      <4>6. \A q, s \in Handler : Busy(q, d)' /\ Busy(s, d)' => q = s
        BY <1>4, <4>3 DEF Busy
      <4>7. WatchStage(d)'
        <5>1. ~Recovers(d)
          BY <1>7 DEF Good, Courteous
        <5> QED
          BY <5>1, <1>2 DEF Recovers, WatchStage
      <4> QED
        BY <1>1, <3>3, <4>4, <4>5, <4>6, <4>7 DEF Good
    <3> QED
      BY <3>4, <3>5
  <2>7. CASE StopError(r)
    <3>1. /\ reg' = reg /\ h[r].pc = "stop" /\ h[r].seen # None
          /\ box[d].id = h[r].seen => reg[d] = h[r].seen
      BY <2>1, <2>7, <1>7 DEF StopError, Stage, At
    <3>2. \/ UNCHANGED box
          \/ /\ box[d].id = h[r].seen /\ box'[d].id = box[d].id /\ ~box'[d].up
      <4>1. \/ UNCHANGED box
            \/ box[d].id = h[r].seen /\ box' = [box EXCEPT ![d] = [box[d] EXCEPT !.up = FALSE]]
        BY <2>7, <1>7 DEF StopError, StopFails
      <4>2. box[d] \in [id : Id \cup {None}, up : BOOLEAN]
        BY <1>3
      <4> QED
        BY <4>1, <4>2, <1>3
    <3>3. CASE h[r].op \in {"restart", "replace"}
      <4>1. box[d].id = h[r].seen /\ reg[d] = h[r].seen /\ Busy(r, d)
        BY <2>1, <3>1, <3>3, <1>7 DEF Stage, Busy
      <4>2. h[r].op = "restart" /\ d \in Leader
        BY <2>7, <3>3, <4>1, <1>7 DEF StopError
      <4>3. h'[r].dal = d /\ h'[r].op = "restart" /\ h'[r].pc = "delete"
        BY <1>b, <1>7, <2>7, <4>2
      <4>4. box'[d].id = box[d].id
        BY <3>2
      <4>5. Stage(r, d)' /\ Busy(r, d)'
        BY <3>1, <4>1, <4>2, <4>3, <4>4 DEF Stage, Busy
      <4> QED
        BY <1>1, <1>2, <1>4, <1>5, <2>2, <3>1, <4>1, <4>4, <4>5, BusyStep
    <3>4. CASE h[r].op \notin {"restart", "replace"}
      <4>0. h[r].op \in {"sleep", "sync"}
        BY <3>1, <3>4, <1>3 DEF Shape, Free
      <4>1. h'[r].dal = None /\ ~Busy(r, d)
        BY <4>0, <1>b, <2>7, <3>1 DEF Busy
      <4>2. CASE UNCHANGED box
        <5>1. /\ \A q \in Handler : h'[q].dal = d => h'[q] = h[q]
              /\ \A q \in Handler : Busy(q, d) => h'[q] = h[q]
              /\ \A q \in Handler : h'[q].todo \subseteq h[q].todo
          BY <1>3, <1>4, <1>5, <4>1
        <5>2. WatchStage(d)' /\ (Recovers(d) => Recovers(d)')
          BY <1>2, <3>1, <4>2 DEF Good, WatchStage, Recovers
        <5> QED
          BY <1>1, <3>1, <4>2, <5>1, <5>2, Elsewhere
      <4>3. CASE box[d].id = h[r].seen /\ box'[d].id = box[d].id /\ ~box'[d].up
        <5>1. \A q \in Handler : h[q].dal = d => h[q].op \notin {"restart", "replace"}
          BY <3>4, <1>7 DEF Good, Courteous
        <5>2. \A q \in Handler : ~Busy(q, d)
          BY <3>1, <4>3, <5>1, NobodyBusy
        <5>3. \A q \in Handler : h'[q].dal = d => Stage(q, d)'
          <6> SUFFICES ASSUME NEW q \in Handler, h'[q].dal = d PROVE Stage(q, d)'
            OBVIOUS
          <6>1. q # r /\ h'[q] = h[q]
            BY <1>3, <1>4, <4>1
          <6>2. h[q].pc = "stop" /\ h[q].op \in {"sleep", "sync"}
            BY <6>1, <5>2 DEF Busy
          <6>3. h[q].seen # None
            BY <6>1, <6>2 DEF Good, Stage
          <6> QED
            BY <6>1, <6>2, <6>3, <3>1, <4>3 DEF Stage
        <5>4. Mapped(d)'
          BY <1>4, <1>5, <3>1, <4>3 DEF Mapped
        <5>5. \A q \in Handler : ~Busy(q, d)'
          BY <1>3, <1>4, <4>1, <5>2 DEF Busy
        <5>6. WatchStage(d)'
          <6>1. ~Recovers(d)
            BY <1>7 DEF Good, Courteous
          <6> QED
            BY <6>1, <1>2 DEF Recovers, WatchStage
        <5>7. Truthful(d)'
          BY <3>1, <4>3 DEF Truthful
        <5> QED
          BY <1>1, <5>3, <5>4, <5>5, <5>6, <5>7 DEF Good
      <4> QED
        BY <3>2, <4>2, <4>3
    <3> QED
      BY <3>3, <3>4
  <2>8. CASE Delete(r)
    <3>1. /\ UNCHANGED box /\ h[r].pc = "delete" /\ Busy(r, d) /\ reg[d] # None
          /\ \/ box[d] = Gone
             \/ h[r].op = "restart" /\ d \in Leader /\ box[d].id = reg[d]
      BY <2>1, <2>8, <1>7 DEF Delete, At, Stage, ghosts, Busy
    <3>2. reg'[d] = None
      BY <2>8, <1>3, <1>7 DEF Delete
    <3>3. CASE h[r].op = "restart"
      <4>1. h'[r].dal = d /\ h'[r].op = "restart" /\ h'[r].pc = "check"
        BY <1>c, <1>7, <2>8, <3>3
      <4>2. Stage(r, d)' /\ Busy(r, d)'
        BY <3>1, <3>2, <4>1 DEF Stage, Busy, Gone
      <4>3. \A q \in Handler \ {r} : h[q].dal # d
        BY <1>7, <3>3 DEF Good, Courteous
      <4>4. d \in Leader \/ box'[d].id = None
        BY <3>1 DEF Gone
      <4> QED
        BY <1>1, <1>2, <1>4, <1>5, <2>4, <3>1, <4>1, <4>2, <4>3, <4>4, BusyStep
    <3>4. CASE h[r].op # "restart"
      <4>1. h'[r].dal = None /\ None # d
        BY <1>c, <1>3, <2>8, <3>4
      <4>2. Truthful(d)' /\ box'[d].id = None
        BY <3>1, <3>2, <3>4 DEF Truthful, Gone
      <4> QED
        BY <1>1, <1>2, <1>4, <1>5, <2>2, <2>4, <3>1, <4>1, <4>2, BusyStep
    <3> QED
      BY <3>3, <3>4
  <2>9. CASE Drop(r)
    <3>1. /\ UNCHANGED box /\ h[r].pc = "drop" /\ Busy(r, d) /\ reg[d] # None
          /\ box[d].id # reg[d] /\ ~box[d].up
      BY <2>1, <2>9, <1>7 DEF Drop, At, Stage, ghosts, Busy
    <3>2. reg'[d] = None
      BY <2>9, <1>3, <1>7 DEF Drop
    <3>3. h'[r].dal = None /\ None # d
      BY <1>d, <1>3, <2>9
    <3>4. Truthful(d)'
      BY <3>1, <3>2 DEF Truthful
    <3>5. \A q \in Handler : <<d, box'[d].id>> \notin h[q].todo
      BY <2>5, <3>1
    <3>6. \A q \in Handler \ {r} : h[q].dal = d => box'[d].id # h[q].seen
      BY <2>2, <3>1
    <3> QED
      BY <1>1, <1>2, <1>4, <1>5, <3>1, <3>3, <3>4, <3>5, <3>6, BusyStep
  <2> QED
    BY <2>6, <2>7, <2>8, <2>9
<1> QED
  BY <1>6, <1>7

(* The watcher's steps. *)
LEMMA WatchGood ==
  ASSUME TypeOK, WatchShape, \A q \in Handler : Fine(h[q]), Watch, Track,
         NEW d \in Dal, d \notin clashed', d \notin slipped', Good(d)
  PROVE  Good(d)'
<1>1. Courteous(d)'
  BY StaysCourteous
<1>2. UNCHANGED h /\ WatchShape'
  BY WatchTypes
<1>3. /\ w \in Health /\ None \notin Dal /\ None \notin Id /\ Leader \subseteq Dal
      /\ reg \in [Dal -> Id \cup {None}]
      /\ box \in [Dal -> [id : Id \cup {None}, up : BOOLEAN]]
      /\ \A q \in Handler : h[q].todo \subseteq Dal \X Id
  BY LifecycleAssumption DEF TypeOK, Health
<1>4. \A q \in Handler : <<d, None>> \notin h[q].todo
  BY <1>3
<1>5. w.pc # "idle" => w.dal \in Dal
  BY <1>3 DEF WatchShape
<1>n. /\ NewId \in Id /\ NewId # None
      /\ \A q \in Handler : <<d, NewId>> \notin h[q].todo
  BY NewIdUnknown
<1>6. ASSUME box'[d] = box[d], reg'[d] = reg[d], Recovers(d)' <=> Recovers(d),
             w'.dal = d => w' = w \/ w'.pc \notin {"stop", "delete", "run", "set"}
      PROVE  Good(d)'
  <2>1. WatchStage(d)'
    BY <1>6 DEF Good, WatchStage
  <2> QED
    BY <1>1, <1>2, <1>6, <2>1, Elsewhere
<1>7. ASSUME UNCHANGED <<box, reg>>, w.pc \in {"idle", "inspect", "lookup"},
             w'.pc \in {"idle", "inspect", "lookup"}
      PROVE  Good(d)'
  BY <1>6, <1>7 DEF Recovers
<1>i. \A f, t : Idle(f, t).pc = "idle" /\ Idle(f, t).dal = None
  BY DEF Idle, Calm
<1>8. CASE WatchNone \/ (\E l \in Leader : WatchFind(l)) \/ WatchHealthy \/ WatchSick
  <2>1. UNCHANGED <<box, reg>> /\ w.pc \in {"idle", "inspect", "lookup"}
    BY <1>8 DEF WatchNone, WatchFind, WatchHealthy, WatchSick
  <2>2. w'.pc \in {"idle", "inspect", "lookup"}
    <3>1. CASE WatchNone
      BY <1>3, <3>1 DEF WatchNone, Health
    <3>2. CASE \E l \in Leader : WatchFind(l)
      BY <1>3, <3>2 DEF WatchFind, Health
    <3>3. CASE WatchHealthy
      BY <3>3 DEF WatchHealthy, Calm
    <3>4. CASE WatchSick
      <4>1. w' = Idle(w.fails + 1, w.tries) \/ w' = Calm
            \/ w' = [w EXCEPT !.pc = "lookup", !.fails = w.fails + 1]
        BY <3>4 DEF WatchSick
      <4>2. CASE w' = [w EXCEPT !.pc = "lookup", !.fails = w.fails + 1]
        BY <1>3, <4>2 DEF Health
      <4>3. CASE w' = Idle(w.fails + 1, w.tries)
        BY <1>i, <4>3
      <4>4. CASE w' = Calm
        BY <4>4 DEF Calm
      <4> QED
        BY <4>1, <4>2, <4>3, <4>4
    <3> QED
      BY <1>8, <3>1, <3>2, <3>3, <3>4
  <2> QED
    BY <1>7, <2>1, <2>2
<1>9. CASE WatchLookup
  <2>1. w.pc = "lookup" /\ UNCHANGED <<box, reg>>
    BY <1>9 DEF WatchLookup, ghosts
  <2>2. CASE w' = Idle(w.fails, w.tries + 1)
    BY <1>7, <1>i, <2>1, <2>2
  <2>3. CASE reg[w.dal] # None /\ w' = [w EXCEPT !.pc = "stop", !.seen = reg[w.dal]]
    <3>1. w'.pc = "stop" /\ w'.dal = w.dal /\ w'.seen = reg[w.dal]
      BY <1>3, <2>3 DEF Health
    <3>2. CASE w.dal # d
      BY <1>6, <2>1, <3>1, <3>2 DEF Recovers
    <3>3. CASE w.dal = d
      <4>1. Recovers(d)' /\ ~Recovers(d)
        BY <2>1, <3>1, <3>3 DEF Recovers
      <4>2. \A q \in Handler : h[q].dal # d
        BY <1>1, <1>2, <4>1 DEF Courteous
      <4>3. Truthful(d)
        BY <4>1, <4>2 DEF Good, Busy
      <4>4. WatchStage(d)'
        BY <2>1, <2>3, <3>1, <3>3, <4>3 DEF WatchStage, Truthful
      <4>5. \A q \in Handler : <<d, box'[d].id>> \in h[q].todo => reg'[d] = box'[d].id
        BY <2>1, <4>2 DEF Good, Mapped
      <4> QED
        BY <1>1, <1>2, <4>1, <4>4, <4>5, WatchStep
    <3> QED
      BY <3>2, <3>3
  <2> QED
    BY <1>9, <2>2, <2>3 DEF WatchLookup
<1>r. ASSUME w.pc \in {"stop", "delete", "run", "set"}
      PROVE  /\ w.dal \in Dal
             /\ w.dal = d => /\ Recovers(d) /\ \A q \in Handler : h[q].dal # d
                             /\ \A q \in Handler : <<d, box[d].id>> \in h[q].todo =>
                                   reg[d] = box[d].id
  <2>1. w.dal \in Dal
    BY <1>r, <1>5
  <2>2. w.dal = d => Recovers(d)
    BY <1>r DEF Recovers
  <2>3. w.dal = d => \A q \in Handler : h[q].dal # d
    BY <2>2 DEF Good, Courteous
  <2> QED
    BY <2>1, <2>2, <2>3 DEF Good, Mapped
<1>10. CASE WatchStop
  <2>1. /\ w.pc = "stop" /\ UNCHANGED reg /\ w' = [w EXCEPT !.pc = "delete", !.seen = None]
        /\ \/ Stops(w.dal, w.seen)
           \/ /\ StopFails(w.dal, w.seen)
              /\ box[w.dal].id = w.seen => slipped' = slipped \cup {w.dal}
    BY <1>10 DEF WatchStop
  <2>2. w'.pc = "delete" /\ w'.dal = w.dal
    BY <1>3, <2>1 DEF Health
  <2>3. CASE w.dal # d
    <3>1. box'[d] = box[d]
      BY <2>1, <2>3, <1>r, <1>3 DEF Stops, StopFails
    <3> QED
      BY <1>6, <2>1, <2>2, <2>3, <3>1 DEF Recovers
  <2>4. CASE w.dal = d
    <3>1. Recovers(d) /\ w.seen # None /\ reg[d] = w.seen /\ box[d].id = w.seen
      BY <2>1, <2>4, <1>r DEF Good, WatchStage
    <3>2. box' = [box EXCEPT ![d] = Gone]
      BY <2>1, <2>4, <3>1 DEF Stops
    <3>3. box'[d] = Gone /\ box'[d].id = None
      BY <3>2, <1>3 DEF Gone
    <3>4. WatchStage(d)' /\ Recovers(d)'
      BY <2>1, <2>2, <2>4, <3>1, <3>3 DEF WatchStage, Recovers
    <3> QED
      BY <1>1, <1>2, <1>4, <3>1, <3>3, <3>4, WatchStep
  <2> QED
    BY <2>3, <2>4
<1>11. CASE WatchDelete
  <2>1. /\ w.pc = "delete" /\ UNCHANGED box /\ reg' = [reg EXCEPT ![w.dal] = None]
        /\ w' = [w EXCEPT !.pc = "run"]
    BY <1>11 DEF WatchDelete, ghosts
  <2>2. w'.pc = "run" /\ w'.dal = w.dal
    BY <1>3, <2>1 DEF Health
  <2>3. CASE w.dal # d
    <3>1. reg'[d] = reg[d]
      BY <2>1, <2>3, <1>r, <1>3
    <3> QED
      BY <1>6, <2>1, <2>2, <2>3, <3>1 DEF Recovers
  <2>4. CASE w.dal = d
    <3>1. Recovers(d) /\ box[d] = Gone
      BY <2>1, <2>4, <1>r DEF Good, WatchStage
    <3>2. reg'[d] = None /\ box'[d] = Gone /\ box'[d].id = None
      BY <2>1, <2>4, <3>1, <1>3 DEF Gone
    <3>3. WatchStage(d)' /\ Recovers(d)'
      BY <2>2, <2>4, <3>2 DEF WatchStage, Recovers
    <3> QED
      BY <1>1, <1>2, <1>4, <3>1, <3>2, <3>3, WatchStep
  <2> QED
    BY <2>3, <2>4
<1>12. CASE WatchRun
  <2>1. /\ w.pc = "run" /\ UNCHANGED reg /\ Runs(w.dal)
        /\ w' = [w EXCEPT !.pc = "set", !.made = NewId]
    BY <1>12 DEF WatchRun, ghosts
  <2>2. w'.pc = "set" /\ w'.dal = w.dal /\ w'.made = NewId
    BY <1>3, <2>1 DEF Health
  <2>3. CASE w.dal # d
    <3>1. box'[d] = box[d]
      BY <2>1, <2>3, <1>r, <1>3 DEF Runs
    <3> QED
      BY <1>6, <2>1, <2>2, <2>3, <3>1 DEF Recovers
  <2>4. CASE w.dal = d
    <3>1. Recovers(d) /\ reg[d] = None
      BY <2>1, <2>4, <1>r DEF Good, WatchStage
    <3>2. box'[d].id = NewId
      BY <2>1, <2>4, <1>3 DEF Runs
    <3>3. WatchStage(d)' /\ Recovers(d)'
      BY <1>n, <2>1, <2>2, <2>4, <3>1, <3>2 DEF WatchStage, Recovers
    <3> QED
      BY <1>1, <1>2, <1>n, <3>1, <3>2, <3>3, WatchStep
  <2> QED
    BY <2>3, <2>4
<1>13. CASE WatchRunError
  <2>1. /\ w.pc = "run" /\ UNCHANGED reg /\ RunFails(w.dal) /\ w' = Idle(w.fails, w.tries + 1)
    BY <1>13 DEF WatchRunError
  <2>2. w'.pc = "idle" /\ w'.dal = None
    BY <1>i, <2>1
  <2>3. CASE w.dal # d
    <3>1. box'[d] = box[d]
      BY <2>1, <2>3, <1>r, <1>3 DEF RunFails
    <3> QED
      BY <1>6, <1>3, <2>1, <2>2, <2>3, <3>1 DEF Recovers
  <2>4. CASE w.dal = d
    <3>1. Recovers(d) /\ reg[d] = None /\ box[d] = Gone
      BY <2>1, <2>4, <1>r DEF Good, WatchStage
    <3>2. box'[d] = Gone \/ box'[d] = [id |-> NewId, up |-> FALSE]
      BY <2>1, <2>4, <3>1, <1>3 DEF RunFails
    <3>3. box'[d].id \in {None, NewId} /\ ~box'[d].up
      BY <3>2 DEF Gone
    <3>4. WatchStage(d)' /\ Truthful(d)'
      BY <1>3, <2>1, <2>2, <3>1, <3>3 DEF WatchStage, Truthful
    <3>5. \A q \in Handler : <<d, box'[d].id>> \notin h[q].todo
      BY <1>4, <1>n, <3>3
    <3> QED
      BY <1>1, <1>2, <3>1, <3>4, <3>5, WatchStep
  <2> QED
    BY <2>3, <2>4
<1>14. CASE WatchSet
  <2>1. /\ w.pc = "set" /\ UNCHANGED box /\ reg' = [reg EXCEPT ![w.dal] = w.made]
        /\ w' = Idle(0, w.tries + 1)
    BY <1>14 DEF WatchSet
  <2>2. w'.pc = "idle" /\ w'.dal = None
    BY <1>i, <2>1
  <2>3. CASE w.dal # d
    <3>1. reg'[d] = reg[d]
      BY <2>1, <2>3, <1>r, <1>3
    <3> QED
      BY <1>6, <1>3, <2>1, <2>2, <2>3, <3>1 DEF Recovers
  <2>4. CASE w.dal = d
    <3>1. Recovers(d) /\ box[d].id = w.made
      BY <2>1, <2>4, <1>r DEF Good, WatchStage
    <3>2. reg'[d] = w.made
      BY <2>1, <2>4, <1>3
    <3>3. WatchStage(d)' /\ Truthful(d)'
      BY <1>3, <2>1, <2>2, <3>1, <3>2 DEF WatchStage, Truthful
    <3> QED
      BY <1>1, <1>2, <2>1, <3>1, <3>2, <3>3, WatchStep
  <2> QED
    BY <2>3, <2>4
<1> QED
  BY <1>8, <1>9, <1>10, <1>11, <1>12, <1>13, <1>14 DEF Watch

(* A container whose process ends keeps its name and its id. *)
LEMMA DiesGood ==
  ASSUME TypeOK, NEW e \in Dal, Dies(e), Track, NEW d \in Dal, d \notin clashed', Good(d)
  PROVE  Good(d)'
<1>1. Courteous(d)'
  BY StaysCourteous
<1>2. UNCHANGED <<reg, h, w>> /\ box[e].up
  BY DEF Dies
<1>3. box \in [Dal -> [id : Id \cup {None}, up : BOOLEAN]]
  BY DEF TypeOK
<1>4. box' = [box EXCEPT ![e] = [box[e] EXCEPT !.up = FALSE]]
  BY DEF Dies
<1>5. CASE d # e
  <2>1. box'[d] = box[d]
    BY <1>3, <1>4, <1>5
  <2>2. WatchStage(d)' /\ (Recovers(d) => Recovers(d)')
    BY <1>2, <2>1 DEF Good, WatchStage, Recovers
  <2> QED
    BY <1>1, <1>2, <2>1, <2>2, Elsewhere
<1>6. CASE d = e
  <2>1. box[e] \in [id : Id \cup {None}, up : BOOLEAN]
    BY <1>3
  <2>2. box'[d].id = box[d].id /\ ~box'[d].up /\ box[d] # Gone
    BY <1>2, <1>3, <1>4, <1>6, <2>1 DEF Gone
  <2>3. \A r \in Handler : h'[r].dal = d => Stage(r, d)'
    BY <1>2, <2>2 DEF Good, Stage
  <2>4. WatchStage(d)'
    BY <1>2, <2>2 DEF Good, WatchStage
  <2>5. Mapped(d)'
    BY <1>2, <2>2 DEF Good, Mapped
  <2>6. \A r, s \in Handler : Busy(r, d)' /\ Busy(s, d)' => r = s
    BY <1>2 DEF Good, Busy
  <2>7. (\A r \in Handler : ~Busy(r, d)') /\ ~Recovers(d)' => Truthful(d)'
    BY <1>2, <2>2 DEF Good, Busy, Recovers, Truthful
  <2> QED
    BY <1>1, <2>3, <2>4, <2>5, <2>6, <2>7 DEF Good
<1> QED
  BY <1>5, <1>6

(* The daemon has just started: nobody works, and reconcile has adopted what *)
(* runs.                                                                    *)
LEMMA StartedGood ==
  ASSUME NEW d \in Dal, \A r \in Handler : h[r] = Free, w = Calm,
         reg[d] = IF box[d].up /\ d \notin slipped THEN box[d].id ELSE None,
         d \notin slipped
  PROVE  Good(d)
<1>1. None \notin Dal /\ Free.dal = None /\ Free.todo = {} /\ Calm.dal = None
  BY LifecycleAssumption DEF Free, Calm
<1>2. \A r \in Handler : h[r].dal # d /\ h[r].todo = {}
  BY <1>1
<1>3. w.dal # d
  BY <1>1
<1> QED
  BY <1>2, <1>3 DEF Good, Courteous, Recovers, WatchStage, Mapped, Busy, Truthful

(* The same of the daemon that starts again. *)
LEMMA RebootGood ==
  ASSUME Reboot, NEW d \in Dal, d \notin slipped'
  PROVE  Good(d)'
<1>1. None \notin Dal /\ Free.dal = None /\ Free.todo = {} /\ Calm.dal = None
  BY LifecycleAssumption DEF Free, Calm
<1>2. \A r \in Handler : h'[r].dal # d /\ h'[r].todo = {}
  BY <1>1 DEF Reboot
<1>3. w'.dal # d
  BY <1>1 DEF Reboot
<1>4. reg'[d] = IF box[d].up THEN box[d].id ELSE None
  BY DEF Reboot, Adopted
<1>5. UNCHANGED box
  BY DEF Reboot
<1> QED
  BY <1>2, <1>3, <1>4, <1>5
  DEF Good, Courteous, Recovers, WatchStage, Mapped, Busy, Truthful

-----------------------------------------------------------------------------
(* The inductive invariant holds at the start. *)
LEMMA InitIInv == Init => IInv
<1> SUFFICES ASSUME Init PROVE IInv
  OBVIOUS
<1>1. /\ FailThreshold \in Nat \ {0} /\ MaxRetry \in Nat /\ None \notin Dal /\ None \notin Id
  BY LifecycleAssumption
<1>2. box \in [Dal -> {Gone} \cup [id : Id, up : BOOLEAN]]
  BY DEF Init
<1>3. box \in Boxes
  <2>1. {Gone} \cup [id : Id, up : BOOLEAN] \subseteq [id : Id \cup {None}, up : BOOLEAN]
    <3>1. Gone \in [id : Id \cup {None}, up : BOOLEAN]
      BY DEF Gone
    <3>2. [id : Id, up : BOOLEAN] \subseteq [id : Id \cup {None}, up : BOOLEAN]
      OBVIOUS
    <3> QED
      BY <3>1, <3>2
  <2>2. \A b \in {Gone} \cup [id : Id, up : BOOLEAN] : b.up => b.id # None
    BY <1>1 DEF Gone
  <2> QED
    BY <1>2, <2>1, <2>2 DEF Boxes
<1>4. reg = Adopted(slipped) /\ slipped \subseteq Dal
  BY DEF Init, Running
<1>5. reg \in [Dal -> Id \cup {None}]
  BY <1>3, <1>4 DEF Adopted, Boxes
<1>6. h = [r \in Handler |-> Free] /\ w = Calm /\ failed = {} /\ clashed = {}
  BY DEF Init
<1>7. h \in [Handler -> Work] /\ \A r \in Handler : Fine(h[r])
  BY <1>6, FreeIsFine DEF Fine
<1>8. w \in Health /\ WatchShape
  <2>1. 0 \in 0..(FailThreshold + MaxRetry) /\ 0 \in 0..MaxRetry /\ 0 < FailThreshold + 0
    BY <1>1
  <2>2. w \in Health
    BY <1>6, <2>1 DEF Calm, Health
  <2> QED
    BY <1>6, <2>1, <2>2 DEF Calm, WatchShape
<1>9. TypeOK
  BY <1>3, <1>4, <1>5, <1>6, <1>7, <1>8 DEF TypeOK, Boxes, Work, Health
<1>10. ASSUME NEW d \in Dal, d \notin slipped PROVE Good(d)
  <2>1. reg[d] = IF box[d].up /\ d \notin slipped THEN box[d].id ELSE None
    BY <1>4 DEF Adopted
  <2> QED
    BY <1>6, <1>10, <2>1, StartedGood
<1> QED
  BY <1>7, <1>8, <1>9, <1>10 DEF IInv, Sound

(* Every step preserves the inductive invariant. *)
LEMMA NextIInv == IInv /\ [Next]_vars => IInv'
<1> SUFFICES ASSUME IInv, [Next]_vars PROVE IInv'
  OBVIOUS
<1>0. TypeOK /\ WatchShape /\ \A q \in Handler : Fine(h[q])
  BY DEF IInv
<1>1. CASE UNCHANGED vars
  BY <1>1 DEF IInv, vars, TypeOK, WatchShape, Sound, Good, Courteous, Recovers, Stage,
              WatchStage, Mapped, Busy, Truthful
<1>t. ASSUME box' \in Boxes, reg' \in [Dal -> Id \cup {None}],
             failed' \subseteq Leader, slipped' \subseteq Dal, clashed' \subseteq Dal,
             h' \in [Handler -> Work], w' \in Health
      PROVE  TypeOK'
  BY <1>t DEF TypeOK, Boxes, Work, Health
<1>w. w \in Health /\ clashed \subseteq Dal /\ h \in [Handler -> Work]
  BY <1>0 DEF TypeOK, Health, Work
<1>2. CASE Reboot
  <2>0. /\ UNCHANGED box /\ reg' = Adopted(slipped') /\ slipped' \subseteq Dal
        /\ h' = [r \in Handler |-> Free] /\ w' = Calm /\ failed' = {} /\ clashed' = {}
    BY <1>2 DEF Reboot, Running
  <2>1. box' \in Boxes
    BY <1>0, <2>0 DEF TypeOK, Boxes
  <2>2. reg' \in [Dal -> Id \cup {None}]
    BY <2>0, <2>1 DEF Adopted, Boxes
  <2>3. h' \in [Handler -> Work] /\ \A q \in Handler : Fine(h'[q])
    BY <2>0, FreeIsFine DEF Fine
  <2>4. w' \in Health /\ WatchShape'
    <3>1. FailThreshold \in Nat \ {0} /\ MaxRetry \in Nat
      BY LifecycleAssumption
    <3>2. 0 \in 0..(FailThreshold + MaxRetry) /\ 0 \in 0..MaxRetry /\ 0 < FailThreshold + 0
      BY <3>1
    <3>3. w' \in Health
      BY <2>0, <3>2 DEF Calm, Health
    <3> QED
      BY <2>0, <3>2, <3>3 DEF Calm, WatchShape
  <2>5. TypeOK'
    BY <2>0, <2>1, <2>2, <2>3, <2>4, <1>t
  <2>6. \A d \in Dal : Sound(d)' => Good(d)'
    BY <1>2, RebootGood DEF Sound
  <2> QED
    BY <2>3, <2>4, <2>5, <2>6 DEF IInv
<1>3. ASSUME Track,
             /\ box' \in Boxes /\ reg' \in [Dal -> Id \cup {None}]
             /\ failed' \subseteq Leader /\ slipped' \subseteq Dal
             /\ h' \in [Handler -> Work] /\ \A q \in Handler : Fine(h'[q])
             /\ w' \in Health /\ WatchShape'
             /\ slipped \subseteq slipped',
             ASSUME NEW d \in Dal, d \notin clashed', d \notin slipped', Good(d)
             PROVE  Good(d)'
      PROVE  IInv'
  <2>1. clashed \subseteq clashed' /\ clashed' \subseteq Dal
    BY <1>3, <1>w DEF Track
  <2>2. TypeOK'
    BY <1>3, <2>1, <1>t
  <2>3. ASSUME NEW d \in Dal, Sound(d)' PROVE Good(d)'
    <3>1. Sound(d) /\ d \notin clashed' /\ d \notin slipped'
      BY <1>3, <2>1, <2>3 DEF Sound
    <3>2. Good(d)
      BY <3>1 DEF IInv
    <3> QED
      BY <3>1, <3>2, <1>3
  <2> QED
    BY <1>3, <2>2, <2>3 DEF IInv
<1>4. ASSUME NEW e \in Dal, Dies(e), Track PROVE IInv'
  <2>1. UNCHANGED <<reg, h, w, failed, slipped>>
    BY <1>4 DEF Dies, ghosts
  <2>2. box' \in Boxes
    BY <1>0, <1>4, DockerTypes
  <2>3. /\ reg' \in [Dal -> Id \cup {None}] /\ failed' \subseteq Leader /\ slipped' \subseteq Dal
    BY <1>0, <2>1 DEF TypeOK
  <2>4. w' \in Health /\ WatchShape'
    BY <1>0, <1>w, <2>1 DEF WatchShape
  <2>5. ASSUME NEW d \in Dal, d \notin clashed', d \notin slipped', Good(d) PROVE Good(d)'
    BY <1>0, <1>4, <2>5, DiesGood
  <2> QED
    BY <1>0, <1>w, <1>3, <1>4, <2>1, <2>2, <2>3, <2>4, <2>5
<1>5. ASSUME NEW r \in Handler, Handle(r), Track PROVE IInv'
  <2>1. /\ box' \in Boxes /\ reg' \in [Dal -> Id \cup {None}]
        /\ failed' \subseteq Leader /\ slipped' \subseteq Dal /\ UNCHANGED w
        /\ h' \in [Handler -> Work] /\ \A q \in Handler : Fine(h'[q])
    BY <1>0, <1>5, HandlerTypes
  <2>2. w' \in Health /\ WatchShape'
    BY <1>0, <1>w, <2>1 DEF WatchShape
  <2>3. slipped \subseteq slipped'
    BY <1>5 DEF Handle, Wake, Sleep, Restart, Replace, Pick, Sync, WakeInside, Clean,
         Run, RunError, Set, Stopped, StopError, Delete, Drop, ghosts
  <2>4. ASSUME NEW d \in Dal, d \notin clashed', d \notin slipped', Good(d) PROVE Good(d)'
    <3>1. CASE \E e \in Dal : Wake(r, e) \/ Sleep(r, e) \/ Restart(r, e) \/ Replace(r, e)
      BY <1>0, <1>5, <2>4, <3>1, ArrivalGood
    <3>2. CASE Sync(r) \/ \E p \in Dal \X Id : Pick(r, p)
      BY <1>0, <1>5, <2>4, <3>2, SnapshotGood
    <3>3. CASE WakeInside(r) \/ Clean(r) \/ Run(r) \/ RunError(r) \/ Set(r)
      BY <1>0, <1>5, <2>4, <3>3, WakeGood
    <3>4. CASE Stopped(r) \/ StopError(r) \/ Delete(r) \/ Drop(r)
      BY <1>0, <1>5, <2>4, <3>4, StopGood
    <3> QED
      BY <1>5, <3>1, <3>2, <3>3, <3>4 DEF Handle
  <2> QED
    BY <1>5, <2>1, <2>2, <2>3, <2>4, <1>3
<1>6. ASSUME Watch, Track PROVE IInv'
  <2>1. /\ box' \in Boxes /\ reg' \in [Dal -> Id \cup {None}]
        /\ failed' \subseteq Leader /\ slipped' \subseteq Dal /\ UNCHANGED h
        /\ w' \in Health /\ WatchShape'
    BY <1>0, <1>6, WatchTypes
  <2>2. slipped \subseteq slipped'
    BY <1>6 DEF Watch, WatchNone, WatchFind, WatchHealthy, WatchSick, WatchLookup,
         WatchStop, WatchDelete, WatchRun, WatchRunError, WatchSet, ghosts
  <2>3. ASSUME NEW d \in Dal, d \notin clashed', d \notin slipped', Good(d) PROVE Good(d)'
    BY <1>0, <1>6, <2>3, WatchGood
  <2>4. \A q \in Handler : Fine(h'[q])
    BY <1>0, <2>1
  <2> QED
    BY <1>w, <1>6, <2>1, <2>2, <2>3, <2>4, <1>3
<1> QED
  BY <1>1, <1>2, <1>4, <1>5, <1>6 DEF Next

(* The inductive invariant holds in every behaviour. *)
THEOREM Invariance == Spec => []IInv
BY InitIInv, NextIInv, PTL DEF Spec

(* Type correctness: ids never run out, the counts of the watcher stay small. *)
THEOREM TypesHold == Spec => []TypeOK
<1>1. IInv => TypeOK
  BY DEF IInv
<1> QED
  BY <1>1, Invariance, PTL

(* A registered container is the one under the dal's name and a running one  *)
(* is registered, whenever nobody works on the dal, whatever mixture of     *)
(* sleeps, syncs and single wakes has worked on it.                         *)
THEOREM MapIsTruthful == Spec => []TruthfulMap
<1>1. IInv => TruthfulMap
  <2> SUFFICES ASSUME IInv, NEW d \in Dal \ (clashed \cup slipped), Quiet(d)
               PROVE  Truthful(d)
    BY DEF TruthfulMap, Truthful
  <2>1. Good(d)
    BY DEF IInv, Sound
  <2> QED
    BY <2>1 DEF Good, Quiet, Busy
<1> QED
  BY <1>1, Invariance, PTL

(* cleanStaleContainer never removes a running container that the map knows. *)
THEOREM CleanIsSafe == Spec => CleanSparesRunning
<1> DEFINE A == \A r \in Handler, d \in Dal \ (clashed \cup slipped) :
                  /\ At(r, "clean") /\ h[r].dal = d /\ h'[r] # h[r]
                  /\ box[d].up /\ reg[d] = box[d].id
                  => box'[d] = box[d] \/ h'[r] = Free
<1>1. IInv /\ [Next]_vars => [A]_vars
  <2> SUFFICES ASSUME IInv, NEW r \in Handler, NEW d \in Dal \ (clashed \cup slipped),
                      At(r, "clean"), h[r].dal = d, box[d].up, reg[d] = box[d].id
               PROVE  FALSE
    OBVIOUS
  <2>1. Stage(r, d) /\ box[d].id # None
    BY DEF IInv, Sound, Good, TypeOK
  <2> QED
    BY <2>1 DEF Stage, At
<1> QED
  BY <1>1, Invariance, PTL DEF Spec, CleanSparesRunning
=============================================================================
