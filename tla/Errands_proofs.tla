--------------------------- MODULE Errands_proofs ---------------------------
(***************************************************************************)
(* The eight parts of MCErrands, each for any values of its constants: the *)
(* inductive invariant of each part, what it promises, and that the parts  *)
(* side by side are behaviours of each.                                    *)
(***************************************************************************)
EXTENDS MCErrands, FiniteSetTheorems, SequenceTheorems, WellFoundedInduction, TLAPS

-----------------------------------------------------------------------------
(* Sets of numbers. *)

(* A nonempty set of numbers has its least member. *)
LEMMA LeastIn ==
  ASSUME NEW T \in SUBSET Nat, T # {}
  PROVE  Min(T) \in T /\ \A n \in T : Min(T) <= n
<1> DEFINE Below == {p \in Nat \X Nat : p[1] < p[2]}
<1>1. IsWellFoundedOn(Below, Nat)
  <2>1. OpToRel(<, Nat) = Below
    BY Zenon DEF OpToRel
  <2> QED
    BY <2>1, NatLessThanWellFounded
<1>2. PICK n \in T : \A m \in T : ~(<<m, n>> \in Below)
  <2> HIDE DEF Below
  <2> QED
    BY <1>1, WFMin
<1>3. ASSUME NEW m \in T
      PROVE  n <= m
  <2>1. m \in Nat /\ n \in Nat
    OBVIOUS
  <2>2. ~(m < n)
    BY <1>2, <2>1
  <2> QED
    BY <2>1, <2>2
<1> QED
  BY <1>3 DEF Min

(* A nonempty finite set of numbers has its greatest member: else there were *)
(* a smallest such set without one.                                          *)
LEMMA GreatestIn ==
  ASSUME NEW S \in SUBSET Nat, IsFiniteSet(S), S # {}
  PROVE  Max(S) \in S /\ \A x \in S : Max(S) >= x
<1> DEFINE Tops(T) == {x \in T : \A y \in T : x >= y}
           Odd == {T \in SUBSET S : T # {} /\ Tops(T) = {}}
           Sizes == {Cardinality(T) : T \in Odd}
<1>1. ASSUME NEW T \in SUBSET S
      PROVE  IsFiniteSet(T) /\ Cardinality(T) \in Nat
  BY FS_Subset, FS_CardinalityType
<1>2. ASSUME NEW T \in Odd
      PROVE  \E U \in Odd : Cardinality(U) < Cardinality(T)
  <2>1. PICK x \in T : TRUE
    OBVIOUS
  <2>2. T \in SUBSET S /\ T \in SUBSET Nat /\ x \in Nat /\ Tops(T) = {}
    OBVIOUS
  <2>3. Cardinality(T \ {x}) = Cardinality(T) - 1
    BY <1>1, <2>1, <2>2, FS_RemoveElement
  <2>4. T \ {x} # {}
    <3>1. T = {x} => x \in Tops(T)
      BY <2>2
    <3> QED
      BY <2>1, <2>2, <3>1
  <2>5. Tops(T \ {x}) = {}
    <3> SUFFICES ASSUME NEW y \in Tops(T \ {x}) PROVE FALSE
      OBVIOUS
    <3>1. y \in T /\ y \in Nat /\ \A z \in T : z # x => y >= z
      BY <2>2
    <3>2. CASE y >= x
      <4>1. y \in Tops(T)
        BY <3>1, <3>2
      <4> QED
        BY <2>2, <4>1
    <3>3. CASE ~(y >= x)
      <4>1. ASSUME NEW z \in T PROVE x >= z
        <5>1. z \in Nat
          BY <2>2
        <5> QED
          BY <2>2, <3>1, <3>3, <5>1
      <4>2. x \in Tops(T)
        BY <2>1, <4>1
      <4> QED
        BY <2>2, <4>2
    <3> QED
      BY <3>2, <3>3
  <2>6. T \ {x} \in Odd
    BY <2>2, <2>4, <2>5
  <2>7. Cardinality(T) \in Nat
    BY <1>1, <2>2
  <2> HIDE DEF Odd, Tops
  <2> QED
    BY <2>3, <2>6, <2>7
<1>3. Odd = {}
  <2> SUFFICES ASSUME Odd # {} PROVE FALSE
    OBVIOUS
  <2>1. Sizes \in SUBSET Nat /\ Sizes # {}
    BY <1>1
  <2>2. Min(Sizes) \in Sizes /\ \A n \in Sizes : Min(Sizes) <= n
    <3> HIDE DEF Sizes
    <3> QED
      BY <2>1, LeastIn
  <2>3. PICK T \in Odd : Cardinality(T) = Min(Sizes)
    BY <2>2
  <2>4. PICK U \in Odd : Cardinality(U) < Cardinality(T)
    BY <1>2
  <2>5. Cardinality(U) \in Sizes /\ Cardinality(T) \in Sizes
    OBVIOUS
  <2>6. Cardinality(U) \in Nat /\ Cardinality(T) \in Nat
    BY <2>1, <2>5
  <2>7. Cardinality(T) <= Cardinality(U)
    BY <2>2, <2>3, <2>5
  <2> QED
    BY <2>4, <2>6, <2>7
<1>4. PICK m \in S : \A y \in S : m >= y
  <2>1. Tops(S) # {}
    BY <1>3
  <2> QED
    BY <2>1
<1> QED
  BY <1>4 DEF Max

-----------------------------------------------------------------------------
(* The issue watcher.  What the leader got oftener than it was forgotten is  *)
(* tracked, or is about to be.                                               *)
IsKnown(i) == Seen(i) \/ i = handled.issue
KnownOrForgotten ==
  \A i \in Issue : dispatches[i] <= forgotten[i] + (IF IsKnown(i) THEN 1 ELSE 0)

IssueInv == IssueTypeOK /\ KnownOrForgotten

(* gh issue list --limit: the newest ListLimit are no more than ListLimit.   *)
LEMMA ListedIsShort == Cardinality(Listed) <= ListLimit /\ Listed \subseteq Issue
<1> DEFINE m == Min(Listed)
           above == {j \in OpenIssues : j > m}
<1>1. /\ Listed \subseteq OpenIssues /\ OpenIssues \subseteq Issue /\ Issue \subseteq Nat
      /\ IsFiniteSet(Issue) /\ ListLimit \in Nat \ {0}
  BY IssueAssumption DEF Listed, OpenIssues
<1>2. CASE Listed = {}
  BY <1>1, <1>2, FS_EmptySet
<1>3. CASE Listed # {}
  <2>1. m \in Listed /\ \A n \in Listed : m <= n
    BY <1>1, <1>3, LeastIn
  <2>2. Cardinality(above) < ListLimit
    BY <2>1 DEF Listed
  <2>3. IsFiniteSet(above) /\ Cardinality(above) \in Nat
    BY <1>1, FS_Subset, FS_CardinalityType
  <2>4. Listed \subseteq above \cup {m}
    <3> SUFFICES ASSUME NEW n \in Listed, n # m PROVE n \in above
      OBVIOUS
    <3>1. n \in OpenIssues /\ n \in Nat /\ m \in Nat /\ m <= n
      <4> HIDE DEF m
      <4> QED
        BY <1>1, <2>1
    <3>2. n > m
      <4> HIDE DEF m
      <4> QED
        BY <3>1
    <3> QED
      BY <3>1, <3>2
  <2>5. /\ IsFiniteSet(above \cup {m}) /\ Cardinality(above \cup {m}) \in Nat
        /\ Cardinality(above \cup {m}) <= Cardinality(above) + 1
    <3> HIDE DEF above, m
    <3>1. /\ IsFiniteSet(above \cup {m})
          /\ Cardinality(above \cup {m}) = Cardinality(above)
             \/ Cardinality(above \cup {m}) = Cardinality(above) + 1
      BY <2>3, FS_AddElement
    <3> QED
      BY <2>3, <3>1
  <2>6. Cardinality(Listed) \in Nat /\ Cardinality(Listed) <= Cardinality(above \cup {m})
    <3> HIDE DEF above, m
    <3> QED
      BY <2>4, <2>5, FS_Subset, FS_CardinalityType
  <2>7. Cardinality(above) + 1 <= ListLimit
    <3> HIDE DEF above
    <3> QED
      BY <1>1, <2>2, <2>3
  <2> HIDE DEF above, m
  <2> QED
    BY <1>1, <2>3, <2>5, <2>6, <2>7
<1> QED
  BY <1>1, <1>2, <1>3

LEMMA NextIssueIsListed ==
  ASSUME IssueTypeOK, todo # {}
  PROVE  /\ NextIssue \in todo /\ NextIssue \in Issue
         /\ IsFiniteSet(todo \ {NextIssue})
         /\ Cardinality(todo \ {NextIssue}) <= ListLimit
<1>1. todo \subseteq Issue /\ Issue \subseteq Nat /\ IsFiniteSet(Issue) /\ ListLimit \in Nat
  BY IssueAssumption DEF IssueTypeOK
<1>2. IsFiniteSet(todo) /\ Cardinality(todo) \in Nat /\ Cardinality(todo) <= ListLimit
  BY <1>1, FS_Subset, FS_CardinalityType DEF IssueTypeOK
<1>3. NextIssue \in todo
  BY <1>1, <1>2, GreatestIn DEF NextIssue
<1>4. /\ IsFiniteSet(todo \ {NextIssue})
      /\ Cardinality(todo \ {NextIssue}) = Cardinality(todo) - 1
  BY <1>2, <1>3, FS_RemoveElement
<1> QED
  BY <1>1, <1>2, <1>3, <1>4

(* save: what is tracked last stays, and of the others all but the oldest.   *)
LEMMA KeptIsShort ==
  ASSUME NEW list \in Seq(Record), Len(list) <= MaxTracked, NEW h \in Record
  PROVE  /\ Kept(Append(list, h)) \in Seq(Record)
         /\ Len(Kept(Append(list, h))) <= MaxTracked
         /\ Len(Kept(Append(list, h))) > 0
         /\ Kept(Append(list, h))[Len(Kept(Append(list, h)))] = h
<1> DEFINE s == Append(list, h)
<1>1. MaxTracked \in Nat /\ MaxTracked >= 1
  BY IssueAssumption
<1>2. s \in Seq(Record) /\ Len(s) = Len(list) + 1 /\ s[Len(s)] = h
  OBVIOUS
<1>3. Len(list) \in Nat
  OBVIOUS
<1> HIDE DEF s
<1>4. CASE Len(s) > MaxTracked
  <2>1. Kept(s) = Tail(s)
    BY <1>4 DEF Kept
  <2>2. Len(s) > 1
    BY <1>1, <1>2, <1>3, <1>4
  <2>3. Tail(s) \in Seq(Record) /\ Len(Tail(s)) = Len(s) - 1
    BY <1>2, <2>2
  <2>4. Tail(s)[Len(s) - 1] = s[Len(s)]
    BY <1>2, <2>2
  <2> QED
    BY <1>1, <1>2, <1>3, <2>1, <2>2, <2>3, <2>4 DEF s
<1>5. CASE ~(Len(s) > MaxTracked)
  <2>1. Kept(s) = s
    BY <1>5 DEF Kept
  <2> QED
    BY <1>1, <1>2, <1>3, <1>5, <2>1 DEF s
<1> QED
  BY <1>4, <1>5

LEMMA IssueTroubled ==
  ASSUME IssueTypeOK, IssueTrouble
  PROVE  issueTrouble' \in 0..MaxIssueTrouble
BY IssueAssumption DEF IssueTypeOK, IssueTrouble

(* A list that is lost counts for every issue it is lost from.               *)
LEMMA ForgetsCounts ==
  ASSUME IssueTypeOK, NEW before, NEW after, Forgets(before, after)
  PROVE  /\ forgotten' \in [Issue -> Nat]
         /\ \A i \in Issue : forgotten'[i] >= forgotten[i]
         /\ \A i \in Issue :
              before[i] /\ ~after[i] /\ dispatches[i] > 0 => forgotten'[i] = forgotten[i] + 1
<1>1. forgotten \in [Issue -> Nat]
  BY DEF IssueTypeOK
<1> QED
  BY <1>1 DEF Forgets

LEMMA InitIssue == IssueInit => IssueInv
<1> SUFFICES ASSUME IssueInit PROVE IssueInv
  OBVIOUS
<1>1. IssueTypeOK
  <2>1. Cardinality({}) = 0
    BY FS_EmptySet
  <2>2. tracked \in Book(Record) /\ Len(tracked.memory) = 0 /\ Len(tracked.file) = 0
    BY DEF IssueInit, NewBook, Book
  <2>3. 0 <= ListLimit /\ 0 <= MaxTracked /\ 0 \in 0..MaxIssueTrouble
    BY IssueAssumption
  <2>4. /\ github \in [Issue -> {"none", "open", "closed"}]
        /\ dispatches \in [Issue -> Nat] /\ forgotten \in [Issue -> Nat]
    BY DEF IssueInit
  <2> QED
    BY <2>1, <2>2, <2>3, <2>4 DEF IssueInit, IssueTypeOK
<1>2. \A i \in Issue : dispatches[i] = 0 /\ forgotten[i] = 0
  BY DEF IssueInit
<1> QED
  BY <1>1, <1>2 DEF IssueInv, KnownOrForgotten

(* Steps that dispatch nothing and forget nothing.                           *)
LEMMA SameKnown ==
  ASSUME KnownOrForgotten, UNCHANGED <<handled, tracked, dispatches, forgotten>>
  PROVE  KnownOrForgotten'
BY DEF KnownOrForgotten, IsKnown, Seen, On

(* GitHub and the leader change nothing of the watcher's.                    *)
LEMMA StepIssueWorld ==
  ASSUME IssueInv, UNCHANGED watcher, github' \in [Issue -> {"none", "open", "closed"}],
         leader' \in BOOLEAN, issueTrouble' \in 0..MaxIssueTrouble
  PROVE  IssueInv'
<1>1. IssueTypeOK'
  BY DEF IssueInv, IssueTypeOK, watcher
<1> QED
  BY <1>1, SameKnown DEF IssueInv, watcher

(* Dispatch and what comes before it.  An issue that was not seen was        *)
(* forgotten as often as it was dispatched: nothing is handled.              *)
LEMMA StepIssueLooks ==
  ASSUME IssueInv, Poll \/ PassOver \/ Dispatch
  PROVE  IssueInv'
<1> USE DEF IssueInv
<1>1. CASE Poll
  <2>1. /\ UNCHANGED <<github, leader, handled, tracked, dispatches, forgotten, issueTrouble>>
        /\ todo' = Listed
    BY <1>1 DEF Poll
  <2>2. IssueTypeOK'
    BY <2>1, ListedIsShort DEF IssueTypeOK
  <2> QED
    BY <2>1, <2>2, SameKnown
<1>2. CASE PassOver
  <2>1. /\ UNCHANGED <<github, leader, handled, tracked, dispatches, forgotten, issueTrouble>>
        /\ todo # {} /\ todo' = todo \ {NextIssue}
    BY <1>2 DEF PassOver
  <2>2. IssueTypeOK'
    BY <2>1, NextIssueIsListed DEF IssueTypeOK
  <2> QED
    BY <2>1, <2>2, SameKnown
<1>3. CASE Dispatch
  <2>1. /\ UNCHANGED <<github, leader, tracked, forgotten, issueTrouble>>
        /\ todo # {} /\ todo' = todo \ {NextIssue} /\ handled = Nothing
        /\ ~Seen(NextIssue)
        /\ handled' = [issue |-> NextIssue,
                       status |-> IF leader THEN "dispatched" ELSE "error"]
        /\ dispatches' = [dispatches EXCEPT ![NextIssue] = IF leader THEN @ + 1 ELSE @]
    BY <1>3 DEF Dispatch
  <2>2. NextIssue \in Issue /\ NextIssue # 0 /\ handled' \in Record
    BY <2>1, NextIssueIsListed, IssueAssumption DEF Record
  <2>3. dispatches \in [Issue -> Nat] /\ forgotten \in [Issue -> Nat]
    BY DEF IssueTypeOK
  <2>4. dispatches' \in [Issue -> Nat]
    BY <2>1, <2>2, <2>3
  <2>5. IssueTypeOK'
    BY <2>1, <2>2, <2>4, NextIssueIsListed DEF IssueTypeOK
  <2>6. handled.issue = 0 /\ handled'.issue = NextIssue
    BY <2>1 DEF Nothing
  <2>7. \A i : Seen(i)' <=> Seen(i)
    BY <2>1 DEF Seen, On
  <2>8. ASSUME NEW i \in Issue
        PROVE  dispatches'[i] <= forgotten'[i] + (IF IsKnown(i)' THEN 1 ELSE 0)
    <3>1. i # 0 /\ dispatches[i] \in Nat /\ forgotten[i] \in Nat /\ forgotten'[i] = forgotten[i]
      BY <2>1, <2>3, IssueAssumption
    <3>2. dispatches[i] <= forgotten[i] + (IF Seen(i) THEN 1 ELSE 0)
      BY <2>6, <3>1 DEF KnownOrForgotten, IsKnown
    <3>3. CASE i = NextIssue
      <4>1. dispatches[i] <= forgotten[i]
        BY <2>1, <3>1, <3>2, <3>3
      <4>2. dispatches'[i] <= dispatches[i] + 1
        BY <2>1, <2>3, <3>1, <3>3
      <4>3. IsKnown(i)' /\ dispatches'[i] \in Nat
        BY <2>4, <2>6, <3>3 DEF IsKnown
      <4> QED
        BY <3>1, <4>1, <4>2, <4>3
    <3>4. CASE i # NextIssue
      <4>1. dispatches'[i] = dispatches[i]
        BY <2>1, <2>3, <3>4
      <4>2. Seen(i) => IsKnown(i)'
        BY <2>7 DEF IsKnown
      <4> QED
        BY <3>1, <3>2, <4>1, <4>2
    <3> QED
      BY <3>3, <3>4
  <2> QED
    BY <2>5, <2>8 DEF KnownOrForgotten
<1> QED
  BY <1>1, <1>2, <1>3

(* What is handled comes to be tracked; what falls out is forgotten.         *)
LEMMA StepIssueTrack ==
  ASSUME IssueInv, Track
  PROVE  IssueInv'
<1> DEFINE s == Kept(Append(tracked.memory, handled))
<1>1. /\ handled # Nothing /\ handled' = Nothing
      /\ tracked' = [memory |-> s, file |-> s] \/ tracked' = [memory |-> s, file |-> tracked.file]
      /\ issueTrouble' = issueTrouble \/ IssueTrouble
      /\ Forgets([i \in Issue |-> Seen(i)], [i \in Issue |-> On(tracked'.memory, i)])
      /\ UNCHANGED <<github, leader, todo, dispatches>>
  BY DEF Track, Saved, Unsaved
<1>2. /\ handled \in Record /\ tracked.memory \in Seq(Record) /\ tracked.file \in Seq(Record)
      /\ Len(tracked.memory) <= MaxTracked /\ Len(tracked.file) <= MaxTracked
      /\ dispatches \in [Issue -> Nat] /\ forgotten \in [Issue -> Nat]
  BY <1>1 DEF IssueInv, IssueTypeOK, Book
<1>3. s \in Seq(Record) /\ Len(s) <= MaxTracked /\ Len(s) > 0 /\ s[Len(s)] = handled
  BY <1>2, KeptIsShort
<1>4. /\ forgotten' \in [Issue -> Nat] /\ \A i \in Issue : forgotten'[i] >= forgotten[i]
      /\ \A i \in Issue : Seen(i) /\ ~On(tracked'.memory, i) /\ dispatches[i] > 0
                           => forgotten'[i] = forgotten[i] + 1
  BY <1>1, ForgetsCounts DEF IssueInv
<1> HIDE DEF s
<1>5. On(tracked'.memory, handled.issue)
  <2>1. tracked'.memory = s /\ Len(s) \in DOMAIN s
    BY <1>1, <1>3
  <2> QED
    BY <1>3, <2>1 DEF On
<1>6. IssueTypeOK'
  <2>1. tracked' \in Book(Record) /\ Len(tracked'.memory) <= MaxTracked
        /\ Len(tracked'.file) <= MaxTracked
    BY <1>1, <1>2, <1>3 DEF Book
  <2>2. issueTrouble' \in 0..MaxIssueTrouble
    BY <1>1, IssueTroubled DEF IssueInv, IssueTypeOK
  <2> QED
    BY <1>1, <1>2, <1>4, <2>1, <2>2 DEF IssueInv, IssueTypeOK
<1>7. ASSUME NEW i \in Issue
      PROVE  dispatches'[i] <= forgotten'[i] + (IF IsKnown(i)' THEN 1 ELSE 0)
  <2>1. /\ dispatches[i] \in Nat /\ forgotten[i] \in Nat /\ forgotten'[i] \in Nat
        /\ forgotten'[i] >= forgotten[i] /\ dispatches'[i] = dispatches[i]
    BY <1>1, <1>2, <1>4
  <2>2. dispatches[i] <= forgotten[i] + (IF IsKnown(i) THEN 1 ELSE 0)
    BY DEF IssueInv, KnownOrForgotten
  <2>3. On(tracked'.memory, i) => IsKnown(i)'
    BY DEF IsKnown, Seen
  <2>4. CASE On(tracked'.memory, i)
    BY <2>1, <2>2, <2>3, <2>4
  <2>5. CASE ~On(tracked'.memory, i)
    <3>1. i # handled.issue
      BY <1>5, <2>5
    <3>2. IsKnown(i) <=> Seen(i)
      BY <3>1 DEF IsKnown
    <3>3. CASE Seen(i) /\ dispatches[i] > 0
      <4>1. forgotten'[i] = forgotten[i] + 1
        BY <1>4, <2>5, <3>3
      <4> QED
        BY <2>1, <2>2, <4>1
    <3>4. CASE ~(Seen(i) /\ dispatches[i] > 0)
      BY <2>1, <2>2, <3>2, <3>4
    <3> QED
      BY <3>3, <3>4
  <2> QED
    BY <2>4, <2>5
<1> QED
  BY <1>6, <1>7 DEF IssueInv, KnownOrForgotten

(* A crash: what the file has is seen again, all else is forgotten.          *)
LEMMA StepIssueCrash ==
  ASSUME IssueInv, IssueCrash
  PROVE  IssueInv'
<1>1. /\ todo' = {} /\ handled' = Nothing
      /\ tracked' = [memory |-> tracked.file, file |-> tracked.file]
      /\ Forgets([i \in Issue |-> TRUE], [i \in Issue |-> On(tracked.file, i)])
      /\ UNCHANGED <<github, leader, dispatches>> /\ IssueTrouble
  BY DEF IssueCrash, Reread, Saved
<1>2. /\ tracked.file \in Seq(Record) /\ Len(tracked.file) <= MaxTracked
      /\ dispatches \in [Issue -> Nat] /\ forgotten \in [Issue -> Nat]
  BY DEF IssueInv, IssueTypeOK, Book
<1>3. /\ forgotten' \in [Issue -> Nat] /\ \A i \in Issue : forgotten'[i] >= forgotten[i]
      /\ \A i \in Issue : ~On(tracked.file, i) /\ dispatches[i] > 0
                           => forgotten'[i] = forgotten[i] + 1
  BY <1>1, ForgetsCounts DEF IssueInv
<1>4. IssueTypeOK'
  <2>1. Cardinality({}) = 0 /\ ListLimit \in Nat
    BY FS_EmptySet, IssueAssumption
  <2>2. tracked' \in Book(Record) /\ Len(tracked'.memory) <= MaxTracked
        /\ Len(tracked'.file) <= MaxTracked
    BY <1>1, <1>2 DEF Book
  <2>3. issueTrouble' \in 0..MaxIssueTrouble
    BY <1>1, IssueTroubled DEF IssueInv
  <2>4. handled' \in Record \cup {Nothing} /\ todo' \subseteq Issue /\ Cardinality(todo') <= ListLimit
    BY <1>1, <2>1
  <2>5. /\ github' \in [Issue -> {"none", "open", "closed"}] /\ leader' \in BOOLEAN
        /\ dispatches' \in [Issue -> Nat]
    BY <1>1 DEF IssueInv, IssueTypeOK
  <2> QED
    BY <1>3, <2>2, <2>3, <2>4, <2>5 DEF IssueTypeOK
<1>5. ASSUME NEW i \in Issue
      PROVE  dispatches'[i] <= forgotten'[i] + (IF IsKnown(i)' THEN 1 ELSE 0)
  <2>1. /\ dispatches[i] \in Nat /\ forgotten[i] \in Nat /\ forgotten'[i] \in Nat
        /\ forgotten'[i] >= forgotten[i] /\ dispatches'[i] = dispatches[i]
    BY <1>1, <1>2, <1>3
  <2>2. dispatches[i] <= forgotten[i] + 1
    BY <2>1 DEF IssueInv, KnownOrForgotten
  <2>3. On(tracked.file, i) => IsKnown(i)'
    BY <1>1 DEF IsKnown, Seen
  <2>4. ~On(tracked.file, i) /\ dispatches[i] > 0 => forgotten'[i] = forgotten[i] + 1
    BY <1>3
  <2> QED
    BY <2>1, <2>2, <2>3, <2>4
<1> QED
  BY <1>4, <1>5 DEF IssueInv, KnownOrForgotten

LEMMA StepIssue == IssueInv /\ [IssueNext]_issueVars => IssueInv'
<1> SUFFICES ASSUME IssueInv, [IssueNext]_issueVars PROVE IssueInv'
  OBVIOUS
<1>1. github \in [Issue -> {"none", "open", "closed"}] /\ leader \in BOOLEAN
      /\ issueTrouble \in 0..MaxIssueTrouble
  BY DEF IssueInv, IssueTypeOK
<1>2. ASSUME NEW i \in Issue, Opened(i) PROVE IssueInv'
  <2>1. UNCHANGED watcher /\ github' = [github EXCEPT ![i] = "open"]
        /\ leader' = leader /\ issueTrouble' = issueTrouble
    BY <1>2 DEF Opened
  <2> QED
    BY <1>1, <2>1, StepIssueWorld
<1>3. ASSUME NEW i \in Issue, Turned(i) PROVE IssueInv'
  <2>1. UNCHANGED watcher /\ leader' = leader /\ IssueTrouble
        /\ github' = [github EXCEPT ![i] = IF @ = "open" THEN "closed" ELSE "open"]
    BY <1>3 DEF Turned
  <2>2. issueTrouble' \in 0..MaxIssueTrouble
    BY <2>1, IssueTroubled DEF IssueInv
  <2> QED
    BY <1>1, <2>1, <2>2, StepIssueWorld
<1>4. CASE LeaderTurns
  <2>1. UNCHANGED watcher /\ leader' \in BOOLEAN /\ github' = github
    BY <1>4 DEF LeaderTurns
  <2>2. issueTrouble' \in 0..MaxIssueTrouble
    BY <1>1, <1>4, IssueTroubled DEF IssueInv, LeaderTurns
  <2> QED
    BY <1>1, <2>1, <2>2, StepIssueWorld
<1>5. CASE UNCHANGED issueVars
  BY <1>1, <1>5, StepIssueWorld DEF issueVars, watcher
<1> QED
  BY <1>2, <1>3, <1>4, <1>5, StepIssueLooks, StepIssueTrack, StepIssueCrash DEF IssueNext

(* The issue watcher (issue_watcher.go): type correctness, and what was      *)
(* dispatched is known to it, or was forgotten since.                        *)
THEOREM IssueInvariant == IssueSpec => []IssueInv
BY InitIssue, StepIssue, PTL DEF IssueSpec

LEMMA IssueInvBounds == IssueInv => DispatchesBounded
<1> SUFFICES ASSUME IssueInv, NEW i \in Issue PROVE dispatches[i] <= 1 + forgotten[i]
  BY DEF DispatchesBounded
<1>1. dispatches[i] \in Nat /\ forgotten[i] \in Nat
  BY DEF IssueInv, IssueTypeOK
<1> QED
  BY <1>1 DEF IssueInv, KnownOrForgotten

(* An issue goes to the leader once, and once more for every time the list   *)
(* or a crash lost it, for any number of issues and any limits, whichever    *)
(* saves fail and however issues are closed and opened again meanwhile.      *)
THEOREM DispatchBound == IssueSpec => []DispatchesBounded
BY IssueInvariant, IssueInvBounds, PTL

-----------------------------------------------------------------------------
(* The workflows of issues. *)

(* What is in the store was created. *)
StoredIsCreated ==
  \A r \in ToSet(stored) : flow[r].status \in {"pending", "working"} \cup Ended

(* A workflow that was active when a request looked is for another issue.   *)
MissedIsOther ==
  \A r \in Request : \A s \in missed[r] :
    /\ flow[r] # NoFlow /\ flow[s].status \in {"pending", "working"} \cup Ended
    /\ flow[s].issue # flow[r].issue

FlowInv == FlowTypeOK /\ ActiveIsStored /\ StoredIsCreated /\ MissedIsOther

FlowRecord == [issue : Ticket, status : {"looked", "pending", "working"} \cup Ended]

-----------------------------------------------------------------------------
(* Lemmas on the sequences of the store. *)

LEMMA Removes ==
  ASSUME NEW S, NEW s \in Seq(S), NEW k \in 1..Len(s)
  PROVE  /\ RemoveAt(s, k) \in Seq(S)
         /\ Len(RemoveAt(s, k)) = Len(s) - 1
         /\ \A n \in 1..(Len(s) - 1) :
              RemoveAt(s, k)[n] = IF n < k THEN s[n] ELSE s[n + 1]
<1> DEFINE a == SubSeq(s, 1, k - 1)
           b == SubSeq(s, k + 1, Len(s))
<1>1. /\ a \in Seq(S) /\ Len(a) = k - 1
      /\ \A n \in 1..(k - 1) : a[n] = s[n]
  OBVIOUS
<1>2. /\ b \in Seq(S) /\ Len(b) = Len(s) - k
      /\ \A n \in 1..(Len(s) - k) : b[n] = s[k + n]
  OBVIOUS
<1>3. RemoveAt(s, k) = a \o b
  BY DEF RemoveAt
<1> HIDE DEF a, b
<1>4. a \o b \in Seq(S) /\ Len(a \o b) = Len(s) - 1
  <2>1. a \o b \in Seq(S) /\ Len(a \o b) = Len(a) + Len(b)
    <3>1. a \in Seq(S) /\ b \in Seq(S)
      BY <1>1, <1>2
    <3> QED
      BY <3>1
  <2>2. Len(s) \in Nat /\ k \in Nat
    OBVIOUS
  <2> QED
    BY <1>1, <1>2, <2>1, <2>2
<1>5. ASSUME NEW n \in 1..(Len(s) - 1)
      PROVE  (a \o b)[n] = IF n < k THEN s[n] ELSE s[n + 1]
  <2>1. n \in Nat /\ k \in Nat /\ Len(s) \in Nat
    OBVIOUS
  <2>2. CASE n < k
    <3>1. (a \o b)[n] = a[n] /\ a[n] = s[n]
      BY <1>1, <1>2, <2>1, <2>2
    <3> QED
      BY <2>2, <3>1
  <2>3. CASE ~(n < k)
    <3>1. (a \o b)[n] = b[n - (k - 1)]
      BY <1>1, <1>2, <2>1, <2>3
    <3>2. n - (k - 1) \in 1..(Len(s) - k)
      BY <2>1, <2>3
    <3>3. b[n - (k - 1)] = s[k + (n - (k - 1))]
      BY <1>2, <3>2
    <3>4. k + (n - (k - 1)) = n + 1
      BY <2>1
    <3> QED
      BY <2>3, <3>1, <3>3, <3>4
  <2> QED
    BY <2>2, <2>3
<1>6. \A n \in 1..(Len(s) - 1) : (a \o b)[n] = IF n < k THEN s[n] ELSE s[n + 1]
  BY <1>5
<1> QED
  BY <1>3, <1>4, <1>6, Zenon

(* Create keeps what has not ended, and puts nothing in twice. *)
LEMMA EvictedKeeps ==
  ASSUME FlowTypeOK, NEW s \in Seq(Request), IsInjective(s)
  PROVE  /\ Evicted(s) \in Seq(Request) /\ IsInjective(Evicted(s))
         /\ ToSet(Evicted(s)) \subseteq ToSet(s)
         /\ \A r \in ToSet(s) : flow[r].status \notin Ended => r \in ToSet(Evicted(s))
<1> DEFINE old == {k \in DOMAIN s : flow[s[k]].status \in Ended}
           k == Min(old)
<1>1. CASE Len(s) > MaxWorkflows /\ old # {}
  <2>1. Evicted(s) = RemoveAt(s, k)
    BY <1>1 DEF Evicted
  <2>2. k \in old
    <3>1. old \in SUBSET Nat
      OBVIOUS
    <3> HIDE DEF old
    <3> QED
      BY <1>1, <3>1, LeastIn
  <2>3. k \in 1..Len(s) /\ flow[s[k]].status \in Ended
    BY <2>2
  <2> HIDE DEF old, k
  <2>4. /\ RemoveAt(s, k) \in Seq(Request)
        /\ Len(RemoveAt(s, k)) = Len(s) - 1
        /\ \A n \in 1..(Len(s) - 1) :
             RemoveAt(s, k)[n] = IF n < k THEN s[n] ELSE s[n + 1]
    BY <2>3, Removes
  <2> DEFINE t == RemoveAt(s, k)
  <2> HIDE DEF t
  <2>5. /\ t \in Seq(Request) /\ DOMAIN t = 1..(Len(s) - 1) /\ DOMAIN s = 1..Len(s)
        /\ \A n \in 1..(Len(s) - 1) : t[n] = IF n < k THEN s[n] ELSE s[n + 1]
    BY <2>4 DEF t
  <2>6. IsInjective(t)
    <3>1. SUFFICES ASSUME NEW m \in 1..(Len(s) - 1), NEW n \in 1..(Len(s) - 1), t[m] = t[n]
                   PROVE  m = n
      BY <2>5 DEF IsInjective
    <3> DEFINE from(q) == IF q < k THEN q ELSE q + 1
    <3>2. /\ from(m) \in DOMAIN s /\ t[m] = s[from(m)]
          /\ from(n) \in DOMAIN s /\ t[n] = s[from(n)]
      BY <2>3, <2>5
    <3>3. from(m) = from(n)
      <4> HIDE DEF from
      <4> QED
        BY <3>1, <3>2 DEF IsInjective
    <3> QED
      BY <2>3, <3>3
  <2>7. ToSet(t) \subseteq ToSet(s)
    BY <2>3, <2>5 DEF ToSet
  <2>8. ASSUME NEW n \in DOMAIN s, flow[s[n]].status \notin Ended
        PROVE  s[n] \in ToSet(t)
    <3>1. n # k
      BY <2>3, <2>8
    <3>2. CASE n < k
      BY <2>3, <2>5, <3>2 DEF ToSet
    <3>3. CASE n > k
      <4>1. n - 1 \in DOMAIN t /\ t[n - 1] = s[n]
        BY <2>3, <2>5, <3>3
      <4> QED
        BY <4>1 DEF ToSet
    <3> QED
      BY <2>3, <2>5, <3>1, <3>2, <3>3
  <2> QED
    BY <2>1, <2>5, <2>6, <2>7, <2>8 DEF t, ToSet
<1>2. CASE ~(Len(s) > MaxWorkflows /\ old # {})
  BY <1>2 DEF Evicted
<1> QED
  BY <1>1, <1>2

-----------------------------------------------------------------------------
LEMMA InitFlow == FlowInit => FlowInv
BY DEF FlowInit, FlowInv, FlowTypeOK, ActiveIsStored, StoredIsCreated,
       MissedIsOther, Active, NoFlow, Ended, ToSet, IsInjective

(* One request more is stored. *)
LEMMA StepFlowCreate ==
  ASSUME FlowInv, NEW r \in Request, Create(r)
  PROVE  FlowInv'
<1> DEFINE s == Append(stored, r)
<1>1. /\ flow \in [Request -> FlowRecord \cup {NoFlow}] /\ flow[r].status = "looked"
      /\ stored \in Seq(Request) /\ IsInjective(stored)
  BY DEF FlowInv, FlowTypeOK, FlowRecord, Create
<1>2. r \notin ToSet(stored)
  BY <1>1 DEF FlowInv, StoredIsCreated, Ended
<1>3. s \in Seq(Request) /\ IsInjective(s) /\ ToSet(s) = ToSet(stored) \cup {r}
  <2>1. /\ s \in Seq(Request) /\ DOMAIN s = 1..(Len(stored) + 1)
        /\ DOMAIN stored = 1..Len(stored) /\ s[Len(stored) + 1] = r
        /\ \A n \in 1..Len(stored) : s[n] = stored[n]
        /\ Len(stored) \in Nat
    BY <1>1
  <2> HIDE DEF s
  <2>2. ToSet(s) = ToSet(stored) \cup {r}
    BY <2>1 DEF ToSet
  <2>3. \A n \in 1..Len(stored) : s[n] # r
    BY <1>2, <2>1 DEF ToSet
  <2>4. IsInjective(s)
    BY <1>1, <2>1, <2>3 DEF IsInjective
  <2> QED
    BY <2>1, <2>2, <2>4
<1>4. stored' = Evicted(s)
  BY DEF Create
<1>5. /\ stored' \in Seq(Request) /\ IsInjective(stored')
      /\ ToSet(stored') \subseteq ToSet(stored) \cup {r}
      /\ \A q \in ToSet(stored) \cup {r} :
           flow[q].status \notin Ended => q \in ToSet(stored')
  <2> HIDE DEF s
  <2> QED
    BY <1>3, <1>4, EvictedKeeps DEF FlowInv
<1>6. /\ flow' \in [Request -> FlowRecord \cup {NoFlow}]
      /\ flow'[r].status = "pending" /\ flow'[r].issue = flow[r].issue
      /\ flow'[r] # NoFlow
      /\ \A q \in Request \ {r} : flow'[q] = flow[q]
  <2>1. flow[r] \in FlowRecord
    BY <1>1 DEF NoFlow
  <2>2. flow' = [flow EXCEPT ![r].status = "pending"]
    BY DEF Create
  <2>3. [flow[r] EXCEPT !.status = "pending"] \in FlowRecord
    BY <2>1 DEF FlowRecord
  <2> QED
    BY <1>1, <2>1, <2>2, <2>3 DEF NoFlow, FlowRecord
<1>7. missed' = missed
  BY DEF Create
<1>8. FlowTypeOK'
  BY <1>5, <1>6, <1>7 DEF FlowInv, FlowTypeOK, FlowRecord
<1>9. ActiveIsStored'
  BY <1>1, <1>5, <1>6 DEF FlowInv, ActiveIsStored, Active, Ended
<1>10. StoredIsCreated'
  <2>1. \A q \in ToSet(stored) : q \in Request
    BY <1>1 DEF ToSet
  <2> QED
    BY <1>5, <1>6, <2>1 DEF FlowInv, StoredIsCreated
<1>11. MissedIsOther'
  <2>1. \A q \in Request : missed[q] \subseteq Request
    BY DEF FlowInv, FlowTypeOK
  <2> QED
    BY <1>1, <1>6, <1>7, <2>1 DEF FlowInv, MissedIsOther, Ended
<1> QED
  BY <1>8, <1>9, <1>10, <1>11 DEF FlowInv

(* A workflow goes on, or ends. *)
LEMMA StepFlowGoesOn ==
  ASSUME FlowInv, NEW r \in Request, Work(r) \/ End(r)
  PROVE  FlowInv'
<1>1. PICK st \in {"working"} \cup Ended :
        /\ flow' = [flow EXCEPT ![r].status = st]
        /\ flow[r].status \in {"pending", "working"}
        /\ UNCHANGED <<stored, missed>>
  BY DEF Work, End
<1>2. flow \in [Request -> FlowRecord \cup {NoFlow}] /\ stored \in Seq(Request)
  BY DEF FlowInv, FlowTypeOK, FlowRecord
<1>3. /\ flow' \in [Request -> FlowRecord \cup {NoFlow}]
      /\ flow'[r].status = st /\ flow'[r].issue = flow[r].issue
      /\ flow'[r] # NoFlow
      /\ \A q \in Request \ {r} : flow'[q] = flow[q]
  <2>1. flow[r] \in FlowRecord
    BY <1>1, <1>2 DEF NoFlow
  <2>2. [flow[r] EXCEPT !.status = st] \in FlowRecord
    BY <2>1 DEF FlowRecord
  <2> QED
    BY <1>1, <1>2, <2>1, <2>2 DEF NoFlow, FlowRecord, Ended
<1>4. FlowTypeOK'
  BY <1>1, <1>3 DEF FlowInv, FlowTypeOK, FlowRecord
<1>5. ActiveIsStored'
  BY <1>1, <1>3 DEF FlowInv, ActiveIsStored, Active
<1>6. StoredIsCreated'
  <2>1. \A q \in ToSet(stored) : q \in Request
    BY <1>2 DEF ToSet
  <2> QED
    BY <1>1, <1>3, <2>1 DEF FlowInv, StoredIsCreated
<1>7. MissedIsOther'
  <2>1. \A q \in Request : missed[q] \subseteq Request
    BY DEF FlowInv, FlowTypeOK
  <2> QED
    BY <1>1, <1>3, <2>1 DEF FlowInv, MissedIsOther
<1> QED
  BY <1>4, <1>5, <1>6, <1>7 DEF FlowInv

LEMMA StepFlowLook ==
  ASSUME FlowInv, NEW r \in Request, NEW i \in Ticket, Look(r, i)
  PROVE  FlowInv'
<1>1. /\ flow \in [Request -> FlowRecord \cup {NoFlow}] /\ stored \in Seq(Request)
      /\ missed \in [Request -> SUBSET Request]
  BY DEF FlowInv, FlowTypeOK, FlowRecord
<1>2. /\ flow' \in [Request -> FlowRecord \cup {NoFlow}]
      /\ flow'[r].status = "looked" /\ flow'[r].issue = i /\ flow'[r] # NoFlow
      /\ \A q \in Request \ {r} : flow'[q] = flow[q]
      /\ flow[r] = NoFlow /\ stored' = stored
  BY <1>1 DEF Look, FlowRecord, NoFlow
<1>3. missed' = [missed EXCEPT ![r] = {s \in Request : Active(s)}]
  BY DEF Look
<1>4. r \notin ToSet(stored)
  BY <1>2 DEF FlowInv, StoredIsCreated, NoFlow, Ended
<1>5. FlowTypeOK'
  BY <1>1, <1>2, <1>3 DEF FlowInv, FlowTypeOK, FlowRecord
<1>6. ActiveIsStored'
  BY <1>2 DEF FlowInv, ActiveIsStored, Active
<1>7. StoredIsCreated'
  <2>1. \A q \in ToSet(stored) : q \in Request \ {r}
    BY <1>1, <1>4 DEF ToSet
  <2> QED
    BY <1>2, <2>1 DEF FlowInv, StoredIsCreated
<1>8. ASSUME NEW q \in Request, NEW s \in missed'[q]
      PROVE  /\ flow'[q] # NoFlow
             /\ flow'[s].status \in {"pending", "working"} \cup Ended
             /\ flow'[s].issue # flow'[q].issue
  <2>1. CASE q = r
    <3>1. s \in Request /\ Active(s)
      BY <1>1, <1>3, <1>8, <2>1
    <3>2. s \in ToSet(stored) /\ flow[s].issue # i
      BY <3>1 DEF FlowInv, ActiveIsStored, Look, FindByIssue
    <3>3. s # r
      BY <1>4, <3>2
    <3> QED
      BY <1>2, <2>1, <3>1, <3>2, <3>3 DEF Active
  <2>2. CASE q # r
    <3>1. s \in missed[q] /\ s \in Request
      BY <1>1, <1>3, <1>8, <2>2
    <3>2. /\ flow[q] # NoFlow /\ flow[s].status \in {"pending", "working"} \cup Ended
          /\ flow[s].issue # flow[q].issue
      BY <3>1 DEF FlowInv, MissedIsOther
    <3>3. s # r
      BY <1>2, <3>2 DEF NoFlow, Ended
    <3> QED
      BY <1>2, <2>2, <3>1, <3>2, <3>3
  <2> QED
    BY <2>1, <2>2
<1>9. MissedIsOther'
  BY <1>8 DEF MissedIsOther
<1> QED
  BY <1>5, <1>6, <1>7, <1>9 DEF FlowInv

LEMMA StepFlowForget ==
  ASSUME FlowInv, NEW r \in Request, Forget(r)
  PROVE  FlowInv'
<1>1. /\ flow \in [Request -> FlowRecord \cup {NoFlow}] /\ stored \in Seq(Request)
      /\ missed \in [Request -> SUBSET Request]
  BY DEF FlowInv, FlowTypeOK, FlowRecord
<1>2. /\ flow' = [flow EXCEPT ![r] = NoFlow] /\ stored' = stored
      /\ r \notin ToSet(stored)
      /\ missed' = [s \in Request |-> IF s = r THEN {} ELSE missed[s] \ {r}]
  BY DEF Forget
<1>3. FlowTypeOK'
  BY <1>1, <1>2 DEF FlowInv, FlowTypeOK, FlowRecord
<1>4. ActiveIsStored'
  BY <1>1, <1>2 DEF FlowInv, ActiveIsStored, Active, NoFlow
<1>5. StoredIsCreated'
  <2>1. \A q \in ToSet(stored) : q \in Request \ {r}
    BY <1>1, <1>2 DEF ToSet
  <2> QED
    BY <1>1, <1>2, <2>1 DEF FlowInv, StoredIsCreated
<1>6. MissedIsOther'
  BY <1>1, <1>2 DEF FlowInv, MissedIsOther
<1> QED
  BY <1>3, <1>4, <1>5, <1>6 DEF FlowInv

(* The types, that an active workflow can be found, and what a request can  *)
(* have missed, of every behaviour of the store (issue_workflow.go).        *)
THEOREM FlowInvariant == FlowSpec => []FlowInv
<1>1. ASSUME FlowInv, [FlowNext]_flowVars
      PROVE  FlowInv'
  <2>1. ASSUME NEW r \in Request, NEW i \in Ticket, Look(r, i)
        PROVE  FlowInv'
    BY <1>1, <2>1, StepFlowLook
  <2>2. ASSUME NEW r \in Request, Create(r)
        PROVE  FlowInv'
    BY <1>1, <2>2, StepFlowCreate
  <2>3. ASSUME NEW r \in Request, Work(r) \/ End(r)
        PROVE  FlowInv'
    BY <1>1, <2>3, StepFlowGoesOn
  <2>4. ASSUME NEW r \in Request, Forget(r)
        PROVE  FlowInv'
    BY <1>1, <2>4, StepFlowForget
  <2>5. CASE FlowCrash
    <3>1. FlowInit'
      BY <2>5 DEF FlowCrash, FlowInit
    <3> QED
      BY <2>5 DEF FlowCrash, FlowInv, FlowTypeOK, ActiveIsStored, StoredIsCreated,
                  MissedIsOther, Active, NoFlow, Ended, ToSet, IsInjective
  <2>6. CASE UNCHANGED flowVars
    BY <1>1, <2>6 DEF flowVars, FlowInv, FlowTypeOK, ActiveIsStored, StoredIsCreated,
                      MissedIsOther, Active
  <2> QED
    BY <1>1, <2>1, <2>2, <2>3, <2>4, <2>5, <2>6 DEF FlowNext
<1> QED
  BY InitFlow, <1>1, PTL DEF FlowSpec

(* An active workflow can be found, whatever was created after it: Create   *)
(* evicts only what has ended.                                              *)
THEOREM ActiveKept == FlowSpec => []ActiveIsStored
<1>1. FlowInv => ActiveIsStored
  BY DEF FlowInv
<1> QED
  BY FlowInvariant, <1>1, PTL

(* Two workflows for one issue are the race of FindByIssue and Create, and  *)
(* nothing else: neither was active yet when the other request looked.      *)
THEOREM OnlyARace == FlowSpec => []OverlapIsARace
<1>1. FlowInv => OverlapIsARace
  BY DEF FlowInv, MissedIsOther, OverlapIsARace
<1> QED
  BY FlowInvariant, <1>1, PTL

-----------------------------------------------------------------------------
(* The notices for dalroot.  What was announced is marked as notified; what  *)
(* was posted today is the last summary.                                     *)
AnnouncedIsNotified == announced \subseteq notified
PostedIsLast == posted => last.memory = DayOfMonth

NoticeInv == NoticeTypeOK /\ AnnouncedIsNotified /\ PostedIsLast /\ ToldOnce

Days == [memory : 1..Month, file : 1..Month]
Cycles == [at : {"idle", "ask", "save"}, rest : SUBSET MergeRequest]
Rounds == [on : BOOLEAN, rest : SUBSET ClosedIssue, fresh : SUBSET ClosedIssue]
Fates == [Notice -> {"unsaid", "written", "lost"}]

LEMMA NoticeTroubled ==
  ASSUME NoticeTypeOK, NoticeTrouble
  PROVE  noticeTrouble' \in 0..MaxNoticeTrouble
BY NoticeAssumption DEF NoticeTypeOK, NoticeTrouble

(* The file of the millisecond holds one notice.                             *)
LEMMA NotifyTypes ==
  ASSUME NoticeTypeOK, NEW m \in Notice, NotifyDalroot(m)
  PROVE  fate' \in Fates /\ slot' \in Notice \cup {None}
<1>1. /\ fate' = [x \in Notice |-> IF x = m THEN "written"
                                  ELSE IF x = slot THEN "lost" ELSE fate[x]]
      /\ slot' = m
  BY DEF NotifyDalroot
<1>2. fate \in Fates
  BY DEF NoticeTypeOK, Fates
<1> QED
  BY <1>1, <1>2 DEF Fates

LEMMA DayIsOfMonth == ASSUME day \in 0..MaxDay PROVE DayOfMonth \in 1..Month
<1>1. day \in Nat /\ Month \in Nat \ {0}
  BY NoticeAssumption
<1> QED
  BY <1>1 DEF DayOfMonth

LEMMA InitNotice == NoticeInit => NoticeInv
<1> SUFFICES ASSUME NoticeInit PROVE NoticeInv
  OBVIOUS
<1>1. /\ state = [i \in ClosedIssue |-> "open"] /\ merging = {}
      /\ round = Idle /\ notified = {} /\ kept = {}
      /\ fate = [m \in Notice |-> "unsaid"] /\ slot = None
      /\ cycle = [at |-> "idle", rest |-> {}] /\ last = [memory |-> 1, file |-> 1]
      /\ day = 0 /\ nine = FALSE /\ posted = FALSE
      /\ announced = {} /\ repeated = {} /\ noticeTrouble = 0
  BY DEF NoticeInit
<1>2. /\ MaxDay \in Nat /\ MaxNoticeTrouble \in Nat /\ Month \in Nat \ {0}
      /\ NotifiedLimit \in Nat
  BY NoticeAssumption
<1>3. Cardinality({}) = 0
  BY FS_EmptySet
<1>4. Cardinality(kept) <= NotifiedLimit
  BY <1>1, <1>2, <1>3
<1>5. /\ last \in Days /\ 0 \in 0..MaxDay /\ 0 \in 0..MaxNoticeTrouble
  BY <1>1, <1>2 DEF Days
<1>6. round \in Rounds /\ cycle \in Cycles
  BY <1>1 DEF Idle, Cycles, Rounds
<1>7. fate \in Fates /\ state \in [ClosedIssue -> {"open", "fresh", "old"}]
  BY <1>1 DEF Fates
<1>8. NoticeTypeOK
  BY <1>1, <1>4, <1>5, <1>6, <1>7 DEF NoticeTypeOK, Days, Cycles, Fates, Rounds
<1> QED
  BY <1>1, <1>8
  DEF NoticeInv, AnnouncedIsNotified, PostedIsLast, ToldOnce

(* The world changes nothing of the daemon's, and no day passes in a cycle.  *)
LEMMA StepNoticeWorld ==
  ASSUME NoticeInv, UNCHANGED <<day, posted, notified, kept, announced, cycle, last, repeated, fate>>,
         round' \in Rounds, state' \in [ClosedIssue -> {"open", "fresh", "old"}], merging' \subseteq MergeRequest,
         nine' \in BOOLEAN, noticeTrouble' \in 0..MaxNoticeTrouble, slot' \in {slot, None}
  PROVE  NoticeInv'
<1>1. NoticeTypeOK'
  BY DEF NoticeInv, NoticeTypeOK, Rounds
<1> QED
  BY <1>1 DEF NoticeInv, AnnouncedIsNotified, PostedIsLast, ToldOnce, DayOfMonth

LEMMA StepClock ==
  ASSUME NoticeInv, Clock
  PROVE  NoticeInv'
<1>1. CASE ~nine /\ nine' = TRUE /\ UNCHANGED <<day, posted>>
  <2>1. UNCHANGED <<day, posted, round, notified, kept, announced, cycle, last, repeated, fate,
                    slot, state, merging, noticeTrouble>>
    BY <1>1 DEF Clock, files, closings
  <2>2. /\ round' \in Rounds /\ state' \in [ClosedIssue -> {"open", "fresh", "old"}] /\ merging' \subseteq MergeRequest
        /\ noticeTrouble' \in 0..MaxNoticeTrouble
    BY <2>1 DEF NoticeInv, NoticeTypeOK, Rounds
  <2> QED
    BY <1>1, <2>1, <2>2, StepNoticeWorld
<1>2. CASE nine /\ day < MaxDay /\ day' = day + 1 /\ nine' = FALSE /\ posted' = FALSE
  <2>1. UNCHANGED <<state, merging, closings, cycle, last, files, repeated, noticeTrouble>>
    BY DEF Clock
  <2>2. day' \in 0..MaxDay
    BY <1>2, NoticeAssumption DEF NoticeInv, NoticeTypeOK
  <2>3. NoticeTypeOK'
    BY <1>2, <2>1, <2>2 DEF NoticeInv, NoticeTypeOK, closings, files
  <2> QED
    BY <1>2, <2>1, <2>3
    DEF NoticeInv, AnnouncedIsNotified, PostedIsLast, ToldOnce, closings
<1> QED
  BY <1>1, <1>2 DEF Clock

(* checkClosedIssues.  What is announced was not notified, so not announced. *)
LEMMA StepCloses ==
  ASSUME NoticeInv, CheckClosed \/ Passes \/ Announces \/ SaveNotified
  PROVE  NoticeInv'
<1>1. /\ round \in Rounds /\ notified \subseteq ClosedIssue
      /\ announced \subseteq ClosedIssue /\ announced \subseteq notified /\ repeated = {}
      /\ Cardinality(kept) <= NotifiedLimit /\ kept \subseteq ClosedIssue
  BY DEF NoticeInv, NoticeTypeOK, AnnouncedIsNotified, ToldOnce, Rounds
<1>2. UNCHANGED world /\ UNCHANGED schedule
  BY DEF CheckClosed, Passes, Announces, SaveNotified
<1>3. ASSUME round' \in Rounds,
             notified' \subseteq ClosedIssue, announced' \subseteq notified',
             kept' \subseteq ClosedIssue, Cardinality(kept') <= NotifiedLimit, repeated' = {},
             fate' \in Fates, slot' \in Notice \cup {None},
             noticeTrouble' \in 0..MaxNoticeTrouble
      PROVE  NoticeInv'
  <2>1. NoticeTypeOK'
    BY <1>2, <1>3 DEF NoticeInv, NoticeTypeOK, world, schedule, Fates, Rounds
  <2> QED
    BY <1>2, <1>3, <2>1 DEF NoticeInv, AnnouncedIsNotified, PostedIsLast,
                            ToldOnce, world, schedule, DayOfMonth
<1>4. /\ fate \in Fates /\ slot \in Notice \cup {None}
      /\ noticeTrouble \in 0..MaxNoticeTrouble
  BY DEF NoticeInv, NoticeTypeOK, Fates
<1>5. CASE CheckClosed
  <2>1. CloseList \subseteq ClosedIssue
    BY DEF CloseList
  <2>2. round' = [on |-> TRUE, rest |-> CloseList,
                  fresh |-> {i \in CloseList : state[i] = "fresh"}]
        /\ UNCHANGED <<notified, kept, announced, fate, slot, repeated, noticeTrouble>>
    BY <1>5 DEF CheckClosed, files
  <2>3. round' \in Rounds
    BY <2>1, <2>2 DEF Rounds
  <2> QED
    BY <1>1, <1>3, <1>4, <2>2, <2>3
<1>6. CASE Passes
  <2>1. UNCHANGED <<notified, kept, announced, fate, slot, repeated, noticeTrouble>>
    BY <1>6 DEF Passes, files
  <2>2. round' \in Rounds
    BY <1>1, <1>6 DEF Passes, Rounds
  <2> QED
    BY <1>1, <1>3, <1>4, <2>1, <2>2
<1>7. CASE Announces
  <2> DEFINE i == Max(round.rest)
  <2>1. /\ round.rest # {} /\ i \notin notified /\ kept' = kept
        /\ round' = [round EXCEPT !.rest = @ \ {i}, !.fresh = @ \ {i}]
        /\ \/ /\ NotifyDalroot(i) /\ notified' = notified \cup {i}
              /\ announced' = announced \cup {i}
              /\ repeated' = repeated \cup ({i} \cap announced)
              /\ UNCHANGED noticeTrouble
           \/ WriteFails /\ UNCHANGED <<notified, announced, repeated>>
    BY <1>7 DEF Announces
  <2>2. i \in ClosedIssue
    <3>1. round.rest \in SUBSET Nat /\ round.rest \subseteq ClosedIssue /\ IsFiniteSet(round.rest)
      BY <1>1, NoticeAssumption, FS_Subset DEF Rounds
    <3> QED
      BY <2>1, <3>1, GreatestIn
  <2> HIDE DEF i
  <2>3. round' \in Rounds
    BY <1>1, <2>1 DEF Rounds
  <2>4. CASE /\ NotifyDalroot(i) /\ notified' = notified \cup {i}
             /\ announced' = announced \cup {i}
             /\ repeated' = repeated \cup ({i} \cap announced)
             /\ UNCHANGED noticeTrouble
    <3>1. fate' \in Fates /\ slot' \in Notice \cup {None}
      BY <2>2, <2>4, NotifyTypes DEF NoticeInv, Notice
    <3>2. repeated' = {}
      BY <1>1, <2>1, <2>4
    <3> QED
      BY <1>1, <1>3, <1>4, <2>1, <2>2, <2>3, <2>4, <3>1, <3>2
  <2>5. CASE WriteFails /\ UNCHANGED <<notified, announced, repeated>>
    <3>1. NoticeTrouble /\ UNCHANGED <<fate, slot>>
      BY <2>5 DEF WriteFails, files
    <3>2. noticeTrouble' \in 0..MaxNoticeTrouble
      BY <3>1, NoticeTroubled DEF NoticeInv
    <3> QED
      BY <1>1, <1>3, <1>4, <2>1, <2>3, <2>5, <3>1, <3>2
  <2> QED
    BY <2>1, <2>4, <2>5
<1>8. CASE SaveNotified
  <2>1. /\ round' = Idle /\ UNCHANGED <<notified, announced, fate, slot, repeated>>
        /\ \/ /\ IF Cardinality(notified) <= NotifiedLimit THEN kept' = notified
                 ELSE kept' \in kSubset(NotifiedLimit, notified)
              /\ UNCHANGED noticeTrouble
           \/ NoticeTrouble /\ UNCHANGED kept
    BY <1>8 DEF SaveNotified, files
  <2>2. kept' \subseteq ClosedIssue /\ Cardinality(kept') <= NotifiedLimit
    <3>1. CASE kept' = notified /\ Cardinality(notified) <= NotifiedLimit
      BY <1>1, <3>1
    <3>2. CASE kept' \in kSubset(NotifiedLimit, notified)
      <4>1. kept' \subseteq notified /\ Cardinality(kept') = NotifiedLimit
        BY <2>1, <3>2 DEF kSubset
      <4> QED
        BY <1>1, <4>1, NoticeAssumption
    <3>3. CASE kept' = kept
      BY <1>1, <3>3
    <3> QED
      BY <2>1, <3>1, <3>2, <3>3
  <2>3. round' \in Rounds
    BY <2>1 DEF Idle, Rounds
  <2>4. noticeTrouble' \in 0..MaxNoticeTrouble
    BY <1>4, <2>1, NoticeTroubled DEF NoticeInv
  <2> QED
    BY <1>1, <1>3, <1>4, <2>1, <2>2, <2>3, <2>4
<1> QED
  BY <1>5, <1>6, <1>7, <1>8

(* The scheduled cycle.  A summary is due only when none was posted today.   *)
LEMMA StepCycle ==
  ASSUME NoticeInv, Begin \/ AskMerge \/ NoSummary \/ Summary \/ SaveSummary
  PROVE  NoticeInv'
<1>1. /\ cycle \in Cycles /\ merging \subseteq MergeRequest /\ last \in Days
      /\ DayOfMonth \in 1..Month /\ repeated = {} /\ posted \in BOOLEAN
  BY DayIsOfMonth DEF NoticeInv, NoticeTypeOK, Cycles, Days, ToldOnce
<1>2. UNCHANGED world /\ UNCHANGED closings
  BY DEF Begin, AskMerge, NoSummary, Summary, SaveSummary
<1>3. ASSUME cycle' \in Cycles, last' \in Days, posted' \in BOOLEAN, repeated' = {},
             posted' => last'.memory = DayOfMonth,
             fate' \in Fates, slot' \in Notice \cup {None},
             noticeTrouble' \in 0..MaxNoticeTrouble
      PROVE  NoticeInv'
  <2>1. NoticeTypeOK'
    BY <1>2, <1>3 DEF NoticeInv, NoticeTypeOK, world, closings, Fates, Cycles, Days
  <2>2. DayOfMonth' = DayOfMonth
    BY <1>2 DEF world, DayOfMonth
  <2> QED
    BY <1>2, <1>3, <2>1, <2>2 DEF NoticeInv, AnnouncedIsNotified, PostedIsLast,
                                  ToldOnce, closings
<1>4. /\ fate \in Fates /\ slot \in Notice \cup {None} /\ noticeTrouble \in 0..MaxNoticeTrouble
      /\ posted => last.memory = DayOfMonth
  BY DEF NoticeInv, NoticeTypeOK, Fates, PostedIsLast
<1>5. CASE Begin
  <2>1. /\ cycle.at = "idle" /\ cycle' = [at |-> "ask", rest |-> merging]
        /\ UNCHANGED <<last, posted, fate, slot, repeated, noticeTrouble>>
    BY <1>5 DEF Begin, files
  <2>2. cycle' \in Cycles
    BY <1>1, <2>1 DEF Cycles
  <2> QED
    BY <1>1, <1>3, <1>4, <2>1, <2>2
<1>6. CASE AskMerge
  <2>1. PICK p \in cycle.rest :
          /\ cycle' = [cycle EXCEPT !.rest = @ \ {p}]
          /\ \/ NotifyDalroot(p) /\ UNCHANGED noticeTrouble
             \/ WriteFails
    BY <1>6 DEF AskMerge
  <2>2. p \in Notice /\ cycle' \in Cycles /\ cycle'.at = cycle.at
    BY <1>1, <2>1 DEF Cycles, Notice
  <2>3. UNCHANGED <<last, posted, repeated>>
    BY <1>6 DEF AskMerge
  <2>4. CASE NotifyDalroot(p) /\ UNCHANGED noticeTrouble
    <3>1. fate' \in Fates /\ slot' \in Notice \cup {None}
      BY <2>2, <2>4, NotifyTypes DEF NoticeInv
    <3> QED
      BY <1>1, <1>3, <1>4, <2>2, <2>3, <2>4, <3>1
  <2>5. CASE WriteFails
    <3>1. NoticeTrouble /\ UNCHANGED <<fate, slot>>
      BY <2>5 DEF WriteFails, files
    <3>2. noticeTrouble' \in 0..MaxNoticeTrouble
      BY <3>1, NoticeTroubled DEF NoticeInv
    <3> QED
      BY <1>1, <1>3, <1>4, <2>2, <2>3, <3>1, <3>2
  <2> QED
    BY <2>1, <2>4, <2>5
<1>7. CASE NoSummary
  <2>1. /\ cycle.at = "ask" /\ cycle' = [cycle EXCEPT !.at = "idle"]
        /\ UNCHANGED <<last, posted, fate, slot, repeated, noticeTrouble>>
    BY <1>7 DEF NoSummary, files
  <2>2. cycle' \in Cycles
    BY <1>1, <2>1 DEF Cycles
  <2> QED
    BY <1>1, <1>3, <1>4, <2>1, <2>2
<1>8. CASE Summary
  <2>1. /\ cycle' = [cycle EXCEPT !.at = "save"] /\ last.memory # DayOfMonth
        /\ last' = [last EXCEPT !.memory = DayOfMonth] /\ posted' = TRUE
        /\ repeated' = IF posted THEN repeated \cup {Daily} ELSE repeated
        /\ UNCHANGED <<fate, slot, noticeTrouble>>
    BY <1>8 DEF Summary, SummaryDue, files
  <2>2. ~posted
    BY <1>4, <2>1
  <2>3. cycle' \in Cycles /\ cycle'.at = "save"
    BY <1>1, <2>1 DEF Cycles
  <2>4. last' \in Days /\ last'.memory = DayOfMonth
    BY <1>1, <2>1 DEF Days
  <2>5. repeated' = {}
    BY <1>1, <2>1, <2>2
  <2> QED
    BY <1>3, <1>4, <2>1, <2>3, <2>4, <2>5
<1>9. CASE SaveSummary
  <2>1. /\ cycle' = [cycle EXCEPT !.at = "idle"]
        /\ \/ last' = [last EXCEPT !.file = last.memory] /\ UNCHANGED noticeTrouble
           \/ NoticeTrouble /\ UNCHANGED last
        /\ UNCHANGED <<posted, fate, slot, repeated>>
    BY <1>9 DEF SaveSummary, files
  <2>2. cycle' \in Cycles
    BY <1>1, <2>1 DEF Cycles
  <2>3. last' \in Days /\ last'.memory = last.memory
    BY <1>1, <2>1 DEF Days
  <2>4. noticeTrouble' \in 0..MaxNoticeTrouble
    BY <1>4, <2>1, NoticeTroubled DEF NoticeInv
  <2> QED
    BY <1>1, <1>3, <1>4, <2>1, <2>2, <2>3, <2>4
<1> QED
  BY <1>5, <1>6, <1>7, <1>8, <1>9

(* A crash takes back what the files do not have, and forgets it was said.   *)
LEMMA StepNoticeCrash ==
  ASSUME NoticeInv, NoticeCrash
  PROVE  NoticeInv'
<1>1. /\ round' = Idle /\ notified' = kept /\ announced' = announced \cap kept
      /\ cycle' = [at |-> "idle", rest |-> {}]
      /\ last' = [last EXCEPT !.memory = last.file]
      /\ posted' = (posted /\ last.file = DayOfMonth)
      /\ UNCHANGED <<state, merging, day, nine, kept, fate, slot, repeated>> /\ NoticeTrouble
  BY DEF NoticeCrash, Reload, world, files
<1>2. last \in Days /\ posted \in BOOLEAN
  BY DEF NoticeInv, NoticeTypeOK, Days
<1>3. last' \in Days /\ last'.memory = last.file /\ last'.file = last.file
  BY <1>1, <1>2 DEF Days
<1>4. /\ round' \in Rounds /\ cycle' \in Cycles
      /\ posted' \in BOOLEAN
  BY <1>1, <1>2 DEF Idle, Cycles, Rounds
<1>5. noticeTrouble' \in 0..MaxNoticeTrouble
  BY <1>1, NoticeTroubled DEF NoticeInv
<1>6. NoticeTypeOK'
  BY <1>1, <1>3, <1>4, <1>5 DEF NoticeInv, NoticeTypeOK, Days, Cycles, Rounds
<1>7. posted' => last'.memory = DayOfMonth
  BY <1>1, <1>3 DEF NoticeInv, PostedIsLast
<1>8. DayOfMonth' = DayOfMonth
  BY <1>1 DEF DayOfMonth
<1> QED
  BY <1>1, <1>3, <1>6, <1>7, <1>8
  DEF NoticeInv, AnnouncedIsNotified, PostedIsLast, ToldOnce

LEMMA StepNotice == NoticeInv /\ [NoticeNext]_noticeVars => NoticeInv'
<1> SUFFICES ASSUME NoticeInv, [NoticeNext]_noticeVars PROVE NoticeInv'
  OBVIOUS
<1> USE DEF closings, schedule, files, world
<1>1. /\ round \in Rounds /\ state \in [ClosedIssue -> {"open", "fresh", "old"}] /\ merging \subseteq MergeRequest
      /\ nine \in BOOLEAN /\ noticeTrouble \in 0..MaxNoticeTrouble
  BY DEF NoticeInv, NoticeTypeOK, Rounds
<1>2. ASSUME NEW i \in ClosedIssue, Closes(i) PROVE NoticeInv'
  BY <1>1, <1>2, StepNoticeWorld DEF Closes
<1>3. ASSUME NEW i \in ClosedIssue, GetsOld(i) PROVE NoticeInv'
  <2>1. round' \in Rounds
    BY <1>1, <1>3 DEF GetsOld, Rounds
  <2> QED
    BY <1>1, <1>3, <2>1, StepNoticeWorld DEF GetsOld
<1>4. ASSUME NEW i \in ClosedIssue, Reopens(i) PROVE NoticeInv'
  <2>1. noticeTrouble' \in 0..MaxNoticeTrouble
    BY <1>4, NoticeTroubled DEF NoticeInv, Reopens
  <2> QED
    BY <1>1, <1>4, <2>1, StepNoticeWorld DEF Reopens
<1>5. ASSUME NEW p \in MergeRequest, Approved(p) PROVE NoticeInv'
  BY <1>1, <1>5, StepNoticeWorld DEF Approved
<1>6. ASSUME NEW p \in MergeRequest, Merged(p) PROVE NoticeInv'
  BY <1>1, <1>6, StepNoticeWorld DEF Merged
<1>7. CASE Millisecond
  BY <1>1, <1>7, StepNoticeWorld DEF Millisecond
<1>8. CASE UNCHANGED noticeVars
  BY <1>1, <1>8, StepNoticeWorld DEF noticeVars
<1> QED
  BY <1>2, <1>3, <1>4, <1>5, <1>6, <1>7, <1>8, StepClock, StepCloses, StepCycle,
     StepNoticeCrash DEF NoticeNext

(* The notices (dalroot_notifier.go, scheduled_dalroot.go): type correctness *)
(* and what memory and files remember of what was said.                      *)
THEOREM NoticeInvariant == NoticeSpec => []NoticeInv
BY InitNotice, StepNotice, PTL DEF NoticeSpec

(* No issue is announced twice and no summary posted twice a day, unless a   *)
(* crash came when the file did not say so: for any number of issues, any    *)
(* limit of the file and any length of the month.                            *)
THEOREM NotToldTwice == NoticeSpec => []ToldOnce
BY NoticeInvariant, PTL DEF NoticeInv

-----------------------------------------------------------------------------
(* Claims and credential syncs.  Whatever was on file at some time, the file *)
(* has a number as high; the highest number given is in memory.              *)
HighestOnFile == \A n \in filed : \E k \in DOMAIN claims.file : claims.file[k].id >= n
HighestInMemory ==
  /\ \A n \in Ids(claims.memory) : n <= seq
  /\ seq = 0 \/ seq \in Ids(claims.memory)

ClaimInv == ClaimTypeOK /\ HighestOnFile /\ HighestInMemory /\ NumbersMoveOn

Handlers == [at : {"away", "filed", "denied"}, claim : 0..MaxId]
Syncs == [at : {"free", "start", "run", "ok", "stale", "failed"}, claim : 0..MaxId]
(* What the steps of a reporter, of the host or of a sync leave in order.    *)
RestTyped ==
  /\ handler' \in [Reporter -> Handlers] /\ sync' \in [Slot -> Syncs]
  /\ cooling' \in BOOLEAN /\ valid' \in BOOLEAN

LEMMA ClaimTroubled ==
  ASSUME ClaimTypeOK, ClaimTrouble
  PROVE  claimTrouble' \in 0..MaxClaimTrouble
BY ClaimAssumption DEF ClaimTypeOK, ClaimTrouble

LEMMA ClaimShape ==
  ASSUME ClaimTypeOK
  PROVE  /\ claims.memory \in Seq(Claim) /\ claims.file \in Seq(Claim)
         /\ Len(claims.memory) <= MaxClaims /\ Len(claims.file) <= MaxClaims
         /\ seq \in 0..MaxId /\ filed \subseteq 1..MaxId
         /\ MaxId \in Nat /\ MaxClaims \in Nat \ {0}
         /\ handler \in [Reporter -> Handlers] /\ sync \in [Slot -> Syncs]
         /\ cooling \in BOOLEAN /\ valid \in BOOLEAN /\ claimTrouble \in 0..MaxClaimTrouble
BY ClaimAssumption DEF ClaimTypeOK, Book, Handlers, Syncs

LEMMA IdsAreNumbers ==
  ASSUME NEW list \in Seq(Claim)
  PROVE  /\ Ids(list) \subseteq 1..MaxId
         /\ \A k \in DOMAIN list : list[k].id \in Ids(list)
<1>1. \A k \in DOMAIN list : list[k] \in Claim
  OBVIOUS
<1> QED
  BY <1>1 DEF Ids, Claim

(* save: whether it gets to the file or not.                                 *)
LEMMA SaveKeeps ==
  ASSUME ClaimInv, NEW list \in Seq(Claim), Len(list) <= MaxClaims, SaveClaims(list),
         seq' \in 0..MaxId, seq' >= seq, \A n \in Ids(list) : n <= seq',
         seq' = 0 \/ seq' \in Ids(list), RestTyped
  PROVE  ClaimInv'
<1>1. /\ claims.memory \in Seq(Claim) /\ claims.file \in Seq(Claim)
      /\ Len(claims.file) <= MaxClaims /\ filed \subseteq 1..MaxId /\ MaxId \in Nat
      /\ seq \in 0..MaxId /\ claimTrouble \in 0..MaxClaimTrouble
  BY ClaimShape DEF ClaimInv
<1>2. /\ Ids(list) \subseteq 1..MaxId /\ \A k \in DOMAIN list : list[k].id \in Ids(list)
  BY IdsAreNumbers
<1>3. \/ /\ claims' = [memory |-> list, file |-> list]
         /\ filed' = filed \cup Ids(list) /\ claimTrouble' = claimTrouble
      \/ /\ claims' = [memory |-> list, file |-> claims.file]
         /\ filed' = filed /\ ClaimTrouble
  BY DEF SaveClaims, Saved, Unsaved
<1>4. claims'.memory = list /\ claims' \in Book(Claim)
      /\ Len(claims'.memory) <= MaxClaims /\ Len(claims'.file) <= MaxClaims
  BY <1>1, <1>3 DEF Book
<1>5. filed' \subseteq 1..MaxId /\ filed' \subseteq filed \cup Ids(list)
  BY <1>1, <1>2, <1>3
<1>6. claimTrouble' \in 0..MaxClaimTrouble
  BY <1>1, <1>3, ClaimTroubled DEF ClaimInv
<1>7. ClaimTypeOK'
  BY <1>4, <1>5, <1>6 DEF ClaimTypeOK, RestTyped, Handlers, Syncs
<1>8. NumbersMoveOn'
  <2> SUFFICES ASSUME NEW n \in filed' PROVE n <= seq'
    BY DEF NumbersMoveOn
  <2>1. n \in Nat /\ seq \in Nat /\ seq' \in Nat
    BY <1>1, <1>5
  <2>2. CASE n \in filed
    <3>1. n <= seq
      BY <2>2 DEF ClaimInv, NumbersMoveOn
    <3> QED
      BY <2>1, <3>1
  <2> QED
    BY <1>5, <2>2
<1>9. HighestInMemory'
  BY <1>4 DEF HighestInMemory, Ids
<1>10. HighestOnFile'
  <2>1. CASE claims'.file = list
    <3> SUFFICES ASSUME NEW n \in filed' PROVE \E k \in DOMAIN list : list[k].id >= n
      BY <2>1 DEF HighestOnFile
    <3>1. n \in Nat \ {0} /\ n <= seq' /\ seq' \in Nat
      BY <1>1, <1>5, <1>8 DEF NumbersMoveOn
    <3>2. seq' \in Ids(list)
      BY <3>1
    <3>3. PICK k \in DOMAIN list : seq' = list[k].id
      BY <3>2 DEF Ids
    <3> QED
      BY <3>1, <3>3
  <2>2. CASE claims'.file = claims.file /\ filed' = filed
    BY <2>2 DEF ClaimInv, HighestOnFile
  <2> QED
    BY <1>3, <2>1, <2>2
<1> QED
  BY <1>7, <1>8, <1>9, <1>10 DEF ClaimInv

(* Add puts a claim with the next number last and drops the oldest when there*)
(* are too many.                                                             *)
LEMMA AddKeeps ==
  ASSUME ClaimInv, NEW credential \in BOOLEAN, Add(credential), RestTyped
  PROVE  ClaimInv'
<1> DEFINE new == [id |-> seq + 1, credential |-> credential, status |-> "open"]
           all == Append(claims.memory, new)
           a == IF Len(all) > MaxClaims THEN 2 ELSE 1
           list == SubSeq(all, a, Len(all))
<1>1. /\ claims.memory \in Seq(Claim) /\ Len(claims.memory) <= MaxClaims
      /\ Len(claims.memory) \in Nat
      /\ seq \in 0..MaxId /\ MaxId \in Nat /\ MaxClaims \in Nat \ {0}
  BY ClaimShape DEF ClaimInv
<1>2. seq < MaxId /\ seq' = seq + 1 /\ SaveClaims(list)
  BY DEF Add
<1>3. seq + 1 \in 1..MaxId /\ seq' \in 0..MaxId /\ seq' >= seq
  BY <1>1, <1>2
<1>4. new \in Claim /\ new.id = seq + 1
  BY <1>3 DEF Claim, Status
<1> HIDE DEF new
<1>5. all \in Seq(Claim) /\ Len(all) = Len(claims.memory) + 1
      /\ all[Len(all)] = new /\ DOMAIN all = 1..Len(all)
      /\ \A k \in 1..Len(claims.memory) : all[k] = claims.memory[k]
  BY <1>1, <1>4
<1>6. ASSUME NEW k \in DOMAIN all PROVE all[k].id <= seq + 1
  <2>1. CASE k = Len(all)
    BY <1>1, <1>4, <1>5, <2>1
  <2>2. CASE k # Len(all)
    <3>1. k \in 1..Len(claims.memory) /\ k \in DOMAIN claims.memory
      BY <1>1, <1>5, <2>2
    <3>2. all[k].id \in Ids(claims.memory)
      BY <1>1, <1>5, <3>1, IdsAreNumbers
    <3>3. all[k].id <= seq /\ all[k].id \in 1..MaxId
      BY <1>1, <3>2, IdsAreNumbers DEF ClaimInv, HighestInMemory
    <3> QED
      BY <1>1, <3>3
  <2> QED
    BY <2>1, <2>2
<1> HIDE DEF all
<1>6a. /\ Len(all) \in Nat /\ Len(all) >= 1 /\ Len(all) <= MaxClaims + 1
       /\ MaxClaims \in Nat \ {0}
  BY <1>1, <1>5
<1>7. a \in {1, 2} /\ a <= Len(all) /\ Len(all) \in Nat /\ Len(all) + 1 - a <= MaxClaims
  BY <1>6a
<1> HIDE DEF a
<1>8. /\ list \in Seq(Claim) /\ Len(list) = Len(all) + 1 - a
      /\ DOMAIN list = 1..(Len(all) + 1 - a)
      /\ \A j \in 1..(Len(all) + 1 - a) : list[j] = all[a + j - 1]
  BY <1>5, <1>7
<1> HIDE DEF list
<1>9. ASSUME NEW n \in Ids(list) PROVE n <= seq'
  <2>1. PICK j \in DOMAIN list : n = list[j].id
    BY DEF Ids
  <2>2. a + j - 1 \in DOMAIN all /\ list[j] = all[a + j - 1]
    <3>1. j \in 1..(Len(all) + 1 - a)
      BY <1>8
    <3>2. a + j - 1 \in 1..Len(all)
      BY <1>7, <3>1
    <3>3. list[j] = all[a + j - 1]
      BY <1>8, <3>1
    <3>4. DOMAIN all = 1..Len(all)
      BY <1>5
    <3> QED
      BY <3>2, <3>3, <3>4
  <2> QED
    BY <1>2, <1>6, <2>1, <2>2
<1>10. seq' \in Ids(list)
  <2> DEFINE j == Len(all) + 1 - a
  <2>1. j \in DOMAIN list /\ a + j - 1 = Len(all)
    BY <1>7, <1>8
  <2>2. list[j].id = seq'
    BY <1>2, <1>4, <1>5, <1>8, <2>1
  <2> HIDE DEF j
  <2> QED
    BY <2>1, <2>2 DEF Ids
<1>11. Len(list) <= MaxClaims
  BY <1>7, <1>8
<1> QED
  BY <1>2, <1>3, <1>8, <1>9, <1>10, <1>11, SaveKeeps DEF RestTyped

(* A list in which claims are settled has the same numbers.                  *)
LEMMA SameIds ==
  ASSUME NEW s \in Seq(Claim), NEW f, f = [k \in DOMAIN s |-> f[k]],
         \A k \in DOMAIN s : f[k] \in Claim /\ f[k].id = s[k].id
  PROVE  f \in Seq(Claim) /\ Len(f) = Len(s) /\ Ids(f) = Ids(s)
<1>1. DOMAIN s = 1..Len(s) /\ Len(s) \in Nat
  OBVIOUS
<1>2. f = [k \in 1..Len(s) |-> f[k]]
  BY <1>1
<1>3. f \in [1..Len(s) -> Claim]
  BY <1>1, <1>2
<1>4. f \in Seq(Claim)
  BY <1>1, <1>3, SeqDef
<1>5. Len(f) \in Nat /\ 1..Len(f) = 1..Len(s)
  BY <1>2, <1>4
<1>6. ~(Len(f) < Len(s))
  <2>1. Len(f) < Len(s) => Len(s) \in 1..Len(s) \ 1..Len(f)
    BY <1>1, <1>5
  <2> QED
    BY <1>5, <2>1
<1>7. ~(Len(s) < Len(f))
  <2>1. Len(s) < Len(f) => Len(f) \in 1..Len(f) \ 1..Len(s)
    BY <1>1, <1>5
  <2> QED
    BY <1>5, <2>1
<1>8. DOMAIN f = DOMAIN s
  BY <1>1, <1>2
<1>9. Ids(f) = Ids(s)
  BY <1>8 DEF Ids
<1> QED
  BY <1>1, <1>4, <1>5, <1>6, <1>7, <1>9

(* What leaves the claims alone.                                             *)
LEMMA ClaimsUntouched ==
  ASSUME ClaimInv, UNCHANGED <<claims, seq, filed>>, RestTyped,
         claimTrouble' \in 0..MaxClaimTrouble
  PROVE  ClaimInv'
<1>1. ClaimTypeOK'
  BY DEF ClaimInv, ClaimTypeOK, RestTyped, Handlers, Syncs
<1>2. HighestOnFile'
  BY DEF ClaimInv, HighestOnFile
<1>3. HighestInMemory'
  BY DEF ClaimInv, HighestInMemory, Ids
<1>4. NumbersMoveOn'
  BY DEF ClaimInv, NumbersMoveOn
<1> QED
  BY <1>1, <1>2, <1>3, <1>4 DEF ClaimInv

LEMMA SettlingKeeps ==
  ASSUME ClaimInv, NEW f, f = [k \in DOMAIN claims.memory |-> f[k]],
         \A k \in DOMAIN claims.memory : f[k] \in Claim /\ f[k].id = claims.memory[k].id,
         SaveClaims(f), seq' = seq, RestTyped
  PROVE  ClaimInv'
<1>1. /\ claims.memory \in Seq(Claim) /\ Len(claims.memory) <= MaxClaims
      /\ seq \in 0..MaxId /\ MaxId \in Nat
  BY ClaimShape DEF ClaimInv
<1>2. f \in Seq(Claim) /\ Len(f) = Len(claims.memory) /\ Ids(f) = Ids(claims.memory)
  BY <1>1, SameIds
<1>3. /\ \A n \in Ids(f) : n <= seq'
      /\ seq' = 0 \/ seq' \in Ids(f)
      /\ seq' >= seq
  BY <1>1, <1>2 DEF ClaimInv, HighestInMemory
<1> QED
  BY <1>1, <1>2, <1>3, SaveKeeps

(* An answer: of the host, of a handler or of a sync.                        *)
LEMMA ClaimsResponded ==
  ASSUME ClaimInv, NEW id, NEW status \in Status, Respond(id, status), seq' = seq, RestTyped
  PROVE  ClaimInv'
<1> DEFINE f == [k \in DOMAIN claims.memory |->
                   IF claims.memory[k].id = id
                   THEN [claims.memory[k] EXCEPT !.status = status] ELSE claims.memory[k]]
<1>1. CASE id \in Ids(claims.memory)
  <2>1. SaveClaims(f)
    BY <1>1 DEF Respond
  <2>2. ASSUME NEW k \in DOMAIN claims.memory
        PROVE  f[k] \in Claim /\ f[k].id = claims.memory[k].id
    <3>1. claims.memory[k] \in Claim
      BY ClaimShape DEF ClaimInv
    <3> QED
      BY <3>1 DEF Claim
  <2>3. f = [k \in DOMAIN claims.memory |-> f[k]]
    OBVIOUS
  <2> HIDE DEF f
  <2> QED
    BY <2>1, <2>2, <2>3, SettlingKeeps DEF RestTyped
<1>2. CASE id \notin Ids(claims.memory)
  <2>1. UNCHANGED <<claims, filed, claimTrouble>>
    BY <1>2 DEF Respond
  <2> QED
    BY <2>1, ClaimsUntouched, ClaimShape DEF ClaimInv
<1> QED
  BY <1>1, <1>2

(* The sweep after a sync.                                                   *)
LEMMA ClaimsSwept ==
  ASSUME ClaimInv, NEW keep, ResolveStale(keep), seq' = seq, RestTyped
  PROVE  ClaimInv'
<1> DEFINE f == [k \in DOMAIN claims.memory |->
                   IF k \in Stale(keep)
                   THEN [claims.memory[k] EXCEPT !.status = "resolved"] ELSE claims.memory[k]]
<1>1. CASE Stale(keep) # {}
  <2>1. SaveClaims(f)
    BY <1>1 DEF ResolveStale
  <2>2. ASSUME NEW k \in DOMAIN claims.memory
        PROVE  f[k] \in Claim /\ f[k].id = claims.memory[k].id
    <3>1. claims.memory[k] \in Claim
      BY ClaimShape DEF ClaimInv
    <3> QED
      BY <3>1 DEF Claim, Status, Settled
  <2>3. f = [k \in DOMAIN claims.memory |-> f[k]]
    OBVIOUS
  <2> HIDE DEF f
  <2> QED
    BY <2>1, <2>2, <2>3, SettlingKeeps DEF RestTyped
<1>2. CASE Stale(keep) = {}
  <2>1. UNCHANGED <<claims, filed, claimTrouble>>
    BY <1>2 DEF ResolveStale
  <2> QED
    BY <2>1, ClaimsUntouched, ClaimShape DEF ClaimInv
<1> QED
  BY <1>1, <1>2

LEMMA InitClaim == ClaimInit => ClaimInv
<1> SUFFICES ASSUME ClaimInit PROVE ClaimInv
  OBVIOUS
<1>1. /\ claims = [memory |-> <<>>, file |-> <<>>] /\ seq = 0 /\ filed = {}
      /\ handler = [d \in Reporter |-> Away]
      /\ cooling = FALSE /\ sync = [s \in Slot |-> Free] /\ valid = TRUE
      /\ claimTrouble = 0
  BY DEF ClaimInit, NewBook
<1>2. MaxClaims \in Nat /\ 0 \in 0..MaxId /\ 0 \in 0..MaxClaimTrouble
  BY ClaimAssumption
<1>3. claims \in Book(Claim) /\ Len(claims.memory) = 0 /\ Len(claims.file) = 0
      /\ Ids(claims.memory) = {}
  BY <1>1 DEF Book, Ids
<1>4. handler \in [Reporter -> Handlers] /\ sync \in [Slot -> Syncs]
  BY <1>1, <1>2 DEF Handlers, Syncs, Away, Free
<1>5. Len(claims.memory) <= MaxClaims /\ Len(claims.file) <= MaxClaims
      /\ seq \in 0..MaxId /\ claimTrouble \in 0..MaxClaimTrouble
  BY <1>1, <1>2, <1>3
<1>6. ClaimTypeOK
  BY <1>1, <1>3, <1>4, <1>5 DEF ClaimTypeOK, Handlers, Syncs
<1> QED
  BY <1>1, <1>3, <1>6 DEF ClaimInv, HighestOnFile, HighestInMemory, NumbersMoveOn

LEMMA StepReporter ==
  ASSUME ClaimInv, NEW d \in Reporter,
         Reports(d) \/ HandlerSyncs(d) \/ HandlerDenied(d) \/ HandlerAnswers(d)
  PROVE  ClaimInv'
<1>1. /\ handler \in [Reporter -> Handlers] /\ sync \in [Slot -> Syncs]
      /\ cooling \in BOOLEAN /\ valid \in BOOLEAN /\ claimTrouble \in 0..MaxClaimTrouble
      /\ seq \in 0..MaxId /\ MaxId \in Nat
  BY ClaimShape DEF ClaimInv
<1>2. handler[d] \in Handlers /\ handler[d].claim \in 0..MaxId /\ Away \in Handlers
  BY <1>1 DEF Handlers, Away
<1>3. CASE Reports(d)
  <2>1. UNCHANGED <<cooling, sync, valid>>
    BY <1>3 DEF Reports
  <2>2. CASE /\ Add(TRUE)
             /\ handler' = [handler EXCEPT ![d] = [at |-> "filed", claim |-> seq + 1]]
    <3>1. seq + 1 \in 0..MaxId
      BY <1>1, <2>2 DEF Add
    <3>2. [at |-> "filed", claim |-> seq + 1] \in Handlers
      BY <3>1 DEF Handlers
    <3>3. RestTyped
      BY <1>1, <2>1, <2>2, <3>2 DEF RestTyped
    <3> QED
      BY <2>2, <3>3, AddKeeps
  <2>3. CASE ClaimTrouble /\ UNCHANGED <<store, handler>>
    <3>1. claimTrouble' \in 0..MaxClaimTrouble
      BY <2>3, ClaimTroubled DEF ClaimInv
    <3>2. RestTyped
      BY <1>1, <2>1, <2>3 DEF RestTyped
    <3> QED
      BY <2>3, <3>1, <3>2, ClaimsUntouched DEF store
  <2> QED
    BY <1>3, <2>2, <2>3 DEF Reports
<1>4. CASE HandlerSyncs(d)
  <2>1. /\ handler' = [handler EXCEPT ![d] = Away] /\ cooling' = TRUE
        /\ UNCHANGED <<claims, seq, filed, valid, claimTrouble>>
        /\ sync' = [sync EXCEPT ![CHOOSE s \in Slot : sync[s] = Free] =
                       [at |-> "start", claim |-> handler[d].claim]]
    BY <1>4 DEF HandlerSyncs, RequestSync, Reserve, store
  <2>2. handler' \in [Reporter -> Handlers]
    BY <1>1, <1>2, <2>1
  <2>3. [at |-> "start", claim |-> handler[d].claim] \in Syncs
    BY <1>2 DEF Syncs
  <2>4. sync' \in [Slot -> Syncs]
    BY <1>1, <2>1, <2>3
  <2> QED
    BY <1>1, <2>1, <2>2, <2>4, ClaimsUntouched DEF RestTyped
<1>5. CASE HandlerDenied(d)
  <2>1. /\ handler' = [handler EXCEPT ![d].at = "denied"]
        /\ UNCHANGED <<claims, seq, filed, cooling, sync, valid, claimTrouble>>
    BY <1>5 DEF HandlerDenied, store
  <2>2. handler' \in [Reporter -> Handlers]
    BY <1>1, <1>2, <2>1 DEF Handlers
  <2> QED
    BY <1>1, <2>1, <2>2, ClaimsUntouched DEF RestTyped
<1>6. CASE HandlerAnswers(d)
  <2>1. /\ handler' = [handler EXCEPT ![d] = Away]
        /\ Respond(handler[d].claim, "acknowledged")
        /\ UNCHANGED <<seq, cooling, sync, valid>>
    BY <1>6 DEF HandlerAnswers
  <2>2. handler' \in [Reporter -> Handlers]
    BY <1>1, <1>2, <2>1
  <2>3. RestTyped /\ "acknowledged" \in Status
    BY <1>1, <2>1, <2>2 DEF RestTyped, Status
  <2> QED
    BY <2>1, <2>3, ClaimsResponded DEF RestTyped
<1> QED
  BY <1>3, <1>4, <1>5, <1>6

LEMMA StepSync ==
  ASSUME ClaimInv, NEW s \in Slot,
         \/ SyncStarts(s) \/ SyncWorks(s) \/ SyncBreaks(s) \/ SyncResolves(s)
         \/ SyncSweeps(s) \/ SyncRejects(s)
  PROVE  ClaimInv'
<1>1. /\ handler \in [Reporter -> Handlers] /\ sync \in [Slot -> Syncs]
      /\ cooling \in BOOLEAN /\ valid \in BOOLEAN /\ claimTrouble \in 0..MaxClaimTrouble
  BY ClaimShape DEF ClaimInv
<1>2. sync[s] \in Syncs /\ Free \in Syncs
  BY <1>1, ClaimAssumption DEF Syncs, Free
<1>3. RestTyped /\ seq' = seq
  <2>1. /\ UNCHANGED <<seq, handler, cooling>> /\ valid' \in {valid, TRUE}
        /\ \/ sync' = [sync EXCEPT ![s] = Free]
           \/ \E y \in {"run", "ok", "failed", "stale"} : sync' = [sync EXCEPT ![s].at = y]
    BY DEF SyncStarts, SyncWorks, SyncBreaks, SyncResolves, SyncSweeps, SyncRejects, At, store
  <2>2. sync' \in [Slot -> Syncs]
    BY <1>1, <1>2, <2>1 DEF Syncs
  <2> QED
    BY <1>1, <2>1, <2>2 DEF RestTyped
<1>4. CASE SyncWorks(s) \/ SyncBreaks(s)
  <2>1. UNCHANGED <<claims, seq, filed>> /\ (claimTrouble' = claimTrouble \/ ClaimTrouble)
    BY <1>4 DEF SyncWorks, SyncBreaks, store
  <2>2. claimTrouble' \in 0..MaxClaimTrouble
    BY <1>1, <2>1, ClaimTroubled DEF ClaimInv
  <2> QED
    BY <1>3, <2>1, <2>2, ClaimsUntouched
<1>5. CASE SyncStarts(s) \/ SyncResolves(s) \/ SyncRejects(s)
  <2>1. PICK status \in {"acknowledged", "resolved", "rejected"} :
          Respond(sync[s].claim, status)
    BY <1>5 DEF SyncStarts, SyncResolves, SyncRejects
  <2>2. status \in Status
    BY DEF Status, Settled
  <2> QED
    BY <1>3, <2>1, <2>2, ClaimsResponded DEF RestTyped
<1>6. CASE SyncSweeps(s)
  BY <1>3, <1>6, ClaimsSwept DEF SyncSweeps, RestTyped
<1> QED
  BY <1>4, <1>5, <1>6

(* load: the numbers go on after the highest on file, which is as high as    *)
(* any that was ever there.                                                  *)
LEMMA StepClaimCrash ==
  ASSUME ClaimInv, ClaimCrash
  PROVE  ClaimInv'
<1> DEFINE N == Ids(claims.file) \cup {0}
<1>1. /\ seq' = Max(N) /\ UNCHANGED <<filed, valid>> /\ ClaimTrouble /\ cooling' = FALSE
      /\ claims' = [memory |-> claims.file, file |-> claims.file]
      /\ handler' = [d \in Reporter |-> Away] /\ sync' = [s \in Slot |-> Free]
  BY DEF ClaimCrash, LastId, Reread, Saved
<1>2. /\ MaxId \in Nat /\ claims.file \in Seq(Claim) /\ valid \in BOOLEAN
      /\ Len(claims.file) <= MaxClaims /\ filed \subseteq 1..MaxId
  BY ClaimShape DEF ClaimInv
<1>3. /\ Ids(claims.file) \subseteq 1..MaxId
      /\ \A k \in DOMAIN claims.file : claims.file[k].id \in Ids(claims.file)
  BY <1>2, IdsAreNumbers
<1>4. Max(N) \in N /\ \A n \in N : Max(N) >= n
  <2>1. IsFiniteSet(N) /\ N \in SUBSET Nat /\ N # {}
    <3>1. N \subseteq 0..MaxId /\ 0..MaxId \subseteq Nat
      BY <1>2, <1>3
    <3>2. IsFiniteSet(0..MaxId)
      BY <1>2, FS_Interval
    <3> QED
      BY <3>1, <3>2, FS_Subset
  <2> HIDE DEF N
  <2> QED
    BY <2>1, GreatestIn
<1>5. seq' \in 0..MaxId /\ (seq' = 0 \/ seq' \in Ids(claims.file))
      /\ \A n \in Ids(claims.file) : n <= seq'
  <2>1. seq' \in N /\ \A n \in N : seq' >= n
    BY <1>1, <1>4
  <2>2. N \subseteq 0..MaxId
    BY <1>2, <1>3
  <2>3. ASSUME NEW n \in Ids(claims.file) PROVE n <= seq'
    <3>1. seq' >= n /\ n \in Nat /\ seq' \in Nat
      BY <1>2, <2>1, <2>2
    <3> QED
      BY <3>1
  <2> QED
    BY <2>1, <2>2, <2>3
<1> HIDE DEF N
<1>6. handler' \in [Reporter -> Handlers] /\ sync' \in [Slot -> Syncs]
      /\ claimTrouble' \in 0..MaxClaimTrouble
  BY <1>1, <1>2, ClaimTroubled DEF Handlers, Syncs, Away, Free, ClaimInv
<1>7. claims' \in Book(Claim) /\ claims'.memory = claims.file /\ claims'.file = claims.file
  BY <1>1, <1>2 DEF Book
<1>8. ClaimTypeOK'
  BY <1>1, <1>2, <1>5, <1>6, <1>7 DEF ClaimTypeOK, Handlers, Syncs
<1>9. HighestInMemory'
  BY <1>5, <1>7 DEF HighestInMemory, Ids
<1>10. HighestOnFile'
  BY <1>1, <1>7 DEF ClaimInv, HighestOnFile
<1>11. ASSUME NEW n \in filed' PROVE n <= seq'
  <2>1. PICK k \in DOMAIN claims.file : claims.file[k].id >= n
    BY <1>1 DEF ClaimInv, HighestOnFile
  <2>2. claims.file[k].id \in 1..MaxId /\ claims.file[k].id <= seq' /\ n \in 1..MaxId
    BY <1>1, <1>2, <1>3, <1>5
  <2> QED
    BY <1>2, <1>5, <2>1, <2>2
<1> QED
  BY <1>8, <1>9, <1>10, <1>11 DEF ClaimInv, NumbersMoveOn

LEMMA StepClaim == ClaimInv /\ [ClaimNext]_claimVars => ClaimInv'
<1> SUFFICES ASSUME ClaimInv, [ClaimNext]_claimVars PROVE ClaimInv'
  OBVIOUS
<1>1. /\ handler \in [Reporter -> Handlers] /\ sync \in [Slot -> Syncs]
      /\ cooling \in BOOLEAN /\ valid \in BOOLEAN /\ claimTrouble \in 0..MaxClaimTrouble
      /\ MaxId \in Nat
  BY ClaimShape DEF ClaimInv
<1>2. CASE OtherClaim
  <2>1. Add(FALSE) /\ RestTyped
    BY <1>1, <1>2 DEF OtherClaim, RestTyped
  <2> QED
    BY <2>1, AddKeeps
<1>3. CASE HostResponds
  <2>1. PICK k \in DOMAIN claims.memory, status \in {"acknowledged"} \cup Settled :
          Respond(claims.memory[k].id, status)
    BY <1>3 DEF HostResponds
  <2>2. RestTyped /\ seq' = seq /\ status \in Status
    BY <1>1, <1>3 DEF HostResponds, Status, RestTyped
  <2> QED
    BY <2>1, <2>2, ClaimsResponded DEF RestTyped
<1>4. CASE Expires
  <2>1. claimTrouble' \in 0..MaxClaimTrouble
    BY <1>4, ClaimTroubled DEF Expires, ClaimInv
  <2> QED
    BY <1>1, <1>4, <2>1, ClaimsUntouched DEF Expires, store, RestTyped
<1>5. CASE Cools
  BY <1>1, <1>5, ClaimsUntouched DEF Cools, store, RestTyped
<1>6. CASE WatcherAsks
  <2>1. /\ cooling' = TRUE /\ UNCHANGED <<claims, seq, filed, handler, valid, claimTrouble>>
        /\ sync' = [sync EXCEPT ![CHOOSE s \in Slot : sync[s] = Free] =
                       [at |-> "start", claim |-> 0]]
    BY <1>6 DEF WatcherAsks, RequestSync, Reserve, store
  <2>2. [at |-> "start", claim |-> 0] \in Syncs
    BY <1>1 DEF Syncs
  <2>3. sync' \in [Slot -> Syncs]
    BY <1>1, <2>1, <2>2
  <2> QED
    BY <1>1, <2>1, <2>3, ClaimsUntouched DEF RestTyped
<1>7. CASE UNCHANGED claimVars
  BY <1>1, <1>7, ClaimsUntouched DEF claimVars, RestTyped
<1> QED
  BY <1>2, <1>3, <1>4, <1>5, <1>6, <1>7, StepReporter, StepSync, StepClaimCrash DEF ClaimNext

(* The claims (claim.go, credential_ops.go): type correctness, and a file    *)
(* that has the highest number that ever was on it.                          *)
THEOREM ClaimInvariant == ClaimSpec => []ClaimInv
BY InitClaim, StepClaim, PTL DEF ClaimSpec

(* No number that was ever on file is given again, for any number of claims, *)
(* any limit, and whichever saves fail before a restart.                     *)
THEOREM NumbersNeverReused == ClaimSpec => []NumbersMoveOn
BY ClaimInvariant, PTL DEF ClaimInv

-----------------------------------------------------------------------------
(* The clients of `tell`.  A client waits while the daemon works for it, and *)
(* only the leader is woken.                                                 *)
Tells == [at : {"new", "ps", "sleep", "wake", "hand", "direct", "send", "ack", "flow"}
                 \cup Over, dal : TellDal]
Requests == [at : {"none", "find", "stop", "delete", "check", "clean", "run", "register",
                   "ok", "error"}, on : 0..MaxContainer]
Fits(a, b) ==
  /\ b.at \in {"find", "stop", "delete"} => a.at \in {"sleep", "failed"}
  /\ b.at \in {"check", "clean", "run", "register"} => a.at \in {"wake", "hand", "failed"}
  /\ b.at \in {"ok", "error"} => a.at \in {"sleep", "wake", "hand", "failed"}
  /\ b.at \in {"clean", "run", "register"} => a.dal = TellLeader

(* A client that is to wake the leader again, or to hear that it is not.     *)
Owes(a, b) ==
  /\ a.dal = TellLeader
  /\ \/ a.at = "sleep" /\ b.at \in {"delete", "ok", "error"}
     \/ a.at \in {"wake", "hand"} /\ b.at \in {"check", "clean", "run", "error"}
Blamed(a, b) == a.at = "failed" \/ Owes(a, b)
DownIsOwed == box[TellLeader] = 0 => \E t \in Teller : Blamed(tell[t], request[t])

TellInv ==
  /\ TellTypeOK /\ DownIsOwed
  /\ \A t \in Teller : Fits(tell[t], request[t]) /\ request[t].on <= started

LEMMA TellTroubled ==
  ASSUME TellTypeOK, TellTrouble
  PROVE  tellTrouble' \in 0..MaxTellTrouble
BY TellAssumption DEF TellTypeOK, TellTrouble

LEMMA TellShape ==
  ASSUME TellTypeOK
  PROVE  /\ tell \in [Teller -> Tells] /\ request \in [Teller -> Requests]
         /\ started \in Nat /\ started <= MaxContainer /\ MaxContainer \in Nat
         /\ mapped \in [TellDal -> 0..started] /\ box \in [TellDal -> 0..started]
         /\ TellLeader \in TellDal /\ tellTrouble \in 0..MaxTellTrouble
BY TellAssumption DEF TellTypeOK, Tells, Requests

LEMMA InitTell == TellInit => TellInv
<1> SUFFICES ASSUME TellInit PROVE TellInv
  OBVIOUS
<1>1. /\ tell = [t \in Teller |-> [at |-> "new", dal |-> TellLeader]]
      /\ request = [t \in Teller |-> NoRequest]
      /\ box = [d \in TellDal |-> IF d = TellLeader THEN 1 ELSE 0] /\ mapped = box
      /\ started = 1 /\ idle = {} /\ tellTrouble = 0
  BY DEF TellInit
<1>2. TellLeader \in TellDal /\ 1 \in 0..MaxContainer /\ 0 \in 0..MaxContainer
      /\ 0 \in 0..MaxTellTrouble /\ 0 \in 0..1 /\ 1 \in 0..1 /\ 0 <= 1
  BY TellAssumption
<1>3. tell \in [Teller -> Tells] /\ request \in [Teller -> Requests]
  BY <1>1, <1>2 DEF Tells, Requests, NoRequest
<1>4. box \in [TellDal -> 0..started] /\ mapped \in [TellDal -> 0..started]
  BY <1>1, <1>2
<1>5. TellTypeOK
  BY <1>1, <1>2, <1>3, <1>4 DEF TellTypeOK, Tells, Requests
<1>6. box[TellLeader] # 0
  BY <1>1, <1>2
<1>7. ASSUME NEW t \in Teller PROVE Fits(tell[t], request[t]) /\ request[t].on <= started
  BY <1>1, <1>2 DEF Fits, NoRequest
<1> QED
  BY <1>5, <1>6, <1>7 DEF TellInv, DownIsOwed

(* A step of one client, or of the daemon for it: the leader is not down, or *)
(* that is owed by this client, or as before by another.                     *)
LEMMA TellMoves ==
  ASSUME TellInv, NEW t \in Teller,
         tell' \in [Teller -> Tells], request' \in [Teller -> Requests],
         \A u \in Teller \ {t} : tell'[u] = tell[u] /\ request'[u] = request[u],
         started' \in Nat, started <= started', started' <= MaxContainer,
         mapped' \in [TellDal -> 0..started'], box' \in [TellDal -> 0..started'],
         idle' = idle, tellTrouble' \in 0..MaxTellTrouble,
         Fits(tell'[t], request'[t]), request'[t].on <= started',
         box'[TellLeader] = 0 =>
           \/ Blamed(tell'[t], request'[t])
           \/ box[TellLeader] = 0 /\ ~Blamed(tell[t], request[t])
  PROVE  TellInv'
<1>1. idle \subseteq 1..started /\ started \in Nat
  BY TellShape DEF TellInv, TellTypeOK
<1>2. idle' \subseteq 1..started'
  BY <1>1
<1>3. TellTypeOK'
  BY <1>2 DEF TellTypeOK, Tells, Requests
<1>4. DownIsOwed'
  <2> SUFFICES ASSUME box'[TellLeader] = 0,
                      ~Blamed(tell'[t], request'[t])
               PROVE  \E u \in Teller : Blamed(tell'[u], request'[u])
    BY DEF DownIsOwed
  <2>1. box[TellLeader] = 0 /\ ~Blamed(tell[t], request[t])
    OBVIOUS
  <2>2. PICK u \in Teller : Blamed(tell[u], request[u])
    BY <2>1 DEF TellInv, DownIsOwed
  <2>3. tell'[u] = tell[u] /\ request'[u] = request[u]
    BY <2>1, <2>2
  <2> QED
    BY <2>2, <2>3
<1>5. ASSUME NEW u \in Teller
      PROVE  Fits(tell'[u], request'[u]) /\ request'[u].on <= started'
  <2>1. CASE u = t
    BY <2>1
  <2>2. CASE u # t
    <3>1. Fits(tell[u], request[u]) /\ request[u].on <= started /\ request[u].on \in Nat
      BY TellShape DEF TellInv, Requests
    <3>2. tell'[u] = tell[u] /\ request'[u] = request[u]
      BY <2>2
    <3> QED
      BY <1>1, <3>1, <3>2
  <2> QED
    BY <2>1, <2>2
<1> QED
  BY <1>3, <1>4, <1>5 DEF TellInv

(* The client's own steps.                                                   *)
ClientSteps(t) ==
  \/ TellStarts(t) \/ WakeByHand(t) \/ TellLooks(t) \/ TellAsksWake(t)
  \/ TellWoke(t) \/ TellRefused(t) \/ TellGivesUp(t) \/ TellUnheard(t) \/ TellBridge(t)
  \/ TellSends(t) \/ TellWaited(t) \/ TellTriggers(t)

LEMMA ClientTypes ==
  ASSUME TellInv, NEW t \in Teller, ClientSteps(t)
  PROVE  /\ tell' \in [Teller -> Tells] /\ request' \in [Teller -> Requests]
         /\ \A u \in Teller \ {t} : tell'[u] = tell[u] /\ request'[u] = request[u]
         /\ UNCHANGED machine /\ tellTrouble' \in 0..MaxTellTrouble
         /\ request'[t].on = request[t].on \/ request'[t].on = 0
<1>1. /\ tell \in [Teller -> Tells] /\ request \in [Teller -> Requests]
      /\ 0 \in 0..MaxContainer /\ tellTrouble \in 0..MaxTellTrouble
  BY TellShape DEF TellInv
<1>2. UNCHANGED machine
  BY DEF ClientSteps, TellStarts, WakeByHand, TellLooks, TellAsksWake, TellWoke, TellRefused,
         TellGivesUp, TellUnheard, TellBridge, TellSends, TellWaited, TellTriggers
<1>3. tellTrouble' \in 0..MaxTellTrouble
  BY <1>1, TellTroubled
  DEF ClientSteps, TellStarts, WakeByHand, TellLooks, TellAsksWake, TellWoke, TellRefused,
      TellGivesUp, TellUnheard, TellBridge, TellSends, TellWaited, TellTriggers, TellInv
<1>4. \/ tell' = tell
      \/ \E place \in {"new", "ps", "sleep", "wake", "hand", "direct", "send", "ack", "flow"}
                        \cup Over : Goes(t, place)
      \/ \E d \in TellDal, place \in {"ps", "send", "direct"} :
           tell' = [tell EXCEPT ![t] = [at |-> place, dal |-> d]]
  BY DEF ClientSteps, TellStarts, WakeByHand, TellLooks, TellAsksWake, TellWoke, TellRefused,
         TellGivesUp, TellUnheard, TellBridge, TellSends, TellWaited, TellTriggers, Over
<1>5. tell' \in [Teller -> Tells] /\ \A u \in Teller \ {t} : tell'[u] = tell[u]
  BY <1>1, <1>4 DEF Goes, Tells, Over
<1>6. \/ request' = request
      \/ \E place \in {"none", "find", "check"} :
           request' = [request EXCEPT ![t] = [at |-> place, on |-> 0]]
  BY DEF ClientSteps, TellStarts, WakeByHand, TellLooks, TellAsksWake, TellWoke, TellRefused,
         TellGivesUp, TellUnheard, TellBridge, TellSends, TellWaited, TellTriggers, NoRequest
<1>7. \A place \in {"none", "find", "check"} : [at |-> place, on |-> 0] \in Requests
  BY <1>1 DEF Requests
<1>8. /\ request' \in [Teller -> Requests]
      /\ \A u \in Teller \ {t} : request'[u] = request[u]
      /\ request'[t].on = request[t].on \/ request'[t].on = 0
  BY <1>1, <1>6, <1>7
<1> QED
  BY <1>2, <1>3, <1>5, <1>8

LEMMA ClientFits ==
  ASSUME TellInv, NEW t \in Teller, ClientSteps(t)
  PROVE  /\ Fits(tell'[t], request'[t])
         /\ Blamed(tell[t], request[t]) => Blamed(tell'[t], request'[t])
<1>1. /\ tell \in [Teller -> Tells] /\ request \in [Teller -> Requests]
      /\ Fits(tell[t], request[t])
  BY TellShape DEF TellInv
<1>2. tell[t] \in Tells /\ request[t] \in Requests
  BY <1>1
<1>3. ASSUME NEW place, Goes(t, place)
      PROVE  tell'[t].at = place /\ tell'[t].dal = tell[t].dal
  BY <1>1, <1>3 DEF Goes, Tells
<1>4. ASSUME NEW b, request' = [request EXCEPT ![t] = b] PROVE request'[t] = b
  BY <1>1, <1>4
<1>5. CASE TellStarts(t)
  <2>1. PICK d \in TellDal, place \in {"ps", "send", "direct"} :
          tell' = [tell EXCEPT ![t] = [at |-> place, dal |-> d]]
    BY <1>5 DEF TellStarts
  <2>2. tell'[t].at \in {"ps", "send", "direct"} /\ request' = request /\ tell[t].at = "new"
    BY <1>1, <1>5, <2>1 DEF TellStarts
  <2> QED
    BY <1>1, <2>2 DEF Fits, Blamed, Owes
<1>6. CASE WakeByHand(t)
  <2>1. tell[t].at = "new" /\ tell'[t].at = "hand" /\ request'[t].at = "check"
    BY <1>3, <1>4, <1>6 DEF WakeByHand
  <2> QED
    BY <2>1 DEF Fits, Blamed, Owes
<1>7. CASE TellLooks(t)
  <2>1. /\ tell[t].at = "ps"
        /\ \/ tell'[t].at = "sleep" /\ request'[t].at = "find"
           \/ tell'[t].at = "send" /\ request' = request
    BY <1>3, <1>4, <1>7 DEF TellLooks
  <2> QED
    BY <1>1, <2>1 DEF Fits, Blamed, Owes
<1>8. CASE TellAsksWake(t)
  <2>1. /\ tell[t].at = "sleep" /\ tell'[t].at = "wake" /\ request'[t].at = "check"
        /\ tell'[t].dal = tell[t].dal
    BY <1>3, <1>4, <1>8 DEF TellAsksWake
  <2> QED
    BY <2>1 DEF Fits, Blamed, Owes
<1>9. CASE TellWoke(t)
  <2>1. /\ tell[t].at \in {"wake", "hand"} /\ request[t].at = "ok"
        /\ request'[t] = NoRequest
    BY <1>4, <1>9 DEF TellWoke
  <2>2. request'[t].at = "none"
    BY <2>1 DEF NoRequest
  <2> QED
    BY <2>1, <2>2 DEF Fits, Blamed, Owes
<1>10. CASE TellRefused(t)
  <2>1. request[t].at = "error" /\ request'[t] = NoRequest
    BY <1>4, <1>10 DEF TellRefused
  <2>2. Goes(t, "failed") \/ (tell[t].at \in Over /\ tell' = tell)
    BY <1>10 DEF TellRefused
  <2>3. tell'[t].at = "failed"
    BY <1>1, <1>3, <2>1, <2>2 DEF Fits, Over
  <2>4. request'[t].at = "none"
    BY <2>1 DEF NoRequest
  <2> QED
    BY <2>3, <2>4 DEF Fits, Blamed
<1>11. CASE TellGivesUp(t)
  <2>1. tell'[t].at = "failed" /\ tell'[t].dal = tell[t].dal /\ request' = request
    BY <1>3, <1>11 DEF TellGivesUp
  <2> QED
    BY <1>1, <2>1 DEF Fits, Blamed
<1>12. CASE TellUnheard(t)
  <2>1. tell[t].at \in Over /\ tell' = tell /\ request'[t].at = "none" /\ request[t].at = "ok"
    BY <1>4, <1>12 DEF TellUnheard, NoRequest
  <2> QED
    BY <2>1 DEF Fits, Blamed, Owes, Over
<1>13. CASE TellBridge(t) \/ TellSends(t) \/ TellWaited(t) \/ TellTriggers(t)
  <2>1. tell[t].at \in {"direct", "send", "ack", "flow"} /\ request' = request
    BY <1>13 DEF TellBridge, TellSends, TellWaited, TellTriggers
  <2>2. ~(request[t].at \in {"find", "stop", "delete", "check", "clean", "run", "register",
                             "ok", "error"})
    BY <1>1, <2>1 DEF Fits
  <2> QED
    BY <2>1, <2>2 DEF Fits, Blamed, Owes
<1> QED
  BY <1>5, <1>6, <1>7, <1>8, <1>9, <1>10, <1>11, <1>12, <1>13 DEF ClientSteps

LEMMA StepClient ==
  ASSUME TellInv, NEW t \in Teller, ClientSteps(t)
  PROVE  TellInv'
<1>1. /\ tell' \in [Teller -> Tells] /\ request' \in [Teller -> Requests]
      /\ \A u \in Teller \ {t} : tell'[u] = tell[u] /\ request'[u] = request[u]
      /\ UNCHANGED <<mapped, box, started, idle>> /\ tellTrouble' \in 0..MaxTellTrouble
      /\ request'[t].on = request[t].on \/ request'[t].on = 0
  BY ClientTypes DEF machine
<1>2. /\ Fits(tell'[t], request'[t])
      /\ Blamed(tell[t], request[t]) => Blamed(tell'[t], request'[t])
  BY ClientFits
<1>3. /\ started \in Nat /\ started <= MaxContainer
      /\ mapped \in [TellDal -> 0..started] /\ box \in [TellDal -> 0..started]
  BY TellShape DEF TellInv
<1>4. request'[t].on <= started' /\ started <= started'
  BY <1>1, <1>3 DEF TellInv
<1> QED
  BY <1>1, <1>2, <1>3, <1>4, TellMoves

(* The daemon, for a client.                                                 *)
DaemonSteps(t) ==
  \/ SleepFinds(t) \/ SleepStops(t) \/ SleepDeletes(t) \/ WakeChecks(t)
  \/ WakeCleans(t) \/ WakeRuns(t) \/ WakeRegisters(t)

LEMMA StepDaemon ==
  ASSUME TellInv, NEW t \in Teller, DaemonSteps(t)
  PROVE  TellInv'
<1> DEFINE d == tell[t].dal
           n == request[t].on
<1>1. /\ tell \in [Teller -> Tells] /\ request \in [Teller -> Requests]
      /\ started \in Nat /\ started <= MaxContainer /\ MaxContainer \in Nat
      /\ mapped \in [TellDal -> 0..started] /\ box \in [TellDal -> 0..started]
      /\ TellLeader \in TellDal /\ tellTrouble \in 0..MaxTellTrouble
      /\ Fits(tell[t], request[t]) /\ n <= started
  BY TellShape DEF TellInv
<1>2. /\ d \in TellDal /\ n \in Nat /\ request[t] \in Requests /\ tell[t] \in Tells
      /\ mapped[d] \in Nat /\ mapped[d] <= started /\ 0 <= started /\ started <= started
  BY <1>1 DEF Tells, Requests
<1>3. tell' = tell
  BY DEF DaemonSteps, SleepFinds, SleepStops, SleepDeletes, WakeChecks, WakeCleans, WakeRuns,
         WakeRegisters
<1>4. ASSUME TellTrouble \/ UNCHANGED tellTrouble PROVE tellTrouble' \in 0..MaxTellTrouble
  BY <1>1, <1>4, TellTroubled DEF TellInv
(* The request moves on, and the containers with it.                         *)
<1>5. ASSUME NEW b \in Requests, request' = [request EXCEPT ![t] = b],
             started' \in Nat, started <= started', started' <= MaxContainer,
             mapped' \in [TellDal -> 0..started'], box' \in [TellDal -> 0..started'],
             idle' = idle, TellTrouble \/ UNCHANGED tellTrouble,
             Fits(tell[t], b), b.on <= started',
             box'[TellLeader] = 0 =>
               Blamed(tell[t], b) \/ (box[TellLeader] = 0 /\ ~Blamed(tell[t], request[t]))
      PROVE  TellInv'
  <2>1. request' \in [Teller -> Requests] /\ request'[t] = b
        /\ \A u \in Teller \ {t} : request'[u] = request[u]
    BY <1>1, <1>5
  <2>2. tellTrouble' \in 0..MaxTellTrouble
    BY <1>4, <1>5
  <2>3. tell' \in [Teller -> Tells] /\ tell'[t] = tell[t]
        /\ \A u \in Teller \ {t} : tell'[u] = tell[u]
    BY <1>1, <1>3
  <2> QED
    BY <1>5, <2>1, <2>2, <2>3, TellMoves
<1>6. ASSUME NEW a \in {"stop", "delete", "check", "clean", "run", "register", "ok", "error"},
             NEW m \in 0..MaxContainer
      PROVE  [at |-> a, on |-> m] \in Requests
  BY <1>6 DEF Requests
<1>7. ASSUME NEW a, Answers(t, a)
      PROVE  request' = [request EXCEPT ![t] = [at |-> a, on |-> n]]
  <2>1. [request[t] EXCEPT !.at = a] = [at |-> a, on |-> n]
    BY <1>2 DEF Requests
  <2> QED
    BY <1>7, <2>1 DEF Answers
<1>8. n \in 0..MaxContainer /\ mapped[d] \in 0..MaxContainer /\ 0 \in 0..MaxContainer
  BY <1>1, <1>2
<1> HIDE DEF d, n
<1>9. CASE SleepFinds(t)
  <2> DEFINE b == IF mapped[d] = 0 THEN [at |-> "error", on |-> 0]
                                   ELSE [at |-> "stop", on |-> mapped[d]]
  <2>1. /\ request[t].at = "find" /\ request' = [request EXCEPT ![t] = b]
        /\ UNCHANGED <<mapped, box, started, idle, tellTrouble>>
    BY <1>9 DEF SleepFinds, machine, d
  <2>2. b \in Requests /\ b.at \in {"error", "stop"} /\ b.on <= started
    BY <1>2, <1>6, <1>8
  <2>3. tell[t].at \in {"sleep", "failed"}
    BY <1>1, <2>1 DEF Fits
  <2> HIDE DEF b
  <2>4. Fits(tell[t], b)
    BY <2>2, <2>3 DEF Fits
  <2>5. Blamed(tell[t], request[t]) => Blamed(tell[t], b)
    BY <2>1, <2>3 DEF Blamed, Owes
  <2> QED
    BY <1>1, <1>2, <1>5, <2>1, <2>2, <2>4, <2>5
<1>10. CASE SleepStops(t)
  <2>1. request[t].at = "stop" /\ UNCHANGED <<mapped, started, idle>>
    BY <1>10 DEF SleepStops
  <2>2. tell[t].at \in {"sleep", "failed"}
    BY <1>1, <2>1 DEF Fits
  <2>3. Blamed(tell[t], request[t]) => tell[t].at = "failed"
    BY <2>1, <2>2 DEF Blamed, Owes
  <2>4. CASE /\ Answers(t, "delete") /\ box' = [box EXCEPT ![d] = 0]
             /\ UNCHANGED tellTrouble
    <3> DEFINE b == [at |-> "delete", on |-> n]
    <3>1. request' = [request EXCEPT ![t] = b] /\ b \in Requests
      BY <1>6, <1>7, <1>8, <2>4
    <3>2. box' \in [TellDal -> 0..started]
      BY <1>1, <1>2, <2>4
    <3>3. Fits(tell[t], b) /\ b.on <= started
      BY <1>1, <2>2 DEF Fits
    <3>4. box'[TellLeader] = 0 =>
            Blamed(tell[t], b) \/ (box[TellLeader] = 0 /\ ~Blamed(tell[t], request[t]))
      <4>1. CASE d = TellLeader
        BY <2>2, <4>1 DEF Blamed, Owes, d
      <4>2. CASE d # TellLeader
        <5>1. box'[TellLeader] = box[TellLeader]
          BY <1>1, <2>4, <4>2
        <5>2. Blamed(tell[t], request[t]) => Blamed(tell[t], b)
          BY <2>3 DEF Blamed
        <5> QED
          BY <5>1, <5>2
      <4> QED
        BY <4>1, <4>2
    <3> HIDE DEF b
    <3> QED
      BY <1>1, <1>2, <1>5, <2>1, <2>4, <3>1, <3>2, <3>3, <3>4
  <2>5. CASE Answers(t, "error") /\ UNCHANGED box /\ (TellTrouble \/ UNCHANGED tellTrouble)
    <3> DEFINE b == [at |-> "error", on |-> n]
    <3>1. request' = [request EXCEPT ![t] = b] /\ b \in Requests
      BY <1>6, <1>7, <1>8, <2>5
    <3>2. Fits(tell[t], b) /\ b.on <= started
      BY <1>1, <2>2 DEF Fits
    <3>3. Blamed(tell[t], request[t]) => Blamed(tell[t], b)
      BY <2>3 DEF Blamed
    <3> HIDE DEF b
    <3> QED
      BY <1>1, <1>2, <1>5, <2>1, <2>5, <3>1, <3>2, <3>3
  <2> QED
    BY <1>10, <2>4, <2>5 DEF SleepStops, d, n
<1>11. CASE SleepDeletes(t)
  <2> DEFINE b == [at |-> "ok", on |-> n]
  <2>1. /\ request[t].at = "delete" /\ request' = [request EXCEPT ![t] = b]
        /\ b \in Requests /\ mapped' = [mapped EXCEPT ![d] = 0]
        /\ UNCHANGED <<box, started, idle, tellTrouble>>
    BY <1>6, <1>7, <1>8, <1>11 DEF SleepDeletes, d
  <2>2. tell[t].at \in {"sleep", "failed"}
    BY <1>1, <2>1 DEF Fits
  <2>3. Fits(tell[t], b) /\ b.on <= started
    BY <1>1, <2>2 DEF Fits
  <2>4. Blamed(tell[t], request[t]) => Blamed(tell[t], b)
    BY <2>1, <2>2 DEF Blamed, Owes
  <2>5. mapped' \in [TellDal -> 0..started]
    BY <1>1, <1>2, <2>1
  <2> HIDE DEF b
  <2> QED
    BY <1>1, <1>2, <1>5, <2>1, <2>3, <2>4, <2>5
<1>12. CASE WakeChecks(t)
  <2> DEFINE a == IF d = TellLeader /\ mapped[TellLeader] = 0 THEN "clean" ELSE "error"
             b == [at |-> a, on |-> n]
  <2>1. /\ request[t].at = "check" /\ Answers(t, a)
        /\ UNCHANGED <<mapped, box, started, idle, tellTrouble>>
    BY <1>12 DEF WakeChecks, machine, d
  <2>2. a \in {"clean", "error"} /\ (a = "clean" => d = TellLeader)
    OBVIOUS
  <2>3. tell[t].at \in {"wake", "hand", "failed"}
    BY <1>1, <2>1 DEF Fits
  <2> HIDE DEF a
  <2>4. request' = [request EXCEPT ![t] = b] /\ b \in Requests
    BY <1>6, <1>7, <1>8, <2>1, <2>2
  <2>5. Fits(tell[t], b) /\ b.on <= started
    BY <1>1, <2>2, <2>3 DEF Fits, d
  <2>6. Blamed(tell[t], request[t]) => Blamed(tell[t], b)
    BY <2>1, <2>2, <2>3 DEF Blamed, Owes
  <2> HIDE DEF b
  <2> QED
    BY <1>1, <1>2, <1>5, <2>1, <2>4, <2>5, <2>6
<1>13. CASE WakeCleans(t)
  <2> DEFINE b == [at |-> "run", on |-> n]
  <2>1. /\ request[t].at = "clean" /\ request' = [request EXCEPT ![t] = b]
        /\ b \in Requests /\ box' = [box EXCEPT ![d] = 0]
        /\ UNCHANGED <<mapped, started, idle, tellTrouble>>
    BY <1>6, <1>7, <1>8, <1>13 DEF WakeCleans, d
  <2>2. tell[t].at \in {"wake", "hand", "failed"} /\ d = TellLeader
    BY <1>1, <2>1 DEF Fits, d
  <2>3. Fits(tell[t], b) /\ b.on <= started
    BY <1>1, <2>2 DEF Fits, d
  <2>4. Blamed(tell[t], b)
    BY <2>2 DEF Blamed, Owes, d
  <2>5. box' \in [TellDal -> 0..started]
    BY <1>1, <1>2, <2>1
  <2> HIDE DEF b
  <2> QED
    BY <1>1, <1>2, <1>5, <2>1, <2>3, <2>4, <2>5
<1>14. CASE WakeRuns(t)
  <2>1. request[t].at = "run" /\ UNCHANGED <<mapped, idle>>
    BY <1>14 DEF WakeRuns
  <2>2. tell[t].at \in {"wake", "hand", "failed"} /\ d = TellLeader
    BY <1>1, <2>1 DEF Fits, d
  <2>3. CASE /\ started < MaxContainer
             /\ started' = started + 1 /\ box' = [box EXCEPT ![d] = started']
             /\ request' = [request EXCEPT ![t] = [at |-> "register", on |-> started']]
             /\ UNCHANGED tellTrouble
    <3> DEFINE m == started + 1
               b == [at |-> "register", on |-> m]
    <3>1. /\ m \in Nat /\ started <= m /\ m <= MaxContainer /\ m # 0
          /\ m \in 0..MaxContainer /\ m \in 0..m /\ 0..started \subseteq 0..m
      BY <1>1, <2>3
    <3>2. started' = m /\ request' = [request EXCEPT ![t] = b] /\ box' = [box EXCEPT ![d] = m]
      BY <2>3
    <3> HIDE DEF m
    <3>3. b \in Requests /\ b.on <= m
      BY <1>6, <3>1
    <3>4. Fits(tell[t], b)
      BY <2>2 DEF Fits, d
    <3>5. box' \in [TellDal -> 0..m] /\ box'[TellLeader] # 0
      BY <1>1, <1>2, <2>2, <3>1, <3>2
    <3>6. mapped' \in [TellDal -> 0..m]
      BY <1>1, <2>1, <3>1
    <3> HIDE DEF b
    <3> QED
      BY <1>5, <2>1, <2>3, <3>1, <3>2, <3>3, <3>4, <3>5, <3>6
  <2>4. CASE Answers(t, "error") /\ UNCHANGED <<box, started>>
             /\ (TellTrouble \/ UNCHANGED tellTrouble)
    <3> DEFINE b == [at |-> "error", on |-> n]
    <3>1. request' = [request EXCEPT ![t] = b] /\ b \in Requests
      BY <1>6, <1>7, <1>8, <2>4
    <3>2. Fits(tell[t], b) /\ b.on <= started
      BY <1>1, <2>2 DEF Fits
    <3>3. Blamed(tell[t], request[t]) => Blamed(tell[t], b)
      BY <2>2 DEF Blamed, Owes, d
    <3> HIDE DEF b
    <3> QED
      BY <1>1, <1>2, <1>5, <2>1, <2>4, <3>1, <3>2, <3>3
  <2> QED
    BY <1>14, <2>3, <2>4 DEF WakeRuns, d
<1>15. CASE WakeRegisters(t)
  <2> DEFINE b == [at |-> "ok", on |-> n]
  <2>1. /\ request[t].at = "register" /\ request' = [request EXCEPT ![t] = b]
        /\ b \in Requests /\ mapped' = [mapped EXCEPT ![d] = n]
        /\ UNCHANGED <<box, started, idle, tellTrouble>>
    BY <1>6, <1>7, <1>8, <1>15 DEF WakeRegisters, d, n
  <2>2. tell[t].at \in {"wake", "hand", "failed"}
    BY <1>1, <2>1 DEF Fits
  <2>3. Fits(tell[t], b) /\ b.on <= started
    BY <1>1, <2>2 DEF Fits
  <2>4. Blamed(tell[t], request[t]) => Blamed(tell[t], b)
    BY <2>1, <2>2 DEF Blamed, Owes
  <2>5. n \in 0..started
    BY <1>1, <1>2
  <2>6. mapped' \in [TellDal -> 0..started]
    BY <1>1, <1>2, <2>1, <2>5
  <2> HIDE DEF b
  <2> QED
    BY <1>1, <1>2, <1>5, <2>1, <2>3, <2>4, <2>6
<1> QED
  BY <1>9, <1>10, <1>11, <1>12, <1>13, <1>14, <1>15 DEF DaemonSteps

LEMMA StepTell == TellInv /\ [TellNext]_tellVars => TellInv'
<1> SUFFICES ASSUME TellInv, [TellNext]_tellVars PROVE TellInv'
  OBVIOUS
<1>1. /\ tell \in [Teller -> Tells] /\ request \in [Teller -> Requests]
      /\ started \in Nat /\ started <= MaxContainer /\ MaxContainer \in Nat
      /\ mapped \in [TellDal -> 0..started] /\ box \in [TellDal -> 0..started]
      /\ TellLeader \in TellDal /\ tellTrouble \in 0..MaxTellTrouble /\ idle \subseteq 1..started
  BY TellShape DEF TellInv, TellTypeOK
<1>2. ASSUME NEW d \in TellDal, HalfHour(d) PROVE TellInv'
  <2>1. /\ mapped[d] # 0 /\ idle' = idle \cup {mapped[d]}
        /\ UNCHANGED <<tell, request, mapped, box, started, tellTrouble>>
    BY <1>2 DEF HalfHour
  <2>2. mapped[d] \in 1..started
    BY <1>1, <2>1
  <2>3. idle' \subseteq 1..started'
    BY <1>1, <2>1, <2>2
  <2>4. TellTypeOK'
    BY <2>1, <2>3 DEF TellInv, TellTypeOK
  <2> QED
    BY <2>1, <2>4 DEF TellInv, DownIsOwed
<1>3. ASSUME NEW d \in TellDal, MemberRuns(d) PROVE TellInv'
  <2> DEFINE m == started + 1
  <2>1. /\ d # TellLeader /\ started < MaxContainer /\ started' = m
        /\ box' = [box EXCEPT ![d] = m] /\ mapped' = [mapped EXCEPT ![d] = m]
        /\ UNCHANGED <<tell, request, idle, tellTrouble>>
    BY <1>3 DEF MemberRuns
  <2>2. /\ m \in Nat /\ m \in 0..m /\ 0..started \subseteq 0..m /\ 1..started \subseteq 1..m
        /\ m \in 0..MaxContainer /\ started <= m
    BY <1>1, <2>1
  <2> HIDE DEF m
  <2>3. box' \in [TellDal -> 0..m] /\ mapped' \in [TellDal -> 0..m]
        /\ box'[TellLeader] = box[TellLeader]
    BY <1>1, <2>1, <2>2
  <2>4. TellTypeOK'
    BY <1>1, <2>1, <2>2, <2>3 DEF TellTypeOK, Tells, Requests
  <2>5. ASSUME NEW t \in Teller PROVE request[t].on <= m
    <3>1. request[t].on \in Nat /\ request[t].on <= started
      BY <1>1 DEF TellInv, Requests
    <3> QED
      BY <1>1, <2>2, <3>1
  <2> QED
    BY <2>1, <2>3, <2>4, <2>5 DEF TellInv, DownIsOwed
<1>4. CASE UNCHANGED tellVars
  <2>1. TellTypeOK'
    BY <1>4 DEF TellInv, tellVars, TellTypeOK
  <2> QED
    BY <1>4, <2>1 DEF TellInv, tellVars, DownIsOwed
<1> QED
  BY <1>2, <1>3, <1>4, StepClient, StepDaemon DEF TellNext, ClientSteps, DaemonSteps

(* The clients (cmd_tell.go): type correctness, and a leader that is down is *)
(* owed by a client that goes on, or was reported by one that failed.        *)
THEOREM TellInvariant == TellSpec => []TellInv
BY InitTell, StepTell, PTL DEF TellSpec

(* When all clients are through without an error the leader is awake, for    *)
(* any number of clients and dals and any order of sleeps and wakes.         *)
THEOREM NoSilentDown == TellSpec => []DownIsReported
<1>1. TellInv => DownIsReported
  <2> SUFFICES ASSUME TellInv, Quiet, \A t \in Teller : tell[t].at = "done",
                      box[TellLeader] = 0
               PROVE  FALSE
    BY DEF DownIsReported
  <2>1. PICK t \in Teller : Blamed(tell[t], request[t])
    BY DEF TellInv, DownIsOwed
  <2> QED
    BY <2>1 DEF Blamed, Owes
<1> QED
  BY <1>1, TellInvariant, PTL

-----------------------------------------------------------------------------
(* The pipeline of dalroot. *)

PanePlaces == {"none", "look", "create", "store", "save", "open", "write", "rename", "post"}
PaneCalls == [at : PanePlaces, sync : BOOLEAN, panes : SUBSET Pane]
PaneSaves == [set : SUBSET Pane, fd : Paper \cup {0}]
PaneContents == [whole : BOOLEAN, set : SUBSET Pane]

(* What is registered, on its way to the file or in it, exists.             *)
PanesExist ==
  /\ \A c \in Caller : snapshot[c].set \subseteq exists
  /\ \A c \in Caller : call[c].at = "store" => call[c].panes \subseteq exists
  /\ \A f \in Paper : written[f].set \subseteq exists

(* A save that has not written yet will write what is registered: nothing   *)
(* is registered meanwhile.                                                 *)
SnapshotIsCurrent ==
  \A c \in Caller :
    /\ call[c].at \in {"open", "write"} => snapshot[c].set = channels
    /\ call[c].at = "write" => snapshot[c].fd # 0

(* A file that holds every registered pane, or will when a save has written.*)
PaneHolds(f) ==
  \/ written[f].set = channels
  \/ \E c \in Caller : call[c].at = "write" /\ snapshot[c].fd = f
FileHolds == IF paneFile = 0 THEN channels = {} ELSE PaneHolds(paneFile)

TmpApart == paneTmp # 0 => paneTmp # paneFile

(* Unless a save has failed: while one is past its open path.tmp is such a  *)
(* file ...                                                                 *)
TmpHolds ==
  paneTmp # 0 /\ (\E c \in Caller : call[c].at \in {"write", "rename"})
    => PaneHolds(paneTmp)

(* ... and when path is not, path.tmp will come in its place.               *)
Mended ==
  \/ FileHolds
  \/ \E c \in Caller : call[c].at \in {"save", "open"}
  \/ /\ paneTmp # 0
     /\ \E c \in Caller : \/ call[c].at = "write" /\ snapshot[c].fd = paneTmp
                          \/ call[c].at = "rename"

PaneInv ==
  /\ PaneTypeOK /\ PanesExist /\ SnapshotIsCurrent /\ TmpApart
  /\ spoiled \/ (TmpHolds /\ Mended)

-----------------------------------------------------------------------------
LEMMA PaneShape ==
  PaneTypeOK <=>
    /\ channels \subseteq exists /\ exists \subseteq Pane
    /\ call \in [Caller -> PaneCalls] /\ snapshot \in [Caller -> PaneSaves]
    /\ paneTmp \in Paper \cup {0} /\ paneFile \in Paper \cup {0}
    /\ written \in [Paper -> PaneContents] /\ spoiled \in BOOLEAN
    /\ paneTrouble \in 0..MaxPaneTrouble
BY DEF PaneTypeOK, PaneCalls, PanePlaces, PaneSaves, PaneContents

(* A request that moves on is a request for the same panes.                 *)
LEMMA CallMoves ==
  ASSUME NEW k \in PaneCalls, NEW a \in PanePlaces
  PROVE  /\ [k EXCEPT !.at = a] \in PaneCalls
         /\ [k EXCEPT !.at = a].at = a
         /\ [k EXCEPT !.at = a].panes = k.panes
BY DEF PaneCalls

LEMMA PaneTroubled ==
  ASSUME paneTrouble \in 0..MaxPaneTrouble, PaneTrouble
  PROVE  paneTrouble' \in 0..MaxPaneTrouble
BY PaneAssumption DEF PaneTrouble

(* There is a file to open: every caller has at most one open.              *)
LEMMA PaperLeft ==
  ASSUME PaneTypeOK, paneTmp = 0
  PROVE  FreePaper # {}
<1> DEFINE fds == {snapshot[b].fd : b \in Caller}
           taken == fds \cup {paneFile}
           f == [b \in Caller |-> snapshot[b].fd]
<1>1. /\ IsFiniteSet(Caller) /\ IsFiniteSet(Paper) /\ 0 \notin Paper
      /\ Cardinality(Paper) >= Cardinality(Caller) + 2
  BY PaneAssumption
<1>2. Cardinality(Caller) \in Nat /\ Cardinality(Paper) \in Nat
  BY <1>1, FS_CardinalityType
<1>3. f \in Surjection(Caller, fds)
  BY DEF Surjection
<1>4. IsFiniteSet(fds) /\ Cardinality(fds) <= Cardinality(Caller)
  <2> HIDE DEF f, fds
  <2> QED
    BY <1>1, <1>3, FS_Surjection
<1>5. Cardinality(fds) \in Nat
  <2> HIDE DEF fds
  <2> QED
    BY <1>4, FS_CardinalityType
<1>6. IsFiniteSet(taken) /\ Cardinality(taken) <= Cardinality(Caller) + 1
  <2> HIDE DEF fds
  <2>1. /\ IsFiniteSet(fds \cup {paneFile})
        /\ Cardinality(fds \cup {paneFile}) =
             IF paneFile \in fds THEN Cardinality(fds) ELSE Cardinality(fds) + 1
    BY <1>4, FS_AddElement
  <2> QED
    BY <1>2, <1>4, <1>5, <2>1
<1>7. ~(Paper \subseteq taken)
  <2> HIDE DEF taken
  <2>1. Cardinality(taken) \in Nat
    BY <1>6, FS_CardinalityType
  <2>2. Paper \subseteq taken => Cardinality(Paper) <= Cardinality(taken)
    BY <1>6, FS_Subset
  <2> QED
    BY <1>1, <1>2, <1>6, <2>1, <2>2
<1>8. PICK q \in Paper : q \notin taken
  BY <1>7
<1>9. q # 0 /\ q # paneFile /\ q \notin fds
  BY <1>1, <1>8
<1> QED
  BY <1>8, <1>9 DEF FreePaper

LEMMA InitPane == PaneInit => PaneInv
<1> SUFFICES ASSUME PaneInit
             PROVE  PaneInv
  OBVIOUS
<1>1. NoCall \in PaneCalls /\ NoSave \in PaneSaves /\ Torn \in PaneContents
  BY DEF NoCall, NoSave, Torn, PaneCalls, PanePlaces, PaneSaves, PaneContents
<1>2. PaneTypeOK
  <2>1. /\ channels = {} /\ exists = {} /\ paneTmp = 0 /\ paneFile = 0
    BY DEF PaneInit
  <2>3. spoiled \in BOOLEAN /\ paneTrouble = 0
    BY DEF PaneInit
  <2>4. 0 \in 0..MaxPaneTrouble
    BY PaneAssumption
  <2>2. /\ call \in [Caller -> PaneCalls] /\ snapshot \in [Caller -> PaneSaves]
        /\ written \in [Paper -> PaneContents]
    BY <1>1 DEF PaneInit
  <2> QED
    BY <2>1, <2>2, <2>3, <2>4, PaneShape
<1> QED
  BY <1>2 DEF PaneInit, PaneInv, PanesExist, SnapshotIsCurrent, TmpApart, TmpHolds, Mended, FileHolds,
              NoCall, NoSave, Torn

-----------------------------------------------------------------------------
(* Steps that change neither the panes nor a save: what a request does      *)
(* before it registers its pane, and after it has saved.                    *)
LEMMA StepPaneElsewhere ==
  ASSUME PaneInv, NEW c \in Caller, call' \in [Caller -> PaneCalls],
         \A b \in Caller \ {c} : call'[b] = call[b],
         call[c].at \in {"none", "look", "create", "post"},
         call'[c].at \in {"none", "look", "create", "store", "post"},
         call'[c].at = "store" => call'[c].panes \subseteq exists',
         exists \subseteq exists', exists' \subseteq Pane,
         paneTrouble' \in 0..MaxPaneTrouble,
         UNCHANGED <<channels, disk>>
  PROVE  PaneInv'
<1>1. UNCHANGED <<channels, snapshot, paneTmp, paneFile, written, spoiled>>
  BY DEF disk
<1>2. \A b \in Caller : \A p \in {"save", "open", "write", "rename"} :
        call'[b].at = p <=> call[b].at = p
  BY DEF PaneCalls
<1>3. PaneTypeOK'
  BY <1>1 DEF PaneInv, PaneTypeOK, PaneCalls, PanePlaces
<1>4. PanesExist'
  BY <1>1 DEF PaneInv, PanesExist
<1>5. SnapshotIsCurrent'
  BY <1>1, <1>2 DEF PaneInv, SnapshotIsCurrent
<1>6. \A f \in Paper : PaneHolds(f)' <=> PaneHolds(f)
  BY <1>1, <1>2 DEF PaneHolds
<1>7. TmpApart' /\ (TmpHolds => TmpHolds')
  BY <1>1, <1>2, <1>6, PaneShape DEF PaneInv, TmpApart, TmpHolds
<1>8. Mended => Mended'
  BY <1>1, <1>2, <1>6, PaneShape DEF PaneInv, Mended, FileHolds
<1> QED
  BY <1>1, <1>3, <1>4, <1>5, <1>7, <1>8 DEF PaneInv

LEMMA StepPaneRegister ==
  ASSUME PaneInv, NEW c \in Caller, PaneStores(c)
  PROVE  PaneInv'
<1>1. UNCHANGED <<exists, snapshot, paneTmp, paneFile, written, spoiled, paneTrouble>>
  BY DEF PaneStores, disk
<1>2. /\ call \in [Caller -> PaneCalls] /\ call' \in [Caller -> PaneCalls]
      /\ call[c].at = "store" /\ call'[c].at = "save"
      /\ \A b \in Caller \ {c} : call'[b] = call[b]
  BY PaneShape DEF PaneInv, PaneStores, Reaches, PaneCalls, PanePlaces
<1>3. \A b \in Caller : call'[b].at \notin {"open", "write", "rename"}
  BY <1>2 DEF PaneStores, Saving
<1>4. channels' \subseteq exists
  BY <1>2, PaneShape DEF PaneInv, PanesExist, PaneStores
<1>5. PaneTypeOK'
  BY <1>1, <1>2, <1>4 DEF PaneInv, PaneTypeOK, PaneCalls, PanePlaces
<1>6. PanesExist'
  BY <1>1, <1>2 DEF PaneInv, PanesExist
<1>7. SnapshotIsCurrent' /\ TmpApart' /\ TmpHolds' /\ Mended'
  BY <1>1, <1>2, <1>3 DEF PaneInv, SnapshotIsCurrent, TmpApart, TmpHolds, Mended
<1> QED
  BY <1>5, <1>6, <1>7 DEF PaneInv

LEMMA StepPaneEncode ==
  ASSUME PaneInv, NEW c \in Caller, SaveEncodes(c)
  PROVE  PaneInv'
<1>1. UNCHANGED <<channels, exists, paneTmp, paneFile, written, paneTrouble>>
  BY DEF SaveEncodes
<1>2. /\ call \in [Caller -> PaneCalls] /\ call' \in [Caller -> PaneCalls]
      /\ call[c].at = "save" /\ call'[c].at = "open"
      /\ \A b \in Caller \ {c} : call'[b] = call[b]
  BY PaneShape DEF PaneInv, SaveEncodes, Reaches, PaneCalls, PanePlaces
<1>3. /\ snapshot' \in [Caller -> PaneSaves] /\ snapshot'[c].set = channels
      /\ \A b \in Caller \ {c} : snapshot'[b] = snapshot[b]
  BY PaneShape DEF PaneInv, SaveEncodes, PaneSaves
<1>4. PaneTypeOK'
  BY <1>1, <1>2, <1>3 DEF PaneInv, PaneTypeOK, PaneCalls, PanePlaces, PaneSaves, SaveEncodes
<1>5. PanesExist'
  BY <1>1, <1>2, <1>3, PaneShape DEF PaneInv, PanesExist
<1>6. SnapshotIsCurrent'
  BY <1>1, <1>2, <1>3 DEF PaneInv, SnapshotIsCurrent
<1>7. \A f \in Paper : PaneHolds(f)' <=> PaneHolds(f)
  BY <1>1, <1>2, <1>3 DEF PaneHolds
<1>8. TmpApart' /\ (spoiled' \/ TmpHolds')
  <2>1. TmpApart'
    BY <1>1 DEF PaneInv, TmpApart
  <2>2. CASE spoiled'
    BY <2>1, <2>2
  <2>3. CASE ~spoiled' /\ ~spoiled
    BY <1>1, <1>2, <1>7, <2>1, <2>3, PaneShape DEF PaneInv, TmpHolds
  <2>4. CASE ~spoiled' /\ spoiled
    <3>1. \A d \in Caller : ~Saving(d)
      BY <2>4 DEF SaveEncodes
    <3>2. \A d \in Caller : call'[d].at \notin {"write", "rename"}
      BY <1>2, <3>1 DEF Saving
    <3> QED
      BY <2>1, <3>2 DEF TmpHolds
  <2> QED
    BY <2>2, <2>3, <2>4
<1>9. Mended'
  BY <1>2 DEF Mended
<1> QED
  BY <1>4, <1>5, <1>6, <1>8, <1>9 DEF PaneInv

LEMMA StepPaneOpen ==
  ASSUME PaneInv, NEW c \in Caller, SaveOpens(c)
  PROVE  PaneInv'
<1>1. UNCHANGED <<channels, exists, paneFile, spoiled, paneTrouble>>
  BY DEF SaveOpens
<1>2. /\ call \in [Caller -> PaneCalls] /\ call' \in [Caller -> PaneCalls]
      /\ call[c].at = "open" /\ call'[c].at = "write"
      /\ \A b \in Caller \ {c} : call'[b] = call[b]
  BY PaneShape DEF PaneInv, SaveOpens, Reaches, PaneCalls, PanePlaces
<1>3. paneTmp' \in Paper /\ paneTmp' # 0 /\ paneTmp' # paneFile
  <2>1. 0 \notin Paper
    BY PaneAssumption
  <2>2. CASE paneTmp = 0
    <3>1. paneTmp' \in FreePaper
      BY <2>2, PaperLeft DEF PaneInv, SaveOpens
    <3> QED
      BY <2>1, <3>1 DEF FreePaper
  <2>3. CASE paneTmp # 0
    BY <2>3, PaneShape DEF PaneInv, TmpApart, SaveOpens
  <2> QED
    BY <2>2, <2>3
<1>4. /\ snapshot' \in [Caller -> PaneSaves] /\ snapshot'[c].set = snapshot[c].set
      /\ snapshot'[c].fd = paneTmp'
      /\ \A b \in Caller \ {c} : snapshot'[b] = snapshot[b]
  <2>1. snapshot \in [Caller -> PaneSaves] /\ snapshot' = [snapshot EXCEPT ![c].fd = paneTmp']
    BY PaneShape DEF PaneInv, SaveOpens
  <2> QED
    BY <1>3, <2>1 DEF PaneSaves
<1>5. /\ written' \in [Paper -> PaneContents] /\ written'[paneTmp'].set = {}
      /\ \A f \in Paper \ {paneTmp'} : written'[f] = written[f]
  <2>1. written \in [Paper -> PaneContents] /\ written' = [written EXCEPT ![paneTmp'] = Torn]
    BY PaneShape DEF PaneInv, SaveOpens
  <2>2. Torn \in PaneContents /\ Torn.set = {}
    BY DEF Torn, PaneContents
  <2> QED
    BY <1>3, <2>1, <2>2
<1>6. PaneTypeOK'
  BY <1>1, <1>2, <1>3, <1>4, <1>5 DEF PaneInv, PaneTypeOK, PaneCalls, PanePlaces, PaneSaves, PaneContents
<1>7. PanesExist'
  BY <1>1, <1>2, <1>4, <1>5 DEF PaneInv, PanesExist
<1>8. SnapshotIsCurrent'
  BY <1>1, <1>2, <1>3, <1>4 DEF PaneInv, SnapshotIsCurrent
<1>9. PaneHolds(paneTmp)'
  BY <1>2, <1>4 DEF PaneHolds
<1>10. TmpApart' /\ TmpHolds'
  BY <1>1, <1>3, <1>9 DEF TmpApart, TmpHolds
<1>11. Mended'
  BY <1>2, <1>3, <1>4 DEF Mended
<1> QED
  BY <1>6, <1>7, <1>8, <1>10, <1>11 DEF PaneInv

LEMMA StepPaneWrite ==
  ASSUME PaneInv, NEW c \in Caller, SaveWrites(c)
  PROVE  PaneInv'
<1>1. UNCHANGED <<channels, exists, paneTmp, paneFile, spoiled, paneTrouble>>
  BY DEF SaveWrites
<1>2. /\ call \in [Caller -> PaneCalls] /\ call' \in [Caller -> PaneCalls]
      /\ call[c].at = "write" /\ call'[c].at = "rename"
      /\ \A b \in Caller \ {c} : call'[b] = call[b]
  BY PaneShape DEF PaneInv, SaveWrites, Reaches, PaneCalls, PanePlaces
<1>3. /\ snapshot' \in [Caller -> PaneSaves] /\ snapshot'[c].set = {}
      /\ \A b \in Caller \ {c} : snapshot'[b] = snapshot[b]
  BY PaneShape DEF PaneInv, SaveWrites, PaneSaves, NoSave
<1>4. snapshot[c].set = channels /\ snapshot[c].fd \in Paper
  BY <1>2, PaneShape DEF PaneInv, SnapshotIsCurrent, PaneSaves
<1>5. /\ written' \in [Paper -> PaneContents] /\ written'[snapshot[c].fd].set = channels
      /\ \A f \in Paper \ {snapshot[c].fd} : written'[f] = written[f]
  <2>1. /\ written \in [Paper -> PaneContents]
        /\ written' = [written EXCEPT ![snapshot[c].fd] =
                         [whole |-> TRUE, set |-> snapshot[c].set]]
    BY PaneShape DEF PaneInv, SaveWrites
  <2>2. channels \subseteq Pane
    BY PaneShape DEF PaneInv
  <2> QED
    BY <1>4, <2>1, <2>2 DEF PaneContents
<1>6. PaneTypeOK'
  BY <1>1, <1>2, <1>3, <1>5 DEF PaneInv, PaneTypeOK, PaneCalls, PanePlaces, PaneSaves, PaneContents
<1>7. PanesExist'
  BY <1>1, <1>2, <1>3, <1>5, PaneShape DEF PaneInv, PanesExist
<1>8. SnapshotIsCurrent'
  BY <1>1, <1>2, <1>3 DEF PaneInv, SnapshotIsCurrent
<1>9. \A f \in Paper : PaneHolds(f) => PaneHolds(f)'
  BY <1>1, <1>2, <1>3, <1>5 DEF PaneHolds
<1>10. TmpApart' /\ (TmpHolds => TmpHolds')
  BY <1>1, <1>2, <1>9, PaneShape DEF PaneInv, TmpApart, TmpHolds
<1>11. Mended => Mended'
  <2> SUFFICES ASSUME Mended PROVE Mended'
    OBVIOUS
  <2>1. CASE FileHolds
    BY <1>1, <1>9, <2>1, PaneShape DEF PaneInv, FileHolds, Mended
  <2>2. CASE ~FileHolds
    <3>1. CASE \E b \in Caller : call[b].at \in {"save", "open"}
      BY <1>2, <3>1 DEF Mended
    <3>2. CASE paneTmp # 0
      BY <1>1, <1>2, <3>2 DEF Mended
    <3> QED
      BY <2>2, <3>1, <3>2 DEF Mended
  <2> QED
    BY <2>1, <2>2
<1> QED
  BY <1>1, <1>6, <1>7, <1>8, <1>10, <1>11 DEF PaneInv

LEMMA StepPaneRename ==
  ASSUME PaneInv, NEW c \in Caller, SaveRenames(c)
  PROVE  PaneInv'
<1>1. UNCHANGED <<channels, exists, snapshot, written, spoiled, paneTrouble>>
  BY DEF SaveRenames
<1>2. /\ call \in [Caller -> PaneCalls] /\ call' \in [Caller -> PaneCalls]
      /\ call[c].at = "rename" /\ call'[c].at \in {"none", "post"}
      /\ \A b \in Caller \ {c} : call'[b] = call[b]
  <2>1. call \in [Caller -> PaneCalls] /\ call[c].at = "rename"
    BY PaneShape DEF PaneInv, SaveRenames
  <2>2. NoCall \in PaneCalls /\ NoCall.at = "none"
    BY DEF NoCall, PaneCalls, PanePlaces
  <2>3. /\ [call[c] EXCEPT !.at = "post"] \in PaneCalls
        /\ [call[c] EXCEPT !.at = "post"].at = "post"
    BY <2>1 DEF PaneCalls, PanePlaces
  <2> QED
    BY <2>1, <2>2, <2>3 DEF SaveRenames, SaveEnds
<1>3. /\ paneTmp' \in Paper \cup {0} /\ paneFile' \in Paper \cup {0}
      /\ IF paneTmp # 0 THEN paneFile' = paneTmp /\ paneTmp' = 0
                        ELSE paneFile' = paneFile /\ paneTmp' = 0
  BY PaneShape DEF PaneInv, SaveRenames
<1>4. PaneTypeOK'
  BY <1>1, <1>2, <1>3 DEF PaneInv, PaneTypeOK, PaneCalls, PanePlaces
<1>5. PanesExist' /\ SnapshotIsCurrent'
  BY <1>1, <1>2 DEF PaneInv, PanesExist, SnapshotIsCurrent
<1>6. \A f \in Paper : PaneHolds(f) => PaneHolds(f)'
  BY <1>1, <1>2 DEF PaneHolds
<1>7. TmpApart' /\ TmpHolds'
  BY <1>3 DEF TmpApart, TmpHolds
<1>8. ~spoiled => Mended'
  <2> SUFFICES ASSUME ~spoiled PROVE Mended'
    OBVIOUS
  <2>1. CASE paneTmp # 0
    <3>1. PaneHolds(paneTmp) /\ paneTmp \in Paper
      BY <1>2, <2>1, PaneShape DEF PaneInv, TmpHolds
    <3> QED
      BY <1>3, <1>6, <2>1, <3>1 DEF Mended, FileHolds
  <2>2. CASE paneTmp = 0
    <3>1. CASE FileHolds
      BY <1>1, <1>3, <1>6, <2>2, <3>1, PaneShape DEF PaneInv, Mended, FileHolds
    <3>2. CASE \E b \in Caller : call[b].at \in {"save", "open"}
      BY <1>2, <3>2 DEF Mended
    <3> QED
      BY <2>2, <3>1, <3>2 DEF PaneInv, Mended
  <2> QED
    BY <2>1, <2>2
<1> QED
  BY <1>1, <1>4, <1>5, <1>7, <1>8 DEF PaneInv

(* A save that fails, whatever of it.                                       *)
LEMMA StepPaneFails ==
  ASSUME PaneInv, NEW c \in Caller, SaveWritesShort(c) \/ SaveStaysTmp(c)
  PROVE  PaneInv'
<1>1. UNCHANGED <<channels, exists, paneTmp, paneFile, written>> /\ spoiled' = TRUE
      /\ PaneTrouble
  BY DEF SaveWritesShort, SaveStaysTmp
<1>2. /\ call \in [Caller -> PaneCalls] /\ call' \in [Caller -> PaneCalls]
      /\ call'[c].at \in {"none", "post", "rename"}
      /\ \A b \in Caller \ {c} : call'[b] = call[b]
  <2>1. call \in [Caller -> PaneCalls]
    BY PaneShape DEF PaneInv
  <2>2. NoCall \in PaneCalls /\ NoCall.at = "none"
    BY DEF NoCall, PaneCalls, PanePlaces
  <2>3. /\ [call[c] EXCEPT !.at = "post"] \in PaneCalls
        /\ [call[c] EXCEPT !.at = "post"].at = "post"
        /\ [call[c] EXCEPT !.at = "rename"] \in PaneCalls
        /\ [call[c] EXCEPT !.at = "rename"].at = "rename"
    BY <2>1 DEF PaneCalls, PanePlaces
  <2>4. CASE SaveWritesShort(c)
    BY <2>1, <2>3, <2>4 DEF SaveWritesShort, Reaches
  <2>5. CASE SaveStaysTmp(c)
    BY <2>1, <2>2, <2>3, <2>5 DEF SaveStaysTmp, SaveEnds
  <2> QED
    BY <2>4, <2>5
<1>3. /\ snapshot' \in [Caller -> PaneSaves]
      /\ snapshot'[c] = snapshot[c] \/ snapshot'[c].set = {}
      /\ \A b \in Caller \ {c} : snapshot'[b] = snapshot[b]
  <2>1. snapshot \in [Caller -> PaneSaves] /\ NoSave \in PaneSaves /\ NoSave.set = {}
    BY PaneShape DEF PaneInv, NoSave, PaneSaves
  <2>2. snapshot' = snapshot \/ snapshot' = [snapshot EXCEPT ![c] = NoSave]
    BY DEF SaveWritesShort, SaveStaysTmp
  <2> QED
    BY <2>1, <2>2
<1>4. paneTrouble' \in 0..MaxPaneTrouble
  BY <1>1, PaneShape, PaneTroubled DEF PaneInv
<1>5. PaneTypeOK'
  BY <1>1, <1>2, <1>3, <1>4 DEF PaneInv, PaneTypeOK, PaneCalls, PanePlaces, PaneSaves
<1>6. PanesExist'
  BY <1>1, <1>2, <1>3 DEF PaneInv, PanesExist
<1>7. SnapshotIsCurrent'
  BY <1>1, <1>2, <1>3 DEF PaneInv, SnapshotIsCurrent
<1>8. TmpApart'
  BY <1>1 DEF PaneInv, TmpApart
<1> QED
  BY <1>1, <1>5, <1>6, <1>7, <1>8 DEF PaneInv

LEMMA StepPaneCrash ==
  ASSUME PaneInv, PaneCrash
  PROVE  PaneInv'
<1>1. UNCHANGED <<exists, paneTmp, paneFile, written>> /\ channels' = Loaded /\ spoiled' = FALSE
  BY DEF PaneCrash
<1>2. /\ call' \in [Caller -> PaneCalls] /\ snapshot' \in [Caller -> PaneSaves]
      /\ \A b \in Caller : call'[b].at = "none" /\ snapshot'[b].set = {}
  BY DEF PaneCrash, NoCall, NoSave, PaneCalls, PanePlaces, PaneSaves
<1>3. Loaded \subseteq exists
  BY PaneShape DEF PaneInv, PanesExist, Loaded
<1>4. PaneTypeOK'
  <2>1. paneTrouble' \in 0..MaxPaneTrouble
    BY PaneShape, PaneTroubled DEF PaneInv, PaneCrash
  <2>2. /\ exists' \subseteq Pane /\ channels' \subseteq exists'
        /\ paneTmp' \in Paper \cup {0} /\ paneFile' \in Paper \cup {0}
        /\ written' \in [Paper -> PaneContents]
    BY <1>1, <1>3, PaneShape DEF PaneInv
  <2>3. /\ call' \in [Caller -> [at : PanePlaces, sync : BOOLEAN, panes : SUBSET Pane]]
        /\ snapshot' \in [Caller -> [set : SUBSET Pane, fd : Paper \cup {0}]]
    BY <1>2 DEF PaneCalls, PaneSaves
  <2>4. {paneTmp, paneFile}' \subseteq Paper \cup {0}
    BY <2>2
  <2> QED
    BY <1>1, <2>1, <2>2, <2>3, <2>4 DEF PaneTypeOK, PanePlaces, PaneContents
<1>5. PanesExist' /\ SnapshotIsCurrent'
  BY <1>1, <1>2 DEF PaneInv, PanesExist, SnapshotIsCurrent
<1>6. TmpApart' /\ TmpHolds'
  BY <1>1, <1>2 DEF PaneInv, TmpApart, TmpHolds
<1>7. Mended'
  BY <1>1 DEF Mended, FileHolds, PaneHolds, Loaded
<1> QED
  BY <1>4, <1>5, <1>6, <1>7 DEF PaneInv

(* The invariant of the pipeline: what saves under way will make of the     *)
(* file, unless one has failed (pipeline.go: persist).                      *)
THEOREM PaneInvariant == PaneSpec => []PaneInv
<1>1. ASSUME PaneInv, [PaneNext]_paneVars
      PROVE  PaneInv'
  <2>1. call \in [Caller -> PaneCalls] /\ exists \subseteq Pane /\ channels \subseteq exists
    BY <1>1, PaneShape DEF PaneInv
  <2>2. paneTrouble \in 0..MaxPaneTrouble
    BY <1>1, PaneShape DEF PaneInv
  <2>3. NoCall \in PaneCalls /\ NoCall.at = "none"
    BY DEF NoCall, PaneCalls, PanePlaces
  <2>4. ASSUME NEW c \in Caller, PaneInits(c)
        PROVE  PaneInv'
    <3>1. PICK p \in Pane :
            call' = [call EXCEPT ![c] = [at |-> "look", sync |-> FALSE, panes |-> {p}]]
      BY <2>4 DEF PaneInits
    <3>2. [at |-> "look", sync |-> FALSE, panes |-> {p}] \in PaneCalls
      BY DEF PaneCalls, PanePlaces
    <3> QED
      BY <1>1, <2>1, <2>2, <2>3, <2>4, <3>1, <3>2, StepPaneElsewhere DEF PaneInits
  <2>5. ASSUME NEW c \in Caller, PaneLooks(c)
        PROVE  PaneInv'
    <3>1. paneTrouble' \in 0..MaxPaneTrouble
      BY <2>2, <2>5, PaneTroubled DEF PaneLooks
    <3>2. PICK k \in PaneCalls :
            /\ call' = [call EXCEPT ![c] = k] /\ k.at \in {"none", "create", "store"}
            /\ k.at = "store" => k.panes \subseteq exists
      <4>1. CASE call' = [call EXCEPT ![c] = NoCall]
        BY <2>3, <4>1
      <4>2. CASE call' = [call EXCEPT ![c].at = "create"]
        <5> DEFINE k == [call[c] EXCEPT !.at = "create"]
        <5>0. call[c] \in PaneCalls /\ "create" \in PanePlaces
          BY <2>1 DEF PanePlaces
        <5>1. k \in PaneCalls /\ k.at = "create"
          BY <5>0, CallMoves
        <5>2. call' = [call EXCEPT ![c] = k]
          BY <4>2
        <5> HIDE DEF k
        <5> QED
          BY <5>1, <5>2
      <4>3. CASE call' = [call EXCEPT ![c].at = "store"] /\ call[c].panes \subseteq exists
        <5> DEFINE k == [call[c] EXCEPT !.at = "store"]
        <5>1. k \in PaneCalls /\ k.at = "store" /\ k.panes = call[c].panes
          BY <2>1, CallMoves DEF PanePlaces
        <5>2. call' = [call EXCEPT ![c] = k]
          BY <4>3
        <5> HIDE DEF k
        <5> QED
          BY <4>3, <5>1, <5>2
      <4> QED
        BY <2>5, <4>1, <4>2, <4>3 DEF PaneLooks, Reaches
    <3> QED
      BY <1>1, <2>1, <2>5, <3>1, <3>2, StepPaneElsewhere DEF PaneLooks
  <2>6. ASSUME NEW c \in Caller, PaneCreates(c)
        PROVE  PaneInv'
    <3>1. paneTrouble' \in 0..MaxPaneTrouble
      BY <2>2, <2>6, PaneTroubled DEF PaneCreates
    <3>2. exists \subseteq exists' /\ exists' \subseteq Pane
      BY <2>1, <2>6 DEF PaneCreates, PaneCalls
    <3>3. PICK k \in PaneCalls :
            /\ call' = [call EXCEPT ![c] = k] /\ k.at \in {"none", "store"}
            /\ k.at = "store" => k.panes \subseteq exists'
      <4>1. CASE call' = [call EXCEPT ![c] = NoCall]
        BY <2>3, <4>1
      <4>2. CASE call' = [call EXCEPT ![c].at = "store"] /\ exists' = exists \cup call[c].panes
        <5> DEFINE k == [call[c] EXCEPT !.at = "store"]
        <5>1. k \in PaneCalls /\ k.at = "store" /\ k.panes = call[c].panes
          BY <2>1, CallMoves DEF PanePlaces
        <5>2. call' = [call EXCEPT ![c] = k]
          BY <4>2
        <5> HIDE DEF k
        <5> QED
          BY <4>2, <5>1, <5>2
      <4> QED
        BY <2>6, <4>1, <4>2 DEF PaneCreates, Reaches
    <3> QED
      BY <1>1, <2>1, <2>6, <3>1, <3>2, <3>3, StepPaneElsewhere DEF PaneCreates
  <2>7. ASSUME NEW c \in Caller, PaneSends(c) \/ PaneSyncs(c) \/ PaneBroadcasts(c)
        PROVE  PaneInv'
    <3>1. PICK k \in PaneCalls :
            call' = [call EXCEPT ![c] = k] /\ k.at \in {"look", "post"}
      <4>1. ASSUME NEW p \in SUBSET Pane, NEW s \in BOOLEAN, NEW a \in {"look", "post"}
            PROVE  [at |-> a, sync |-> s, panes |-> p] \in PaneCalls
        BY DEF PaneCalls, PanePlaces
      <4>2. channels \in SUBSET Pane
        BY <2>1
      <4>3. CASE PaneBroadcasts(c)
        BY <4>1, <4>2, <4>3 DEF PaneBroadcasts
      <4>4. CASE PaneSends(c)
        <5>1. PICK p \in channels :
                call' = [call EXCEPT ![c] = [at |-> "post", sync |-> FALSE, panes |-> {p}]]
          BY <4>4 DEF PaneSends
        <5>2. [at |-> "post", sync |-> FALSE, panes |-> {p}] \in PaneCalls
          BY <4>1, <4>2
        <5> QED
          BY <5>1, <5>2
      <4>5. CASE PaneSyncs(c)
        <5>1. PICK p \in Pane :
                call' = [call EXCEPT ![c] = [at |-> IF p \in channels THEN "post" ELSE "look",
                                             sync |-> TRUE, panes |-> {p}]]
          BY <4>5 DEF PaneSyncs
        <5>2. PICK a \in {"look", "post"} : a = IF p \in channels THEN "post" ELSE "look"
          OBVIOUS
        <5>3. [at |-> a, sync |-> TRUE, panes |-> {p}] \in PaneCalls
          BY <4>1
        <5>4. call' = [call EXCEPT ![c] = [at |-> a, sync |-> TRUE, panes |-> {p}]]
          BY <5>1, <5>2
        <5> QED
          BY <5>3, <5>4
      <4> QED
        BY <2>7, <4>3, <4>4, <4>5
    <3>2. call[c] = NoCall /\ UNCHANGED <<channels, exists, disk, paneTrouble>>
      BY <2>7 DEF PaneSends, PaneSyncs, PaneBroadcasts
    <3> QED
      BY <1>1, <2>1, <2>2, <2>3, <3>1, <3>2, StepPaneElsewhere
  <2>8. ASSUME NEW c \in Caller, PanePosts(c)
        PROVE  PaneInv'
    <3>1. PICK k \in PaneCalls :
            call' = [call EXCEPT ![c] = k] /\ k.at \in {"none", "post"}
      <4>1. PICK p \in call[c].panes :
              call' = [call EXCEPT ![c] = IF call[c].panes = {p} THEN NoCall
                                          ELSE [call[c] EXCEPT !.panes = @ \ {p}]]
        BY <2>8 DEF PanePosts
      <4> DEFINE k == [call[c] EXCEPT !.panes = @ \ {p}]
      <4>2. k \in PaneCalls
        BY <2>1 DEF PaneCalls
      <4>3. k.at = "post"
        BY <2>1, <2>8 DEF PanePosts, PaneCalls
      <4>4. call' = [call EXCEPT ![c] = NoCall] \/ call' = [call EXCEPT ![c] = k]
        <5>1. CASE call[c].panes = {p}
          BY <4>1, <5>1
        <5>2. CASE call[c].panes # {p}
          BY <4>1, <5>2
        <5> QED
          BY <5>1, <5>2
      <4> HIDE DEF k
      <4> QED
        BY <2>3, <4>2, <4>3, <4>4
    <3> QED
      BY <1>1, <2>1, <2>2, <2>8, <3>1, StepPaneElsewhere DEF PanePosts
  <2>9. CASE UNCHANGED paneVars
    <3>1. UNCHANGED <<channels, exists, call, snapshot, paneTmp, paneFile, written, spoiled,
                      paneTrouble>>
      BY <2>9 DEF paneVars
    <3>2. \A f : PaneHolds(f)' <=> PaneHolds(f)
      BY <3>1 DEF PaneHolds
    <3> QED
      BY <1>1, <3>1, <3>2 DEF PaneInv, PaneTypeOK, PanesExist, SnapshotIsCurrent, TmpApart, TmpHolds, Mended, FileHolds
  <2> QED
    BY <1>1, <2>4, <2>5, <2>6, <2>7, <2>8, <2>9, StepPaneRegister, StepPaneEncode, StepPaneOpen,
       StepPaneWrite, StepPaneRename, StepPaneFails, StepPaneCrash DEF PaneNext
<1> QED
  BY InitPane, <1>1, PTL DEF PaneSpec

(* Whatever overlaps: once no save is under way the file holds every        *)
(* registered pane, or a save has failed since one last began by itself     *)
(* (pipeline.go: persist, under the lock for readers).                      *)
THEOREM RegistrationKept == PaneSpec => []RegisteredIsKept
<1>1. PaneInv => RegisteredIsKept
  BY PaneShape DEF PaneInv, Mended, FileHolds, PaneHolds, RegisteredIsKept, Loaded, Saving
<1> QED
  BY PaneInvariant, <1>1, PTL

-----------------------------------------------------------------------------
(* The repository watcher: its types say that the working tree is never      *)
(* ahead of origin, and neither the dals nor the panes of the working tree.  *)
LEMMA RepoTroubled ==
  ASSUME RepoTypeOK, RepoTrouble
  PROVE  repoTrouble' \in 0..MaxRepoTrouble
BY RepoAssumption DEF RepoTypeOK, RepoTrouble

LEMMA InitRepo == RepoInit => RepoTypeOK
<1> SUFFICES ASSUME RepoInit PROVE RepoTypeOK
  OBVIOUS
<1>1. 0 \in 0..MaxRevision /\ 0 \in 0..MaxRepoTrouble
  BY RepoAssumption
<1>2. /\ main = [x \in Part |-> 0] /\ head = main /\ pulled = {} /\ dals = 0 /\ panes = 0
      /\ diverged = FALSE /\ lost = {} /\ repoTrouble = 0
  BY DEF RepoInit
<1>3. main \in Revision /\ \A x \in Part : main[x] = 0
  BY <1>1, <1>2 DEF Revision
<1>4. head["dal"] = 0 /\ head["go"] = 0
  BY <1>2, <1>3 DEF Part
<1>5. dals \in 0..head["dal"] /\ panes \in 0..head["go"] /\ \A x \in Part : head[x] <= main[x]
  BY <1>2, <1>3, <1>4
<1> QED
  BY <1>1, <1>2, <1>3, <1>5 DEF RepoTypeOK

LEMMA StepRepo == RepoTypeOK /\ [RepoNext]_repoVars => RepoTypeOK'
<1> SUFFICES ASSUME RepoTypeOK, [RepoNext]_repoVars PROVE RepoTypeOK'
  OBVIOUS
<1>1. /\ main \in Revision /\ head \in Revision /\ \A x \in Part : head[x] <= main[x]
      /\ pulled \subseteq Part /\ dals \in 0..head["dal"] /\ panes \in 0..head["go"]
      /\ diverged \in BOOLEAN /\ lost \subseteq Part /\ repoTrouble \in 0..MaxRepoTrouble
  BY DEF RepoTypeOK
<1>2. /\ "dal" \in Part /\ "go" \in Part /\ MaxRevision \in Nat
      /\ \A x \in Part : main[x] \in Nat /\ head[x] \in Nat
  BY <1>1, RepoAssumption DEF Revision, Part
(* What was pulled is what the working tree has: nothing is ahead of main.   *)
<1>3. ASSUME UNCHANGED <<main, dals, panes, diverged>>, head' = main, pulled' \subseteq Part,
             lost' \subseteq Part, repoTrouble' \in 0..MaxRepoTrouble
      PROVE  RepoTypeOK'
  <2>1. head["dal"] <= main["dal"] /\ head["go"] <= main["go"]
    BY <1>1, <1>2
  <2>2. dals \in Nat /\ dals <= head["dal"] /\ panes \in Nat /\ panes <= head["go"]
    BY <1>1, <1>2
  <2>3. dals \in 0..main["dal"] /\ panes \in 0..main["go"]
    BY <1>2, <2>1, <2>2
  <2>4. \A x \in Part : main[x] <= main[x]
    BY <1>2
  <2> QED
    BY <1>1, <1>3, <2>3, <2>4 DEF RepoTypeOK
<1>4. ASSUME UNCHANGED <<main, head, diverged>>, pulled' \subseteq Part, lost' \subseteq Part,
             dals' \in {dals, head["dal"]}, panes' \in {panes, head["go"]},
             repoTrouble' \in 0..MaxRepoTrouble
      PROVE  RepoTypeOK'
  <2>1. head["dal"] \in 0..head["dal"] /\ head["go"] \in 0..head["go"]
    BY <1>2
  <2> QED
    BY <1>1, <1>4, <2>1 DEF RepoTypeOK
<1>5. ASSUME NEW parts \in SUBSET Part, Pushed(parts) PROVE RepoTypeOK'
  <2>1. /\ main' = [x \in Part |-> IF x \in parts THEN main[x] + 1 ELSE main[x]]
        /\ \A x \in parts : main[x] < MaxRevision
        /\ UNCHANGED <<head, pulled, dals, panes, diverged, lost, repoTrouble>>
    BY <1>5 DEF Pushed
  <2>2. \A x \in Part : main[x] \in 0..MaxRevision
    BY <1>1 DEF Revision
  <2>3. \A x \in Part : main'[x] \in 0..MaxRevision
    BY <1>2, <2>1, <2>2
  <2>4. main' \in Revision
    BY <2>1, <2>3 DEF Revision
  <2>5. \A x \in Part : head[x] <= main'[x]
    BY <1>1, <1>2, <2>1
  <2> QED
    BY <1>1, <2>1, <2>4, <2>5 DEF RepoTypeOK
<1>6. CASE Diverges
  <2>1. UNCHANGED <<main, head, pulled, dals, panes, lost>> /\ diverged' \in BOOLEAN
    BY <1>6 DEF Diverges
  <2>2. repoTrouble' \in 0..MaxRepoTrouble
    BY <1>1, <1>6, RepoTroubled DEF Diverges
  <2> QED
    BY <1>1, <2>1, <2>2 DEF RepoTypeOK
<1>7. CASE PulledByHand
  <2>1. repoTrouble' \in 0..MaxRepoTrouble
    BY <1>7, RepoTroubled DEF PulledByHand
  <2> QED
    BY <1>1, <1>3, <1>7, <2>1 DEF PulledByHand
<1>8. CASE FetchAndPull
  <2>1. repoTrouble' \in 0..MaxRepoTrouble
    BY <1>1, <1>8, RepoTroubled DEF FetchAndPull
  <2> QED
    BY <1>1, <1>3, <1>8, <2>1 DEF FetchAndPull
<1>9. CASE RunSync
  <2>1. repoTrouble' \in 0..MaxRepoTrouble
    BY <1>1, <1>9, RepoTroubled DEF RunSync
  <2> QED
    BY <1>1, <1>2, <1>4, <1>9, <2>1 DEF RunSync
<1>10. CASE TellPanes
  <2>1. repoTrouble' \in 0..MaxRepoTrouble
    BY <1>1, <1>10, RepoTroubled DEF TellPanes
  <2> QED
    BY <1>1, <1>2, <1>4, <1>10, <2>1 DEF TellPanes
<1>11. CASE RepoCrash
  <2>1. repoTrouble' \in 0..MaxRepoTrouble
    BY <1>11, RepoTroubled DEF RepoCrash
  <2> QED
    BY <1>1, <1>4, <1>11, <2>1 DEF RepoCrash
<1>12. CASE UNCHANGED repoVars
  BY <1>1, <1>12 DEF repoVars, RepoTypeOK
<1> QED
  BY <1>5, <1>6, <1>7, <1>8, <1>9, <1>10, <1>11, <1>12 DEF RepoNext

(* The repository watcher (repo_watcher.go): nothing that runs is ahead of   *)
(* the working tree, and the working tree not of origin.                     *)
THEOREM RepoTypes == RepoSpec => []RepoTypeOK
BY InitRepo, StepRepo, PTL DEF RepoSpec

-----------------------------------------------------------------------------
(* The ledgers: no list outgrows its bound, and no number of a cost is given *)
(* twice, not even after a restart with an older file.                       *)
Escalation == [key : Key, resolved : BOOLEAN]

LEMMA LedgerTroubled ==
  ASSUME LedgerTypeOK, LedgerTrouble
  PROVE  ledgerTrouble' \in 0..MaxLedgerTrouble
BY LedgerAssumption DEF LedgerTypeOK, LedgerTrouble

(* The newest n are n at most, and none of them twice.                       *)
LEMMA NewestKeeps ==
  ASSUME NEW S, NEW s \in Seq(S), NEW n \in Nat \ {0}
  PROVE  /\ Newest(s, n) \in Seq(S) /\ Len(Newest(s, n)) <= n
         /\ \A k \in DOMAIN Newest(s, n) : \E j \in DOMAIN s : Newest(s, n)[k] = s[j]
         /\ IsInjective(s) => IsInjective(Newest(s, n))
<1> DEFINE a == IF Len(s) > n THEN Len(s) - n + 1 ELSE 1
           r == SubSeq(s, a, Len(s))
<1>1. /\ Len(s) \in Nat /\ a \in Nat /\ a >= 1 /\ a <= Len(s) + 1
      /\ Len(s) + 1 - a <= n /\ Len(s) + 1 - a \in Nat
  OBVIOUS
<1>2. Newest(s, n) = r
  BY DEF Newest
<1> HIDE DEF a
<1>3. /\ r \in Seq(S) /\ Len(r) = Len(s) + 1 - a
      /\ \A k \in 1..(Len(s) + 1 - a) : r[k] = s[a + k - 1]
  BY <1>1
<1> HIDE DEF r
<1>4. DOMAIN r = 1..(Len(s) + 1 - a) /\ DOMAIN s = 1..Len(s)
  BY <1>3
<1>5. \A k \in DOMAIN r : a + k - 1 \in DOMAIN s /\ r[k] = s[a + k - 1]
  <2> SUFFICES ASSUME NEW k \in 1..(Len(s) + 1 - a)
               PROVE  a + k - 1 \in 1..Len(s) /\ r[k] = s[a + k - 1]
    BY <1>4
  <2>1. a + k - 1 \in 1..Len(s)
    BY <1>1
  <2> QED
    BY <1>3, <2>1
<1>6. ASSUME IsInjective(s) PROVE IsInjective(r)
  <2> SUFFICES ASSUME NEW k \in DOMAIN r, NEW l \in DOMAIN r, r[k] = r[l] PROVE k = l
    BY DEF IsInjective
  <2>1. a + k - 1 = a + l - 1
    BY <1>5, <1>6 DEF IsInjective
  <2>2. k \in Nat /\ l \in Nat
    BY <1>4
  <2> QED
    BY <1>1, <2>1, <2>2
<1>7. \A k \in DOMAIN r : \E j \in DOMAIN s : r[k] = s[j]
  BY <1>5
<1> QED
  BY <1>1, <1>2, <1>3, <1>6, <1>7

(* A list that is added to is a book again, its file saved or as it was.     *)
LEMMA SavesBook ==
  ASSUME NEW S, NEW b \in Book(S), NEW c, NEW n \in Nat \ {0}, Bounded(b, n),
         NEW s \in Seq(S), Len(s) <= n,
         c = Saved(s) \/ c = Unsaved(b, s)
  PROVE  c \in Book(S) /\ Bounded(c, n) /\ c.memory = s /\ c.file \in {s, b.file}
BY DEF Book, Bounded, Saved, Unsaved

LEMMA InitLedger == LedgerInit => LedgerTypeOK
<1> SUFFICES ASSUME LedgerInit PROVE LedgerTypeOK
  OBVIOUS
<1>1. /\ escalations = NewBook /\ feedback = NewBook /\ costs = NewBook /\ costSeq = 0
      /\ escalating = [k \in Key |-> "none"] /\ waiting = [k \in Key |-> 0]
      /\ told = {} /\ ledgerTrouble = 0
  BY DEF LedgerInit
<1>2. /\ MaxEscalations \in Nat /\ MaxRecords \in Nat /\ 0 \in 0..MaxCost /\ 0 \in 0..Cooldown
      /\ 0 \in 0..MaxLedgerTrouble
  BY LedgerAssumption
<1>3. \A S : NewBook \in Book(S)
  BY DEF NewBook, Book
<1>4. Bounded(NewBook, MaxEscalations) /\ Bounded(NewBook, MaxRecords)
  BY <1>2 DEF NewBook, Bounded
<1>5. /\ NewBook.memory = <<>> /\ NewBook.file = <<>> /\ DOMAIN <<>> = {}
  BY DEF NewBook
<1>6. IsInjective(<<>>) /\ ToSet(<<>>) = {}
  BY <1>5 DEF IsInjective, ToSet
<1>7. escalating \in [Key -> {"none", "added", "posting"}] /\ waiting \in [Key -> 0..Cooldown]
  BY <1>1, <1>2
<1> QED
  BY <1>1, <1>2, <1>3, <1>4, <1>5, <1>6, <1>7 DEF LedgerTypeOK

(* What does not touch the lists.                                            *)
LEMMA StepLedgerNotices ==
  ASSUME LedgerTypeOK, UNCHANGED ledgers,
         escalating' \in [Key -> {"none", "added", "posting"}],
         waiting' \in [Key -> 0..Cooldown], told' \subseteq Key,
         ledgerTrouble' \in 0..MaxLedgerTrouble
  PROVE  LedgerTypeOK'
BY DEF LedgerTypeOK, ledgers, Bounded

LEMMA StepEscalations ==
  ASSUME LedgerTypeOK, NEW s \in Seq(Escalation), Len(s) <= MaxEscalations,
         Saves(escalations, s), UNCHANGED <<feedback, costs, costSeq, waiting, told>>,
         escalating' \in [Key -> {"none", "added", "posting"}]
  PROVE  LedgerTypeOK'
<1>1. escalations \in Book(Escalation) /\ Bounded(escalations, MaxEscalations)
      /\ MaxEscalations \in Nat \ {0} /\ ledgerTrouble \in 0..MaxLedgerTrouble
  BY LedgerAssumption DEF LedgerTypeOK, Escalation
<1>2. escalations' = Saved(s) \/ escalations' = Unsaved(escalations, s)
  BY DEF Saves
<1>3. ledgerTrouble' \in 0..MaxLedgerTrouble
  BY <1>1, LedgerTroubled DEF Saves, Saved, Unsaved
<1>4. escalations' \in Book(Escalation) /\ Bounded(escalations', MaxEscalations)
  BY <1>1, <1>2, SavesBook
<1> QED
  BY <1>3, <1>4 DEF LedgerTypeOK, Escalation, Bounded

LEMMA AddedEscalation ==
  ASSUME LedgerTypeOK, NEW k \in Key, AddEscalation(k)
  PROVE  \E s \in Seq(Escalation) : Len(s) <= MaxEscalations /\ Saves(escalations, s)
<1> DEFINE e == [key |-> k, resolved |-> FALSE]
           s == Append(escalations.memory, e)
<1>1. e \in Escalation /\ escalations.memory \in Seq(Escalation)
  BY DEF LedgerTypeOK, Book, Escalation
<1>2. s \in Seq(Escalation)
  BY <1>1
<1>3. Saves(escalations, Newest(s, MaxEscalations))
  BY DEF AddEscalation
<1> HIDE DEF s
<1>4. /\ Newest(s, MaxEscalations) \in Seq(Escalation)
      /\ Len(Newest(s, MaxEscalations)) <= MaxEscalations
  BY <1>2, NewestKeeps, LedgerAssumption
<1> QED
  BY <1>3, <1>4

LEMMA StepFeedback ==
  ASSUME LedgerTypeOK, NEW result \in {"success", "failure"}, Feedback(result)
  PROVE  LedgerTypeOK'
<1> DEFINE S == {"success", "failure"}
           s == Append(feedback.memory, result)
           r == Newest(s, MaxRecords)
<1>1. /\ feedback \in Book(S) /\ Bounded(feedback, MaxRecords) /\ MaxRecords \in Nat \ {0}
      /\ feedback.memory \in Seq(S) /\ ledgerTrouble \in 0..MaxLedgerTrouble
  BY LedgerAssumption DEF LedgerTypeOK, Book
<1>2. s \in Seq(S)
  BY <1>1
<1>3. Saves(feedback, r) /\ UNCHANGED <<escalations, costs, costSeq, notices>>
  BY DEF Feedback
<1>4. feedback' = Saved(r) \/ feedback' = Unsaved(feedback, r)
  BY <1>3 DEF Saves
<1>5. ledgerTrouble' \in 0..MaxLedgerTrouble
  BY <1>1, <1>3, LedgerTroubled DEF Saves, Saved, Unsaved
<1> HIDE DEF s
<1>6. r \in Seq(S) /\ Len(r) <= MaxRecords
  BY <1>1, <1>2, NewestKeeps
<1> HIDE DEF r, S
<1>7. feedback' \in Book(S) /\ Bounded(feedback', MaxRecords)
  BY <1>1, <1>4, <1>6, SavesBook
<1> QED
  BY <1>3, <1>5, <1>7 DEF LedgerTypeOK, Bounded, notices, S

(* A cost gets the next number, which no cost in memory has.                 *)
LEMMA StepCost ==
  ASSUME LedgerTypeOK, CostRecorded
  PROVE  LedgerTypeOK'
<1> DEFINE S == 1..MaxCost
           n == costSeq + 1
           s == Append(costs.memory, n)
           r == Newest(s, MaxRecords)
<1>1. /\ costs \in Book(S) /\ Bounded(costs, MaxRecords) /\ MaxRecords \in Nat \ {0}
      /\ costs.memory \in Seq(S) /\ ledgerTrouble \in 0..MaxLedgerTrouble
      /\ costSeq \in 0..MaxCost /\ ToSet(costs.memory) \subseteq 1..costSeq
      /\ IsInjective(costs.memory) /\ IsInjective(costs.file)
  BY LedgerAssumption DEF LedgerTypeOK, Book
<1>2. /\ costSeq < MaxCost /\ costSeq' = n /\ Saves(costs, Newest(Append(costs.memory, costSeq'), MaxRecords))
      /\ UNCHANGED <<escalations, feedback, notices>>
  BY DEF CostRecorded
<1>3. n \in S /\ n \in 0..MaxCost /\ n \notin 1..costSeq /\ 1..costSeq \subseteq 1..n /\ n \in 1..n
  BY <1>1, <1>2, LedgerAssumption
<1>4. Saves(costs, r)
  BY <1>2
<1>5. costs' = Saved(r) \/ costs' = Unsaved(costs, r)
  BY <1>4 DEF Saves
<1>6. ledgerTrouble' \in 0..MaxLedgerTrouble
  BY <1>1, <1>4, LedgerTroubled DEF Saves, Saved, Unsaved
<1> HIDE DEF n
<1>7. s \in Seq(S) /\ Len(s) = Len(costs.memory) + 1 /\ s[Len(s)] = n
      /\ \A k \in 1..Len(costs.memory) : s[k] = costs.memory[k]
  BY <1>1, <1>3
<1>8. DOMAIN s = 1..Len(s) /\ Len(costs.memory) \in Nat /\ DOMAIN costs.memory = 1..Len(costs.memory)
  BY <1>1, <1>7
<1> HIDE DEF s
<1>9. \A k \in 1..Len(costs.memory) : costs.memory[k] \in 1..costSeq
  BY <1>1, <1>8 DEF ToSet
<1>10. IsInjective(s)
  <2> SUFFICES ASSUME NEW k \in DOMAIN s, NEW l \in DOMAIN s, s[k] = s[l] PROVE k = l
    BY DEF IsInjective
  <2>1. k \in 1..Len(costs.memory) \/ k = Len(s)
    BY <1>7, <1>8
  <2>2. l \in 1..Len(costs.memory) \/ l = Len(s)
    BY <1>7, <1>8
  <2>3. CASE k \in 1..Len(costs.memory) /\ l \in 1..Len(costs.memory)
    BY <1>1, <1>7, <1>8, <2>3 DEF IsInjective
  <2>4. CASE k = Len(s) /\ l \in 1..Len(costs.memory)
    BY <1>3, <1>7, <1>9, <2>4
  <2>5. CASE l = Len(s) /\ k \in 1..Len(costs.memory)
    BY <1>3, <1>7, <1>9, <2>5
  <2> QED
    BY <2>1, <2>2, <2>3, <2>4, <2>5
<1>11. \A k \in DOMAIN s : s[k] \in 1..n
  <2> SUFFICES ASSUME NEW k \in DOMAIN s PROVE s[k] \in 1..n
    OBVIOUS
  <2>1. k \in 1..Len(costs.memory) \/ k = Len(s)
    BY <1>7, <1>8
  <2> QED
    BY <1>3, <1>7, <1>9, <2>1
<1>12. /\ r \in Seq(S) /\ Len(r) <= MaxRecords
       /\ \A k \in DOMAIN r : \E j \in DOMAIN s : r[k] = s[j]
       /\ IsInjective(r)
  <2> HIDE DEF S
  <2>1. s \in Seq(S) /\ MaxRecords \in Nat \ {0}
    BY <1>1, <1>7
  <2>2. /\ r \in Seq(S) /\ Len(r) <= MaxRecords
        /\ \A k \in DOMAIN r : \E j \in DOMAIN s : r[k] = s[j]
        /\ IsInjective(s) => IsInjective(r)
    BY <2>1, NewestKeeps
  <2> QED
    BY <1>10, <2>2
<1> HIDE DEF r
<1>13. ToSet(r) \subseteq 1..n
  BY <1>11, <1>12 DEF ToSet
<1> HIDE DEF S
<1>14. /\ costs' \in Book(S) /\ Bounded(costs', MaxRecords) /\ costs'.memory = r
       /\ costs'.file \in {r, costs.file}
  BY <1>1, <1>5, <1>12, SavesBook
<1>15. IsInjective(costs'.memory) /\ IsInjective(costs'.file) /\ ToSet(costs'.memory) \subseteq 1..costSeq'
  BY <1>1, <1>2, <1>12, <1>13, <1>14 DEF n
<1>16. costSeq' \in 0..MaxCost
  BY <1>2, <1>3
<1> QED
  BY <1>2, <1>6, <1>14, <1>15, <1>16 DEF LedgerTypeOK, Bounded, notices, S

(* A restart: the numbers go on after the highest on file.                   *)
LEMMA StepLedgerCrash ==
  ASSUME LedgerTypeOK, LedgerCrash
  PROVE  LedgerTypeOK'
<1> DEFINE N == ToSet(costs.file) \cup {0}
<1>1. /\ escalations' = Reread(escalations)
      /\ feedback' = Reread(feedback)
      /\ costs' = Reread(costs)
      /\ costSeq' = Max(N)
      /\ escalating' = [k \in Key |-> "none"] /\ waiting' = [k \in Key |-> 0]
      /\ told' = told /\ LedgerTrouble
  BY DEF LedgerCrash
<1>2. ASSUME NEW S, NEW b \in Book(S), NEW n, Bounded(b, n)
      PROVE  /\ Reread(b) \in Book(S)
             /\ Bounded(Reread(b), n)
             /\ Reread(b).memory = b.file
             /\ Reread(b).file = b.file
  BY <1>2 DEF Book, Bounded, Reread, Saved
<1>3. /\ costs \in Book(1..MaxCost) /\ Bounded(costs, MaxRecords) /\ costs.file \in Seq(1..MaxCost)
      /\ IsInjective(costs.file) /\ MaxCost \in Nat
  BY LedgerAssumption DEF LedgerTypeOK, Book
<1>4. ToSet(costs.file) \subseteq 1..MaxCost
  BY <1>3 DEF ToSet
<1>5. N \in SUBSET Nat /\ N \subseteq 0..MaxCost /\ 0 \in N
  BY <1>3, <1>4
<1>6. IsFiniteSet(N)
  <2>1. IsFiniteSet(0..MaxCost)
    BY <1>3, FS_Interval
  <2> HIDE DEF N
  <2> QED
    BY <1>5, <2>1, FS_Subset
<1>7. Max(N) \in N /\ \A x \in N : Max(N) >= x
  <2> HIDE DEF N
  <2> QED
    BY <1>5, <1>6, GreatestIn
<1>8. Max(N) \in 0..MaxCost /\ ToSet(costs.file) \subseteq 1..Max(N)
  <2>1. Max(N) \in 0..MaxCost
    BY <1>5, <1>7
  <2>2. ASSUME NEW x \in ToSet(costs.file) PROVE x \in 1..Max(N)
    <3>1. x \in 1..MaxCost /\ x \in N
      BY <1>4
    <3>2. Max(N) >= x
      BY <1>7, <3>1
    <3> HIDE DEF N
    <3> QED
      BY <2>1, <3>1, <3>2
  <2> HIDE DEF N
  <2> QED
    BY <2>1, <2>2
<1>9. /\ costs' \in Book(1..MaxCost) /\ Bounded(costs', MaxRecords)
      /\ costs'.memory = costs.file /\ costs'.file = costs.file
  BY <1>1, <1>2, <1>3
<1>10. escalations' \in Book(Escalation) /\ Bounded(escalations', MaxEscalations)
  BY <1>1, <1>2 DEF LedgerTypeOK, Escalation
<1>11. feedback' \in Book({"success", "failure"}) /\ Bounded(feedback', MaxRecords)
  BY <1>1, <1>2 DEF LedgerTypeOK
<1>12. ledgerTrouble' \in 0..MaxLedgerTrouble
  BY <1>1, LedgerTroubled
<1>13. /\ escalating' \in [Key -> {"none", "added", "posting"}]
       /\ waiting' \in [Key -> 0..Cooldown] /\ told' \subseteq Key
  BY <1>1, LedgerAssumption DEF LedgerTypeOK
<1>14. costSeq' \in 0..MaxCost /\ ToSet(costs'.memory) \subseteq 1..costSeq'
       /\ IsInjective(costs'.memory) /\ IsInjective(costs'.file)
  BY <1>1, <1>3, <1>8, <1>9
<1> QED
  BY <1>9, <1>10, <1>11, <1>12, <1>13, <1>14 DEF LedgerTypeOK, Escalation, Bounded

LEMMA StepLedger == LedgerTypeOK /\ [LedgerNext]_ledgerVars => LedgerTypeOK'
<1> SUFFICES ASSUME LedgerTypeOK, [LedgerNext]_ledgerVars PROVE LedgerTypeOK'
  OBVIOUS
<1>1. /\ escalating \in [Key -> {"none", "added", "posting"}]
      /\ waiting \in [Key -> 0..Cooldown] /\ told \subseteq Key
      /\ ledgerTrouble \in 0..MaxLedgerTrouble /\ Cooldown \in Nat
  BY LedgerAssumption DEF LedgerTypeOK
<1>2. ASSUME NEW k \in Key, Escalates(k) PROVE LedgerTypeOK'
  <2>1. AddEscalation(k) /\ escalating' = [escalating EXCEPT ![k] = "added"]
        /\ UNCHANGED <<feedback, costs, costSeq, waiting, told>>
    BY <1>2 DEF Escalates
  <2>2. PICK s \in Seq(Escalation) : Len(s) <= MaxEscalations /\ Saves(escalations, s)
    BY <2>1, AddedEscalation
  <2>3. escalating' \in [Key -> {"none", "added", "posting"}]
    BY <1>1, <2>1
  <2> QED
    BY <2>1, <2>2, <2>3, StepEscalations
<1>3. ASSUME NEW k \in Key, LeaderEscalates(k) PROVE LedgerTypeOK'
  <2>1. AddEscalation(k) /\ UNCHANGED <<feedback, costs, costSeq, escalating, waiting, told>>
    BY <1>3 DEF LeaderEscalates, notices
  <2>2. PICK s \in Seq(Escalation) : Len(s) <= MaxEscalations /\ Saves(escalations, s)
    BY <2>1, AddedEscalation
  <2> QED
    BY <1>1, <2>1, <2>2, StepEscalations
<1>4. ASSUME NEW n \in 1..MaxEscalations, Resolves(n) PROVE LedgerTypeOK'
  <2> DEFINE s == [escalations.memory EXCEPT ![n].resolved = TRUE]
  <2>1. /\ n \in DOMAIN escalations.memory /\ Saves(escalations, s)
        /\ UNCHANGED <<feedback, costs, costSeq, escalating, waiting, told>>
    BY <1>4 DEF Resolves, notices
  <2>2. escalations.memory \in Seq(Escalation) /\ Len(escalations.memory) <= MaxEscalations
    BY DEF LedgerTypeOK, Book, Escalation, Bounded
  <2>3. s \in Seq(Escalation) /\ Len(s) = Len(escalations.memory)
    <3> DEFINE e == [escalations.memory[n] EXCEPT !.resolved = TRUE]
    <3>1. escalations.memory[n] \in Escalation
      BY <2>1, <2>2
    <3>2. e \in Escalation
      BY <3>1 DEF Escalation
    <3>3. s = [escalations.memory EXCEPT ![n] = e]
      OBVIOUS
    <3> HIDE DEF e, s
    <3> QED
      BY <2>1, <2>2, <3>2, <3>3
  <2> HIDE DEF s
  <2> QED
    BY <1>1, <2>1, <2>2, <2>3, StepEscalations
<1>5. ASSUME NEW k \in Key, Notices(k) PROVE LedgerTypeOK'
  <2>1. Cooldown \in 0..Cooldown
    BY <1>1
  <2>2. escalating' \in [Key -> {"none", "added", "posting"}] /\ waiting' \in [Key -> 0..Cooldown]
    BY <1>1, <1>5, <2>1 DEF Notices
  <2>3. UNCHANGED ledgers /\ told' = told /\ ledgerTrouble' = ledgerTrouble
    BY <1>5 DEF Notices
  <2> QED
    BY <1>1, <2>2, <2>3, StepLedgerNotices
<1>6. ASSUME NEW k \in Key, PostsNotice(k) PROVE LedgerTypeOK'
  <2>1. ledgerTrouble' \in 0..MaxLedgerTrouble
    BY <1>1, <1>6, LedgerTroubled DEF PostsNotice
  <2>2. escalating' \in [Key -> {"none", "added", "posting"}] /\ told' \subseteq Key
    BY <1>1, <1>6 DEF PostsNotice
  <2>3. UNCHANGED ledgers /\ waiting' = waiting
    BY <1>6 DEF PostsNotice
  <2> QED
    BY <1>1, <2>1, <2>2, <2>3, StepLedgerNotices
<1>7. ASSUME NEW k \in Key, Tick(k) PROVE LedgerTypeOK'
  <2>1. waiting[k] > 0 /\ waiting' = [waiting EXCEPT ![k] = waiting[k] - 1]
        /\ UNCHANGED ledgers /\ UNCHANGED <<escalating, told, ledgerTrouble>>
    BY <1>7 DEF Tick
  <2>2. waiting[k] - 1 \in 0..Cooldown
    BY <1>1, <2>1
  <2>3. waiting' \in [Key -> 0..Cooldown]
    BY <1>1, <2>1, <2>2
  <2> QED
    BY <1>1, <2>1, <2>3, StepLedgerNotices
<1>8. CASE UNCHANGED ledgerVars
  <2>1. UNCHANGED ledgers /\ UNCHANGED <<escalating, waiting, told, ledgerTrouble>>
    BY <1>8 DEF ledgerVars, ledgers
  <2> QED
    BY <1>1, <2>1, StepLedgerNotices
<1> QED
  BY <1>2, <1>3, <1>4, <1>5, <1>6, <1>7, <1>8, StepFeedback, StepCost, StepLedgerCrash
  DEF LedgerNext

(* The ledgers (escalation.go, feedback.go, cost_tracker.go): every list     *)
(* keeps its bound, in memory and on file, and the numbers of the costs are  *)
(* distinct, whatever saves failed before a restart.                         *)
THEOREM LedgerTypes == LedgerSpec => []LedgerTypeOK
BY InitLedger, StepLedger, PTL DEF LedgerSpec

-----------------------------------------------------------------------------
(* The parts together.  A step of one part is a step of no other.            *)
LEMMA StepParts ==
  ASSUME [Next]_allVars
  PROVE  /\ [IssueNext]_issueVars /\ [FlowNext]_flowVars /\ [NoticeNext]_noticeVars
         /\ [ClaimNext]_claimVars /\ [TellNext]_tellVars /\ [PaneNext]_paneVars
         /\ [RepoNext]_repoVars /\ [LedgerNext]_ledgerVars
<1>1. CASE Next
  <2>1. Others(part)
    BY <1>1 DEF Next
  <2>2. \/ part = "issues" /\ IssueNext
        \/ part = "flows" /\ FlowNext
        \/ part = "notices" /\ NoticeNext
        \/ part = "claims" /\ ClaimNext
        \/ part = "tells" /\ TellNext
        \/ part = "panes" /\ PaneNext
        \/ part = "repo" /\ RepoNext
        \/ part = "ledgers" /\ LedgerNext
    BY <1>1 DEF Next
  <2> QED
    BY <2>1, <2>2 DEF Others
<1>2. CASE UNCHANGED allVars
  BY <1>2 DEF allVars
<1> QED
  BY <1>1, <1>2

(* What is checked with the parts side by side is what each part promises:   *)
(* a behaviour of them all is one of each, with its fairness.                *)
THEOREM PartsTogether ==
  Spec => /\ IssueSpec /\ FlowSpec /\ NoticeSpec /\ ClaimSpec
          /\ TellSpec /\ PaneSpec /\ RepoSpec /\ LedgerSpec
<1>1. Init => /\ IssueInit /\ FlowInit /\ NoticeInit /\ ClaimInit
              /\ TellInit /\ PaneInit /\ RepoInit /\ LedgerInit
  BY DEF Init
<1>2. [Next]_allVars => /\ [IssueNext]_issueVars /\ [FlowNext]_flowVars
                        /\ [NoticeNext]_noticeVars /\ [ClaimNext]_claimVars
                        /\ [TellNext]_tellVars /\ [PaneNext]_paneVars
                        /\ [RepoNext]_repoVars /\ [LedgerNext]_ledgerVars
  BY StepParts
<1> QED
  BY <1>1, <1>2, PTL DEF Spec, IssueSpec, FlowSpec, NoticeSpec, ClaimSpec, TellSpec,
                         PaneSpec, RepoSpec, LedgerSpec

(* All eight parts keep their types.                                         *)
THEOREM TypesHold == Spec => []TypeOK
<1>1. /\ IssueInv => IssueTypeOK
      /\ FlowInv => FlowTypeOK
      /\ NoticeInv => NoticeTypeOK
      /\ ClaimInv => ClaimTypeOK
      /\ TellInv => TellTypeOK
      /\ PaneInv => PaneTypeOK
  BY DEF IssueInv, FlowInv, NoticeInv, ClaimInv, TellInv, PaneInv
<1>2. TypeOK <=> /\ IssueTypeOK /\ FlowTypeOK /\ NoticeTypeOK /\ ClaimTypeOK
                 /\ TellTypeOK /\ PaneTypeOK /\ RepoTypeOK /\ LedgerTypeOK
  BY DEF TypeOK
<1> QED
  BY <1>1, <1>2, PartsTogether, IssueInvariant, FlowInvariant, NoticeInvariant, ClaimInvariant,
     TellInvariant, PaneInvariant, RepoTypes, LedgerTypes, PTL

(* And what the parts promise holds of them together.                        *)
THEOREM PromisesTogether ==
  Spec => /\ [](DispatchesBounded /\ OverlapIsARace /\ ToldOnce)
          /\ [](NumbersMoveOn /\ DownIsReported /\ RegisteredIsKept)
BY PartsTogether, DispatchBound, OnlyARace, NotToldTwice, NumbersNeverReused, NoSilentDown,
   RegistrationKept, PTL
=============================================================================
