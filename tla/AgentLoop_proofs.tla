--------------------------- MODULE AgentLoop_proofs ---------------------------
(***************************************************************************)
(* The loop of a dal for any threshold, number of retries and kinds of      *)
(* dals: its types, the breaker's count, that an open breaker spares the    *)
(* primary provider, and that the tracked run and the channel never          *)
(* contradict each other.                                                   *)
(***************************************************************************)
EXTENDS AgentLoop, TLAPS

(* Working on a job, before its run is closed. *)
Working == Step \ {"apology", "answer"}

(* While a job is worked on its run is open and nothing final is said, and   *)
(* nothing is said before the run is closed, or could not be.                *)
StoryOpen ==
  /\ pc \in Working =>
       /\ run \in {"none", "running"} /\ sent \cap {"final", "failure"} = {}
       /\ job.kind = "auto" => run = "none"
  /\ pc = "apology" =>
       /\ run \in {"none", "failed", "blocked"} \/ (run = "running" /\ cut)
       /\ sent \cap {"final", "failure"} = {}
  /\ pc = "answer" =>
       /\ run \in {"none", "done", "noop"} \/ (run = "running" /\ cut)
       /\ sent \cap {"final", "failure"} = {}

(* A message has a text.                                                    *)
MessageHasText == job.kind = "msg" => job.task \in Task

AgentInv ==
  /\ TypeOK /\ MessageHasText
  /\ BreakerCounts /\ PrimaryShielded
  /\ StoryOpen /\ RunMatchesAnswer

USE AgentAssumption

(* The steps after which the loop waits for the next job. *)
EndsJob ==
  \/ \E e \in SUBSET {"failure", "escalation", "claim"} : Apologize(e)
  \/ \E e \in SUBSET {"notice", "escalation"} : AutoFails(e)
  \/ \E e \in SUBSET {"issue", "notice"} : AutoDone(e)
  \/ \E e \in SUBSET {"final", "report"} : Answer(e)

LEMMA EndsAreIdle == EndsJob \/ Crash => Idle
BY DEF EndsJob, Apologize, AutoFails, AutoDone, Answer, Crash

-----------------------------------------------------------------------------
(* The records of an execution and of the breaker. *)
Execution == [try : 1..MaxRetries, err : Error \cup {"none"},
              fbFailed : BOOLEAN, second : BOOLEAN]
Breaker == [state : {"closed", "open", "half"}, failures : 0..Threshold,
            cold : BOOLEAN]
Job == [kind : {"none", "msg", "query", "auto"}, task : Task \cup {"none"}]

LEMMA Starts == Fresh \in Execution /\ Closed \in Breaker /\ NoJob \in Job
BY DEF Fresh, Closed, NoJob, Execution, Breaker, Job

LEMMA RecordedType ==
  ASSUME NEW c \in Breaker
  PROVE  Recorded(c) \in Breaker
<1>1. c.failures \in 0..Threshold /\ c.state \in {"closed", "open", "half"}
  BY DEF Breaker
<1> DEFINE n == IF c.failures < Threshold THEN c.failures + 1 ELSE c.failures
<1>2. n \in 0..Threshold
  BY <1>1
<1> QED
  BY <1>1, <1>2 DEF Recorded, Breaker

LEMMA AfterType ==
  ASSUME NEW y \in Execution, NEW e \in Error, After(e, y)
  PROVE  x' \in Execution /\ pc' \in {"primary", "failed"}
<1>1. y.try \in 1..MaxRetries
  BY DEF Execution
<1>2. CASE e \in {"limit", "auth"} /\ y.try < MaxRetries
  <2>1. y.try + 1 \in 1..MaxRetries
    BY <1>1, <1>2
  <2> QED
    BY <1>2, <2>1 DEF After, Execution
<1>3. CASE ~(e \in {"limit", "auth"} /\ y.try < MaxRetries)
  BY <1>3 DEF After, Execution
<1> QED
  BY <1>2, <1>3

(* An execution that goes on remembers whether a fallback has failed.       *)
LEMMA AfterKeeps ==
  ASSUME NEW y \in Execution, NEW e, After(e, y)
  PROVE  x'.fbFailed = y.fbFailed
BY DEF After, Execution

-----------------------------------------------------------------------------
(* Types, part by part: the loop's place and execution, the circuits, what  *)
(* is tracked and done, the rest.                                           *)
LoopType == pc \in Step \cup {"idle"} /\ job \in Job /\ x \in Execution
CircuitType == cb \in Breaker /\ central \in {"primary", "fallback", "over"}
TrackType ==
  /\ run \in Closes \cup {"none", "running"} /\ cut \in BOOLEAN /\ muted \in BOOLEAN
  /\ sent \subseteq Effect
MemoryType == ws \in Work /\ hot \subseteq Task /\ autoFailed \in BOOLEAN
OutsideType ==
  env \in Dals /\ dc \in BOOLEAN /\ stuck \in BOOLEAN /\ trouble \in 0..MaxTrouble

LEMMA TypeParts ==
  TypeOK <=> LoopType /\ CircuitType /\ TrackType /\ MemoryType /\ OutsideType
BY DEF TypeOK, LoopType, CircuitType, TrackType, MemoryType, OutsideType,
       Execution, Breaker, Job

LEMMA StepLoopType == TypeOK /\ [Next]_vars => LoopType'
<1> SUFFICES ASSUME LoopType, CircuitType, [Next]_vars
             PROVE  LoopType'
  BY TypeParts
<1>1. ASSUME NEW t \in Task, NEW kind \in {"msg", "query"}, TakeMessage(t, kind)
      PROVE  LoopType'
  BY <1>1, Starts DEF TakeMessage, LoopType, Job, Step
<1>2. CASE TakeAuto
  BY <1>2, Starts DEF TakeAuto, LoopType, Job, Step
<1>3. CASE Ask
  BY <1>3 DEF Ask, LoopType, Step
<1>4. CASE FallbackWorks
  BY <1>4, Starts DEF FallbackWorks, LoopType, Step
<1>5. CASE FallbackFails
  <2> DEFINE y == [x EXCEPT !.fbFailed = TRUE]
  <2>1. y \in Execution
    BY DEF LoopType, Execution
  <2>2. CASE pc = "switch"
    <3>1. CASE x.err \in Error
      <4>1. After(x.err, y)
        BY <1>5, <2>2 DEF FallbackFails
      <4>2. x' \in Execution /\ pc' \in {"primary", "failed"}
        BY <2>1, <3>1, <4>1, AfterType
      <4> QED
        BY <1>5, <4>2 DEF FallbackFails, LoopType, Step
    <3>2. CASE x.err = "none"
      <4>1. x' = [y EXCEPT !.err = "none"] /\ pc' = "failed" /\ job' = job
        BY <1>5, <2>2, <3>2 DEF FallbackFails, After
      <4> QED
        BY <2>1, <4>1 DEF LoopType, Step, Execution
    <3> QED
      BY <3>1, <3>2 DEF LoopType, Execution
  <2>3. CASE pc # "switch"
    BY <1>5, <2>1, <2>3 DEF FallbackFails, LoopType, Step
  <2> QED
    BY <2>2, <2>3
<1>6. CASE Local
  BY <1>6 DEF Local, LoopType, Step
<1>7. CASE PrimaryWorks
  BY <1>7, Starts DEF PrimaryWorks, LoopType, Step
<1>8. CASE PrimaryAuth
  <2>1. x' \in Execution /\ pc' \in {"primary", "failed"}
    BY <1>8, AfterType DEF PrimaryAuth, LoopType, Error
  <2> QED
    BY <1>8, <2>1 DEF PrimaryAuth, LoopType, Step
<1>9. ASSUME NEW e \in Error \ {"auth"}, PrimaryFails(e)
      PROVE  LoopType'
  <2>1. CASE cb'.state = "open" /\ HasFallback
    BY <1>9, <2>1 DEF PrimaryFails, LoopType, Step, Execution
  <2>2. CASE ~(cb'.state = "open" /\ HasFallback)
    <3>1. x' \in Execution /\ pc' \in {"primary", "failed"}
      BY <1>9, <2>2, AfterType DEF PrimaryFails, LoopType
    <3> QED
      BY <1>9, <3>1 DEF PrimaryFails, LoopType, Step
  <2> QED
    BY <2>1, <2>2
<1>10. CASE Repair
  <2>1. [Fresh EXCEPT !.second = TRUE] \in Execution
    <3>1. Fresh.second = FALSE /\ Fresh \in Execution
      BY Starts DEF Fresh
    <3> QED
      BY <3>1 DEF Execution
  <2> QED
    BY <1>10, <2>1 DEF Repair, LoopType, Step
<1>11. CASE Idle
  BY <1>11, Starts DEF Idle, LoopType
<1>12. CASE Verify
  BY <1>12 DEF Verify, LoopType, Step
<1>13. ASSUME NEW w, NEW e, GitDone(w, e)
       PROVE  LoopType'
  BY <1>13 DEF GitDone, LoopType, Step
<1>14. CASE \/ BreakerCools \/ CentralCools \/ OtherTrips \/ DaemonStops \/ DaemonStarts
            \/ Hang \/ Return \/ \E t \in Task : RepairCools(t)
  BY <1>14 DEF BreakerCools, CentralCools, OtherTrips, DaemonStops, DaemonStarts,
               Hang, Return, RepairCools, LoopType
<1>15. CASE UNCHANGED vars
  BY <1>15 DEF vars, LoopType
<1>16. EndsJob \/ Crash => Idle
  BY EndsAreIdle
<1>17. CASE GiveUp \/ Reply
  BY <1>17 DEF GiveUp, Reply, LoopType, Step
<1>18. ASSUME \/ GitSkip \/ GitFails
              \/ \E docsFirst \in BOOLEAN : GitDiscard(docsFirst)
              \/ \E e \in SUBSET {"commit", "push", "pr"} : GitCommit(e)
       PROVE  LoopType'
  BY <1>13, <1>18 DEF GitSkip, GitFails, GitDiscard, GitCommit
<1> QED
  BY <1>1, <1>2, <1>3, <1>4, <1>5, <1>6, <1>7, <1>8, <1>9, <1>10, <1>11, <1>12,
     <1>14, <1>15, <1>16, <1>17, <1>18 DEF Next, Loop, World, EndsJob

LEMMA StepCircuitType == TypeOK /\ [Next]_vars => CircuitType'
<1> SUFFICES ASSUME CircuitType, [Next]_vars
             PROVE  CircuitType'
  BY TypeParts
<1>1. Asked \in {"primary", "fallback", "over"} /\ Tripped \in {"primary", "fallback", "over"}
  BY DEF Asked, Tripped, CircuitType
<1>2. CASE UNCHANGED circuit
  BY <1>2 DEF circuit, CircuitType
<1>3. CASE Ask
  BY <1>1, <1>3 DEF Ask, CircuitType
<1>4. CASE Local
  BY <1>4 DEF Local, CircuitType, Breaker
<1>5. CASE PrimaryWorks
  BY <1>5, Starts DEF PrimaryWorks, Succeeded, CircuitType
<1>6. ASSUME NEW e \in Error, PrimaryFails(e)
      PROVE  CircuitType'
  <2>1. cb' \in Breaker
    BY <1>6, RecordedType DEF PrimaryFails, CircuitType
  <2> QED
    BY <1>1, <1>6, <2>1 DEF PrimaryFails, CircuitType
<1>7. CASE BreakerCools
  BY <1>7 DEF BreakerCools, CircuitType, Breaker
<1>8. CASE CentralCools \/ OtherTrips \/ DaemonStops
  BY <1>1, <1>8 DEF CentralCools, OtherTrips, DaemonStops, CircuitType
<1>9. CASE Crash
  BY <1>9, Starts DEF Crash, CircuitType
<1>10. ASSUME NEW w, NEW e, GitDone(w, e)
       PROVE  UNCHANGED circuit
  BY <1>10 DEF GitDone
<1>11. ASSUME \/ GitSkip \/ GitFails
              \/ \E docsFirst \in BOOLEAN : GitDiscard(docsFirst)
              \/ \E e \in SUBSET {"commit", "push", "pr"} : GitCommit(e)
       PROVE  UNCHANGED circuit
  BY <1>10, <1>11 DEF GitSkip, GitFails, GitDiscard, GitCommit
<1>12. ASSUME \/ \E t \in Task, kind \in {"msg", "query"} : TakeMessage(t, kind)
              \/ TakeAuto \/ FallbackWorks \/ FallbackFails \/ PrimaryAuth
              \/ Repair \/ GiveUp \/ Verify \/ Reply \/ EndsJob
              \/ \E t \in Task : RepairCools(t)
              \/ DaemonStarts \/ Hang \/ Return \/ UNCHANGED vars
       PROVE  UNCHANGED circuit
  BY <1>12 DEF TakeMessage, TakeAuto, FallbackWorks, FallbackFails, PrimaryAuth, Repair,
               GiveUp, Verify, Reply, EndsJob, Apologize, AutoFails, AutoDone, Answer,
               RepairCools, DaemonStarts, Hang, Return, vars, circuit
<1> QED
  BY <1>2, <1>3, <1>4, <1>5, <1>6, <1>7, <1>8, <1>9, <1>11, <1>12
     DEF Next, Loop, World, EndsJob

LEMMA StepTrackType == TypeOK /\ [Next]_vars => TrackType'
<1> SUFFICES ASSUME TrackType, OutsideType, [Next]_vars
             PROVE  TrackType'
  BY TypeParts
<1>1. CASE UNCHANGED tracking
  BY <1>1 DEF tracking, TrackType
<1>2. ASSUME NEW t \in Task, NEW kind \in {"msg", "query"}, TakeMessage(t, kind)
      PROVE  TrackType'
  BY <1>2 DEF TakeMessage, TrackType, Effect
<1>3. CASE TakeAuto
  BY <1>3 DEF TakeAuto, TrackType
<1>4. CASE Repair
  BY <1>4 DEF Repair, TrackType, Effect
<1>5. ASSUME NEW c \in Closes, Finish(c)
      PROVE  run' \in Closes \cup {"none", "running"} /\ cut' \in BOOLEAN
  BY <1>5 DEF Finish, TrackType
<1>6. CASE GiveUp \/ Reply
  <2>1. PICK c \in Closes : Finish(c)
    BY <1>6 DEF GiveUp, Reply, Closes
  <2> QED
    BY <1>5, <1>6, <2>1 DEF GiveUp, Reply, TrackType
<1>7. CASE EndsJob
  <2>1. UNCHANGED <<run, cut>> /\ muted' \in BOOLEAN
    BY <1>7 DEF EndsJob, Apologize, AutoFails, AutoDone, Answer, TrackType
  <2>2. sent' \subseteq Effect
    BY <1>7 DEF EndsJob, Apologize, AutoFails, AutoDone, Answer, TrackType, Effect
  <2> QED
    BY <2>1, <2>2 DEF TrackType
<1>9. ASSUME NEW w, NEW e \in SUBSET Effect, GitDone(w, e)
      PROVE  TrackType'
  BY <1>9 DEF GitDone, TrackType
<1>10. ASSUME \/ GitSkip \/ GitFails
              \/ \E docsFirst \in BOOLEAN : GitDiscard(docsFirst)
              \/ \E e \in SUBSET {"commit", "push", "pr"} : GitCommit(e)
       PROVE  TrackType'
  <2>1. SUBSET {"commit", "push", "pr"} \subseteq SUBSET Effect /\ {} \in SUBSET Effect
    BY DEF Effect
  <2> QED
    BY <1>9, <1>10, <2>1 DEF GitSkip, GitFails, GitDiscard, GitCommit
<1>12. CASE Crash
  BY <1>12 DEF Crash, TrackType
<1>13. ASSUME \/ Ask \/ FallbackWorks \/ FallbackFails \/ Local
              \/ PrimaryWorks \/ PrimaryAuth
              \/ \E e \in Error \ {"auth"} : PrimaryFails(e)
              \/ Verify \/ BreakerCools \/ CentralCools
              \/ \E t \in Task : RepairCools(t)
              \/ OtherTrips \/ DaemonStops \/ DaemonStarts \/ Hang \/ Return
              \/ UNCHANGED vars
       PROVE  UNCHANGED tracking
  BY <1>13 DEF Ask, FallbackWorks, FallbackFails, Local, PrimaryWorks, PrimaryAuth,
               PrimaryFails, Verify, BreakerCools, CentralCools, RepairCools, OtherTrips,
               DaemonStops, DaemonStarts, Hang, Return, vars, tracking
<1> QED
  BY <1>1, <1>2, <1>3, <1>4, <1>6, <1>7, <1>10, <1>12, <1>13
     DEF Next, Loop, World, EndsJob

LEMMA StepRestType ==
  TypeOK /\ MessageHasText /\ [Next]_vars => MemoryType' /\ OutsideType'
<1> SUFFICES ASSUME LoopType, MessageHasText, MemoryType, OutsideType, [Next]_vars
             PROVE  MemoryType' /\ OutsideType'
  BY TypeParts
<1>1. UNCHANGED outside => OutsideType'
  BY DEF outside, OutsideType
<1>2. UNCHANGED <<ws, memory>> => MemoryType'
  BY DEF memory, MemoryType
<1>3. CASE OtherTrips \/ DaemonStops \/ DaemonStarts \/ Hang \/ Return
  <2>1. trouble' \in 0..MaxTrouble /\ env' = env
    BY <1>3 DEF OtherTrips, DaemonStops, DaemonStarts, Hang, Return, Trouble, OutsideType
  <2>2. dc' \in BOOLEAN /\ stuck' \in BOOLEAN
    BY <1>3 DEF OtherTrips, DaemonStops, DaemonStarts, Hang, Return, OutsideType
  <2>3. UNCHANGED <<ws, memory>>
    BY <1>3 DEF OtherTrips, DaemonStops, DaemonStarts, Hang, Return
  <2> QED
    BY <1>2, <2>1, <2>2, <2>3 DEF OutsideType
<1>4. CASE Crash
  <2>1. trouble' \in 0..MaxTrouble
    BY <1>4 DEF Crash, Trouble, OutsideType
  <2>2. Clean \in Work
    BY DEF Clean, Work
  <2> QED
    BY <1>4, <2>1, <2>2 DEF Crash, MemoryType, OutsideType
<1>5. CASE Repair
  <2>1. hot' \subseteq Task
    BY <1>5 DEF Repair, MessageHasText, MemoryType
  <2> QED
    BY <1>1, <1>5, <2>1 DEF Repair, MemoryType
<1>6. CASE GiveUp
  <2>1. hot' \subseteq Task
    BY <1>6 DEF GiveUp, MessageHasText, MemoryType
  <2> QED
    BY <1>1, <1>6, <2>1 DEF GiveUp, MemoryType
<1>7. CASE EndsJob
  <2>1. Clean \in Work
    BY DEF Clean, Work
  <2> QED
    BY <1>1, <1>7, <2>1
    DEF EndsJob, Apologize, AutoFails, AutoDone, Answer, memory, MemoryType
<1>9. CASE Verify
  <2>1. ws' \in Work
    BY <1>9, LeftAssumption DEF Verify
  <2> QED
    BY <1>1, <1>9, <2>1 DEF Verify, memory, MemoryType
<1>10. ASSUME NEW w \in Work, NEW e, GitDone(w, e)
       PROVE  MemoryType' /\ OutsideType'
  BY <1>1, <1>10 DEF GitDone, memory, MemoryType
<1>11. ASSUME \/ GitSkip \/ GitFails
              \/ \E docsFirst \in BOOLEAN : GitDiscard(docsFirst)
              \/ \E e \in SUBSET {"commit", "push", "pr"} : GitCommit(e)
       PROVE  MemoryType' /\ OutsideType'
  <2>1. /\ ws \in Work
        /\ [ws EXCEPT !.mod = {}] \in Work
        /\ [mod |-> ws.mod \ Staged(ws), new |-> ws.new \ Staged(ws)] \in Work
    BY DEF MemoryType, Work
  <2> QED
    BY <1>10, <1>11, <2>1 DEF GitSkip, GitFails, GitDiscard, GitCommit
<1>13. CASE \E t \in Task : RepairCools(t)
  BY <1>1, <1>13 DEF RepairCools, MemoryType
<1>14. ASSUME \/ \E t \in Task, kind \in {"msg", "query"} : TakeMessage(t, kind)
              \/ TakeAuto \/ Ask \/ FallbackWorks \/ FallbackFails \/ Local
              \/ PrimaryWorks \/ PrimaryAuth
              \/ \E e \in Error \ {"auth"} : PrimaryFails(e)
              \/ Reply \/ BreakerCools \/ CentralCools \/ UNCHANGED vars
       PROVE  UNCHANGED outside /\ UNCHANGED <<ws, memory>>
  BY <1>14 DEF TakeMessage, TakeAuto, Ask, FallbackWorks, FallbackFails, Local,
               PrimaryWorks, PrimaryAuth, PrimaryFails, Reply, BreakerCools, CentralCools,
               vars, outside, memory
<1> QED
  BY <1>1, <1>2, <1>3, <1>4, <1>5, <1>6, <1>7, <1>9, <1>11, <1>13, <1>14
     DEF Next, Loop, World, EndsJob

LEMMA StepText == TypeOK /\ MessageHasText /\ [Next]_vars => MessageHasText'
<1> SUFFICES ASSUME MessageHasText, [Next]_vars
             PROVE  MessageHasText'
  OBVIOUS
<1>1. CASE UNCHANGED job
  BY <1>1 DEF MessageHasText
<1>2. CASE Idle
  BY <1>2 DEF Idle, NoJob, MessageHasText
<1>3. ASSUME NEW t \in Task, NEW kind \in {"msg", "query"}, TakeMessage(t, kind)
      PROVE  MessageHasText'
  BY <1>3 DEF TakeMessage, MessageHasText
<1>4. CASE TakeAuto
  BY <1>4 DEF TakeAuto, MessageHasText
<1>5. EndsJob \/ Crash => Idle
  BY EndsAreIdle
<1>6. ASSUME \/ GitSkip \/ GitFails
             \/ \E docsFirst \in BOOLEAN : GitDiscard(docsFirst)
             \/ \E e \in SUBSET {"commit", "push", "pr"} : GitCommit(e)
      PROVE  UNCHANGED job
  BY <1>6 DEF GitSkip, GitFails, GitDiscard, GitCommit, GitDone
<1>7. ASSUME \/ Ask \/ FallbackWorks \/ FallbackFails \/ Local
             \/ PrimaryWorks \/ PrimaryAuth
             \/ \E e \in Error \ {"auth"} : PrimaryFails(e)
             \/ Repair \/ GiveUp \/ Verify \/ Reply \/ BreakerCools \/ CentralCools
             \/ \E t \in Task : RepairCools(t)
             \/ OtherTrips \/ DaemonStops \/ DaemonStarts \/ Hang \/ Return
             \/ UNCHANGED vars
      PROVE  UNCHANGED job
  BY <1>7 DEF Ask, FallbackWorks, FallbackFails, Local, PrimaryWorks, PrimaryAuth,
              PrimaryFails, Repair, GiveUp, Verify, Reply, BreakerCools, CentralCools,
              RepairCools, OtherTrips, DaemonStops, DaemonStarts, Hang, Return, vars
<1> QED
  BY <1>1, <1>2, <1>3, <1>4, <1>5, <1>6, <1>7 DEF Next, Loop, World, EndsJob

LEMMA StepType == TypeOK /\ MessageHasText /\ [Next]_vars => TypeOK'
<1>1. TypeOK' <=> LoopType' /\ CircuitType' /\ TrackType' /\ MemoryType' /\ OutsideType'
  BY DEF TypeOK, LoopType, CircuitType, TrackType, MemoryType, OutsideType,
         Execution, Breaker, Job
<1> QED
  BY <1>1, StepLoopType, StepCircuitType, StepTrackType, StepRestType

-----------------------------------------------------------------------------
(* The breaker is open, or half-open, exactly from the threshold on.        *)
LEMMA StepCounts == TypeOK /\ BreakerCounts /\ [Next]_vars => BreakerCounts'
<1> SUFFICES ASSUME CircuitType, BreakerCounts, [Next]_vars
             PROVE  BreakerCounts'
  BY TypeParts
<1>1. cb \in Breaker
  BY DEF CircuitType
<1>2. CASE UNCHANGED cb
  BY <1>2 DEF BreakerCounts
<1>3. CASE cb' = Closed
  BY <1>3 DEF BreakerCounts, Closed
<1>4. CASE cb' = Recorded(cb)
  <2>1. cb.failures \in 0..Threshold /\ cb.state \in {"closed", "open", "half"}
    BY <1>1 DEF Breaker
  <2> QED
    BY <1>4, <2>1 DEF BreakerCounts, Recorded
<1>5. CASE Local
  BY <1>1, <1>5 DEF Local, BreakerCounts, Breaker
<1>6. CASE BreakerCools
  BY <1>1, <1>6 DEF BreakerCools, BreakerCounts, Breaker
<1>7. ASSUME PrimaryWorks \/ Crash
      PROVE  cb' = Closed
  BY <1>7 DEF PrimaryWorks, Succeeded, Crash
<1>8. ASSUME NEW e \in Error, PrimaryFails(e)
      PROVE  cb' = Recorded(cb)
  BY <1>8 DEF PrimaryFails
<1>9. ASSUME \/ GitSkip \/ GitFails
             \/ \E docsFirst \in BOOLEAN : GitDiscard(docsFirst)
             \/ \E e \in SUBSET {"commit", "push", "pr"} : GitCommit(e)
      PROVE  UNCHANGED cb
  BY <1>9 DEF GitSkip, GitFails, GitDiscard, GitCommit, GitDone, circuit
<1>10. ASSUME \/ \E t \in Task, kind \in {"msg", "query"} : TakeMessage(t, kind)
              \/ TakeAuto \/ Ask \/ FallbackWorks \/ FallbackFails \/ PrimaryAuth
              \/ Repair \/ GiveUp \/ Verify \/ Reply \/ EndsJob
              \/ CentralCools \/ \E t \in Task : RepairCools(t)
              \/ OtherTrips \/ DaemonStops \/ DaemonStarts \/ Hang \/ Return
              \/ UNCHANGED vars
       PROVE  UNCHANGED cb
  BY <1>10 DEF TakeMessage, TakeAuto, Ask, FallbackWorks, FallbackFails, PrimaryAuth,
               Repair, GiveUp, Verify, Reply, EndsJob, Apologize, AutoFails, AutoDone,
               Answer, CentralCools, RepairCools, OtherTrips, DaemonStops, DaemonStarts,
               Hang, Return, vars, circuit
<1> QED
  BY <1>2, <1>3, <1>4, <1>5, <1>6, <1>7, <1>8, <1>9, <1>10 DEF Next, Loop, World, EndsJob

(* Whoever comes to call the primary asked the breaker, or failed with a    *)
(* fallback.                                                                *)
LEMMA StepShielded ==
  TypeOK /\ PrimaryShielded /\ [Next]_vars => PrimaryShielded'
<1> SUFFICES ASSUME LoopType, PrimaryShielded, [Next]_vars,
                    pc' = "primary", cb'.state = "open", HasFallback'
             PROVE  x'.fbFailed
  BY TypeParts DEF PrimaryShielded
<1>1. x \in Execution
  BY DEF LoopType
<1>2. CASE FallbackFails
  <2> DEFINE y == [x EXCEPT !.fbFailed = TRUE]
  <2>1. y \in Execution /\ y.fbFailed
    BY <1>1 DEF Execution
  <2>2. x' = y \/ After(x.err, y)
    BY <1>2 DEF FallbackFails
  <2> HIDE DEF y
  <2> QED
    BY <2>1, <2>2, AfterKeeps
<1>3. CASE Local
  BY <1>3 DEF Local, HasFallback, outside
<1>4. CASE PrimaryAuth
  <2>1. x.fbFailed
    BY <1>4 DEF PrimaryAuth, PrimaryShielded, HasFallback, circuit, outside
  <2> QED
    BY <1>1, <1>4, <2>1, AfterKeeps DEF PrimaryAuth
<1>5. ASSUME NEW e \in Error, PrimaryFails(e)
      PROVE  FALSE
  BY <1>5 DEF PrimaryFails, HasFallback, outside
<1>6. CASE BreakerCools
  <2>1. cb.state = "open" /\ pc = "primary" /\ HasFallback /\ x' = x
    BY <1>6 DEF BreakerCools, HasFallback, outside
  <2> QED
    BY <2>1 DEF PrimaryShielded
<1>7. CASE UNCHANGED <<env, pc, x, cb>>
  BY <1>7 DEF PrimaryShielded, HasFallback
<1>8. ASSUME \/ CentralCools \/ \E t \in Task : RepairCools(t)
             \/ OtherTrips \/ DaemonStops \/ DaemonStarts \/ Hang \/ Return
             \/ UNCHANGED vars
      PROVE  UNCHANGED <<env, pc, x, cb>>
  BY <1>8 DEF CentralCools, RepairCools, OtherTrips, DaemonStops, DaemonStarts, Hang,
              Return, vars, circuit, outside
<1>9. ASSUME \/ GitSkip \/ GitFails
             \/ \E docsFirst \in BOOLEAN : GitDiscard(docsFirst)
             \/ \E e \in SUBSET {"commit", "push", "pr"} : GitCommit(e)
      PROVE  FALSE
  BY <1>9 DEF GitSkip, GitFails, GitDiscard, GitCommit, GitDone
<1>10. ASSUME \/ \E t \in Task, kind \in {"msg", "query"} : TakeMessage(t, kind)
              \/ TakeAuto \/ Ask \/ FallbackWorks \/ PrimaryWorks
              \/ Repair \/ GiveUp \/ Verify \/ Reply \/ EndsJob \/ Crash
       PROVE  FALSE
  BY <1>10, EndsAreIdle
     DEF TakeMessage, TakeAuto, Ask, FallbackWorks, PrimaryWorks, Repair, GiveUp, Verify,
         Reply, Idle
<1> QED
  BY <1>2, <1>3, <1>4, <1>5, <1>6, <1>7, <1>8, <1>9, <1>10 DEF Next, Loop, World, EndsJob

(* The run is closed before the answer, or found impossible to close; from   *)
(* then on nothing but the answer of its kind follows.                       *)
LEMMA StepStory ==
  TypeOK /\ StoryOpen /\ RunMatchesAnswer /\ [Next]_vars
    => StoryOpen' /\ RunMatchesAnswer'
<1> SUFFICES ASSUME TypeOK, StoryOpen, RunMatchesAnswer, [Next]_vars
             PROVE  StoryOpen' /\ RunMatchesAnswer'
  OBVIOUS
<1> USE DEF Answered, Apologized
<1>0. pc \in Working \cup {"idle", "apology", "answer"} /\ run \in Closes \cup {"none", "running"}
  BY DEF TypeOK, Working, Step
<1>w. {"idle", "apology", "answer"} \cap Working = {}
  BY DEF Working, Step
<1>1. ASSUME UNCHANGED <<tracking, job>>, pc' = pc \/ (pc \in Working /\ pc' \in Working)
      PROVE  StoryOpen' /\ RunMatchesAnswer'
  BY <1>1, <1>w DEF tracking, StoryOpen, RunMatchesAnswer
<1>2. ASSUME NEW t \in Task, NEW kind \in {"msg", "query"}, TakeMessage(t, kind)
      PROVE  StoryOpen' /\ RunMatchesAnswer'
  <2>1. /\ pc' \in Working /\ job'.kind # "auto" /\ run' \in {"none", "running"}
        /\ sent' \subseteq {"status"}
    BY <1>2 DEF TakeMessage, Working, Step
  <2> QED
    BY <2>1, <1>w DEF StoryOpen, RunMatchesAnswer
<1>3. CASE TakeAuto
  <2>1. pc' \in Working /\ run' = "none" /\ sent' = {}
    BY <1>3 DEF TakeAuto, Working, Step
  <2> QED
    BY <2>1, <1>w DEF StoryOpen, RunMatchesAnswer
<1>4. CASE Repair
  <2>1. /\ pc \in Working /\ pc' \in Working /\ job' = job /\ run' = run
        /\ sent' \subseteq sent \cup {"repairing"}
    BY <1>4 DEF Repair, Working, Step
  <2> QED
    BY <2>1, <1>w DEF StoryOpen, RunMatchesAnswer
<1>5. ASSUME GiveUp \/ Reply
      PROVE  StoryOpen' /\ RunMatchesAnswer'
  <2>1. /\ pc \in Working /\ run \in {"none", "running"} /\ sent' = sent
        /\ sent \cap {"final", "failure"} = {}
    BY <1>5 DEF GiveUp, Reply, StoryOpen, Working, Step
  <2>2. CASE GiveUp
    <3>1. PICK c \in {"blocked", "failed"} : Finish(c)
      BY <2>2 DEF GiveUp
    <3>2. run' \in {"none", "failed", "blocked"} \/ (run' = "running" /\ cut')
      BY <2>1, <3>1 DEF Finish
    <3> QED
      BY <2>1, <2>2, <3>2, <1>w DEF GiveUp, StoryOpen, RunMatchesAnswer
  <2>3. CASE Reply
    <3>1. PICK c \in {"noop", "done"} : Finish(c)
      BY <2>3 DEF Reply
    <3>2. run' \in {"none", "done", "noop"} \/ (run' = "running" /\ cut')
      BY <2>1, <3>1 DEF Finish
    <3> QED
      BY <2>1, <2>3, <3>2, <1>w DEF Reply, StoryOpen, RunMatchesAnswer
  <2> QED
    BY <1>5, <2>2, <2>3
<1>6. ASSUME \/ \E e \in SUBSET {"notice", "escalation"} : AutoFails(e)
             \/ \E e \in SUBSET {"issue", "notice"} : AutoDone(e)
      PROVE  StoryOpen' /\ RunMatchesAnswer'
  <2>1. pc \in Working /\ job.kind = "auto"
    BY <1>6 DEF AutoFails, AutoDone, Working, Step
  <2>2. /\ pc' = "idle" /\ run' = "none"
        /\ sent' \subseteq sent \cup {"notice", "escalation", "issue"}
    BY <1>6, <2>1 DEF AutoFails, AutoDone, Idle, StoryOpen
  <2>3. sent' \cap {"final", "failure"} = {}
    BY <2>1, <2>2 DEF StoryOpen
  <2> QED
    BY <2>2, <2>3, <1>w DEF StoryOpen, RunMatchesAnswer, Closes
<1>7. ASSUME NEW w, NEW e \in SUBSET {"commit", "push", "pr"}, pc = "git", GitDone(w, e)
      PROVE  StoryOpen' /\ RunMatchesAnswer'
  <2>1. /\ pc \in Working /\ pc' \in Working /\ job' = job /\ run' = run
        /\ sent' \subseteq sent \cup {"commit", "push", "pr"}
    BY <1>7 DEF GitDone, Working, Step
  <2> QED
    BY <2>1, <1>w DEF StoryOpen, RunMatchesAnswer
<1>8. ASSUME \/ GitSkip \/ GitFails
             \/ \E docsFirst \in BOOLEAN : GitDiscard(docsFirst)
             \/ \E e \in SUBSET {"commit", "push", "pr"} : GitCommit(e)
      PROVE  StoryOpen' /\ RunMatchesAnswer'
  <2>1. {} \in SUBSET {"commit", "push", "pr"}
    OBVIOUS
  <2> QED
    BY <1>7, <1>8, <2>1 DEF GitSkip, GitFails, GitDiscard, GitCommit, MayCommit
<1>9. ASSUME NEW e \in SUBSET {"final", "report"}, Answer(e)
      PROVE  StoryOpen' /\ RunMatchesAnswer'
  <2>1. /\ pc' = "idle" /\ UNCHANGED <<run, cut>> /\ sent' = sent \cup e
        /\ muted' = ("final" \notin e) /\ sent \cap {"final", "failure"} = {}
        /\ run \in {"none", "done", "noop"} \/ (run = "running" /\ cut)
    BY <1>9 DEF Answer, Idle, StoryOpen
  <2> QED
    BY <2>1, <1>w DEF StoryOpen, RunMatchesAnswer, Closes
<1>10. ASSUME NEW e \in SUBSET {"failure", "escalation", "claim"}, Apologize(e)
       PROVE  StoryOpen' /\ RunMatchesAnswer'
  <2>1. /\ pc' = "idle" /\ UNCHANGED <<run, cut>> /\ sent' = sent \cup e
        /\ muted' = ("failure" \notin e) /\ sent \cap {"final", "failure"} = {}
        /\ run \in {"none", "failed", "blocked"} \/ (run = "running" /\ cut)
    BY <1>10 DEF Apologize, Idle, StoryOpen
  <2> QED
    BY <2>1, <1>w DEF StoryOpen, RunMatchesAnswer, Closes
<1>11. CASE Crash
  <2>1. /\ pc' = "idle" /\ run' = run /\ sent' = sent /\ cut' = (cut \/ run = "running")
        /\ muted' = (muted \/ pc \in {"apology", "answer"})
    BY <1>11 DEF Crash, Idle
  <2>2. StoryOpen'
    BY <2>1, <1>w DEF StoryOpen
  <2>3. CASE pc = "idle"
    BY <2>1, <2>2, <2>3 DEF RunMatchesAnswer
  <2>4. CASE pc \in Working
    BY <2>1, <2>2, <2>4 DEF StoryOpen, RunMatchesAnswer, Closes
  <2>5. CASE pc \in {"apology", "answer"}
    BY <2>1, <2>2, <2>5 DEF StoryOpen, RunMatchesAnswer
  <2> QED
    BY <1>0, <2>3, <2>4, <2>5
<1>12. ASSUME \/ Ask \/ FallbackWorks \/ FallbackFails \/ Local
              \/ PrimaryWorks \/ PrimaryAuth
              \/ \E e \in Error \ {"auth"} : PrimaryFails(e)
              \/ Verify
       PROVE  UNCHANGED <<tracking, job>> /\ pc \in Working /\ pc' \in Working
  BY <1>12 DEF Ask, FallbackWorks, FallbackFails, Local, PrimaryWorks, PrimaryAuth,
               PrimaryFails, Verify, After, Working, Step
<1>13. ASSUME \/ BreakerCools \/ CentralCools \/ \E t \in Task : RepairCools(t)
              \/ OtherTrips \/ DaemonStops \/ DaemonStarts \/ Hang \/ Return
              \/ UNCHANGED vars
       PROVE  UNCHANGED <<tracking, job>> /\ pc' = pc
  BY <1>13 DEF BreakerCools, CentralCools, RepairCools, OtherTrips, DaemonStops,
               DaemonStarts, Hang, Return, vars, tracking
<1> QED
  BY <1>1, <1>2, <1>3, <1>4, <1>5, <1>6, <1>8, <1>9, <1>10, <1>11, <1>12, <1>13
     DEF Next, Loop, World

LEMMA InitAgent == Init => AgentInv
<1> SUFFICES ASSUME Init
             PROVE  AgentInv
  OBVIOUS
<1>1. LoopType /\ CircuitType
  BY Starts DEF Init, LoopType, CircuitType
<1>2. TrackType
  BY DEF Init, TrackType
<1>3. MemoryType
  BY DEF Init, MemoryType, Clean, Work
<1>4. OutsideType
  <2>1. dc \in BOOLEAN /\ stuck \in BOOLEAN /\ trouble = 0
    BY DEF Init
  <2> QED
    BY <2>1 DEF Init, OutsideType
<1>5. MessageHasText /\ BreakerCounts /\ PrimaryShielded
  BY DEF Init, MessageHasText, NoJob, BreakerCounts, Closed, PrimaryShielded
<1>6. StoryOpen /\ RunMatchesAnswer
  BY DEF Init, StoryOpen, RunMatchesAnswer, Answered, Apologized, Closes, Working, Step
<1> QED
  BY <1>1, <1>2, <1>3, <1>4, <1>5, <1>6, TypeParts DEF AgentInv

(* The invariant of the loop: its types, the breaker's count, and the state *)
(* of a run while its job is worked on (cmd_run.go, circuit_breaker.go).    *)
THEOREM AgentInvariant == Spec => []AgentInv
<1>1. AgentInv /\ [Next]_vars => AgentInv'
  BY StepType, StepText, StepCounts, StepShielded, StepStory DEF AgentInv
<1> QED
  BY InitAgent, <1>1, PTL DEF Spec

(* The breaker's state and its count agree (circuit_breaker.go).            *)
THEOREM BreakerCorrect == Spec => []BreakerCounts
<1>1. AgentInv => BreakerCounts
  BY DEF AgentInv
<1> QED
  BY AgentInvariant, <1>1, PTL

(* While the breaker is open a dal with a fallback calls the primary only   *)
(* after a fallback failed it (cmd_run.go: executeTask).                    *)
THEOREM PrimarySpared == Spec => []PrimaryShielded
<1>1. AgentInv => PrimaryShielded
  BY DEF AgentInv
<1> QED
  BY AgentInvariant, <1>1, PTL

(* The tracked run and the channel never contradict each other: no answer   *)
(* before the run is closed, none of the other kind, and a closed run is    *)
(* without its answer only when the post failed or the process died between *)
(* the two calls (cmd_run.go: runAgentLoop, finishTrackedRun).              *)
THEOREM OneStory == Spec => []RunMatchesAnswer
<1>1. AgentInv => RunMatchesAnswer
  BY DEF AgentInv
<1> QED
  BY AgentInvariant, <1>1, PTL
=============================================================================
