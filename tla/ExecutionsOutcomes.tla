-------------------------- MODULE ExecutionsOutcomes --------------------------
(***************************************************************************)
(* Who may end what, for all constants: a result comes from the one worker *)
(* that holds the lease, a failure from the execution of the revision, a   *)
(* deleted object stays deleted; together, Executions implements Requests. *)
(***************************************************************************)
EXTENDS ExecutionsSafety, ExecutionsRefinement

(* Revisions count from 0, and those of children stay there.               *)
RevisionsStart ==
  /\ \A o \in Objects : ostat[o] = "none" => rev[o] = 0
  /\ \A o \in Children : rev[o] = 0

OutcomeInv == SafeInv /\ RevisionsStart /\ TokensDiffer /\ OperationsStayOpen

-----------------------------------------------------------------------------
(* What the users' transactions do to an object.                           *)

Submitted ==
  /\ \E o \in Objects, to \in {"processing", "draft"} :
       ostat[o] = "none" /\ ostat' = [ostat EXCEPT ![o] = to]
  /\ rev' = rev

Revised ==
  \E o \in Objects \ Children, to \in {"processing", "learning", "cancelled", "ready", "draft", "published"} :
    /\ ostat[o] \in Existing /\ (Open(o) => to \in {"cancelled", "processing"})
    /\ rev' = [rev EXCEPT ![o] = @ + 1] /\ ostat' = [ostat EXCEPT ![o] = to]

Deleted ==
  /\ \E S \in SUBSET Objects :
       /\ S # {} /\ \A o \in S : ostat[o] \in Existing
       /\ ostat' = [o \in Objects |-> IF o \in S THEN "deleted" ELSE ostat[o]]
       /\ \A e \in Exec : e[1] \in S /\ e[1] \in Operations => estat'[e] # "running"
  /\ rev' = rev

LEMMA InsertSubmits ==
  ASSUME SafeInv, RevisionsStart, NEW o \in Objects \ Templates, NEW except, Insert(o, except)
  PROVE  Submitted
<1>1. ostat[o] = "none"
  <2>1. 0 \in 0..MaxRevision
    BY LimitsAssumption
  <2> QED
    BY <2>1 DEF Insert, Fresh, Missing, SafeInv, RowsMatchObjects
<1>2. rev' = rev
  BY <1>1 DEF Insert, RevisionsStart, SafeInv, TypeInv, TypeOK
<1> QED
  BY <1>1, <1>2 DEF Insert, Submitted

LEMMA UserObjects ==
  ASSUME SafeInv, RevisionsStart, NEW o \in Objects, User(o)
  PROVE  Submitted \/ Revised \/ Deleted
<1> USE DEF SafeInv, TypeInv, TypeOK
<1>1. CASE CreateTask(o) \/ CreateExport(o) \/ CreateOperation(o)
  <2>1. o \in Objects \ Templates
    BY <1>1, KindsAssumption DEF CreateTask, CreateExport, CreateOperation, Children, Objects
  <2> QED
    BY <1>1, <2>1, InsertSubmits DEF CreateTask, CreateExport, CreateOperation
<1>2. CASE CreateTemplate(o)
  BY <1>2 DEF CreateTemplate, RevisionsStart, Submitted
<1>3. CASE \/ Cancel(o) \/ ConfirmMapping(o) \/ UpdateTemplate(o) \/ Publish(o)
           \/ Retry(o) \/ UploadSource(o) \/ RetryTemplate(o) \/ Reparse(o) \/ AiSuggest(o)
  <2>1. o \in Objects \ Children
    BY <1>3, KindsAssumption DEF Cancel, ConfirmMapping, UpdateTemplate, Publish, Retry, UploadSource,
       RetryTemplate, Reparse, AiSuggest
  <2>2. \E to \in {"processing", "learning", "cancelled", "ready", "draft", "published"} :
          /\ Revise(o, Existing, to) /\ (Open(o) => to \in {"cancelled", "processing"})
    BY <1>3 DEF Cancel, ConfirmMapping, UpdateTemplate, Publish, Retry, UploadSource, RetryTemplate,
       Reparse, AiSuggest, ReviseIdle, ReviseOpen, Revise, Open, Existing, ObjectStatus
  <2> QED
    BY <2>1, <2>2 DEF Revised, Revise
<1>4. CASE DeleteTask(o)
  <2> DEFINE S == {x \in Objects : (x = o \/ (x \in Children /\ Parent[x] = o)) /\ ~Missing(x)}
  <2>1. S \in SUBSET Objects /\ S # {} /\ \A x \in S : ostat[x] \in Existing
    BY <1>4 DEF DeleteTask, Missing, Existing
  <2>2. ostat' = [x \in Objects |-> IF x \in S THEN "deleted" ELSE ostat[x]]
    BY <1>4 DEF DeleteTask
  <2>3. \A e \in Exec : e[1] \in S => estat'[e] # "running"
    BY <1>4 DEF DeleteTask, Unfinished, Waiting
  <2> HIDE DEF S
  <2> QED
    BY <1>4, <2>1, <2>2, <2>3 DEF DeleteTask, Deleted
<1>5. CASE DeleteTemplate(o)
  <2>1. /\ {o} \in SUBSET Objects /\ {o} # {} /\ ostat[o] \in Existing /\ rev' = rev
        /\ ostat' = [x \in Objects |-> IF x \in {o} THEN "deleted" ELSE ostat[x]]
        /\ o \notin Operations
    BY <1>5, KindsAssumption DEF DeleteTemplate, Missing, Existing, Children
  <2> QED
    BY <2>1 DEF Deleted
<1> QED
  BY <1>1, <1>2, <1>3, <1>4, <1>5 DEF User

-----------------------------------------------------------------------------
(* What the system does to an object.                                      *)

(* The worker that publishes holds the lease of what it read.              *)
Publishes(w) ==
  /\ wpc[w] = "working" /\ wpc'[w] = "ending" /\ Fenced(w)
  /\ Thing(w) \in Objects /\ Open(Thing(w)) /\ wseen[w] = rev[Thing(w)]
  /\ ostat' = [ostat EXCEPT ![Thing(w)] = Result(Thing(w))]

Failed ==
  \E E \in SUBSET Exec :
    FailObjects(E) /\ \A e \in E : estat[e] = "running" /\ estat'[e] = "failed"

Concluded == rev' = rev /\ (Failed \/ \E w \in Workers : Publishes(w))

LEMMA SystemObjects ==
  ASSUME OutcomeInv, NEW w \in Workers, Body(w) \/ Finish(w)
  PROVE  Concluded \/ UNCHANGED <<rev, ostat>>
<1> USE DEF OutcomeInv, SafeInv, TypeInv, TypeOK
<1>0. wpc[w] # "idle" => At(w) \in Exec /\ Thing(w) \in Objects /\ Thing(w) = At(w)[1]
  BY Ids DEF At, Thing
<1>1. CASE BodyRead(w) \/ BodyError(w)
  BY <1>1 DEF BodyRead, BodyError, objVars
<1>2. CASE BodyPublish(w)
  <2>1. CASE ostat' = ostat
    BY <1>2, <2>1 DEF BodyPublish
  <2>2. CASE /\ ~Missing(Thing(w)) /\ ~Outdated(w) /\ Fenced(w) /\ Goto(w, "ending")
             /\ ostat' = [ostat EXCEPT ![Thing(w)] = Result(Thing(w))]
    <3>1. CASE Thing(w) \in Operations
      <4>1. ostat[Thing(w)] = "processing"
        BY <1>2, <2>2, <3>1 DEF BodyPublish, OperationsStayOpen, InBody
      <4>2. wseen[w] = rev[Thing(w)]
        <5>1. rev[Thing(w)] = 0 /\ wseen[w] \in Nat
          BY <3>1, LimitsAssumption DEF RevisionsStart, Children
        <5>2. wseen[w] <= rev[Thing(w)]
          BY <1>2 DEF BodyPublish, WorkersMatchRows
        <5> QED
          BY <5>1, <5>2
      <4> QED
        BY <1>0, <1>2, <2>2, <4>1, <4>2 DEF BodyPublish, Goto, Concluded, Publishes, Open
    <3>2. CASE Thing(w) \notin Operations
      BY <1>0, <1>2, <2>2, <3>2 DEF BodyPublish, Outdated, Expected, Goto, Concluded, Publishes, Open
    <3> QED
      BY <3>1, <3>2
  <2> QED
    BY <1>2, <2>1, <2>2 DEF BodyPublish
<1>3. CASE Finish(w)
  <2>1. CASE ostat' = ostat
    BY <1>3, <2>1 DEF Finish
  <2>2. ASSUME Fenced(w), NEW outcome \in {"succeeded", "pending", "failed"},
               estat' = [estat EXCEPT ![At(w)] = outcome],
               FailObjects(IF outcome = "failed" THEN {At(w)} ELSE {})
        PROVE  Failed
    <3>1. At(w) \in Exec /\ estat[At(w)] = "running"
      BY <1>0, <1>3, <2>2 DEF Finish, Fenced
    <3>2. CASE outcome = "failed"
      <4>1. FailObjects({At(w)}) /\ {At(w)} \in SUBSET Exec
        BY <2>2, <3>1, <3>2
      <4>2. \A e \in {At(w)} : estat[e] = "running" /\ estat'[e] = "failed"
        BY <2>2, <3>1, <3>2
      <4> QED
        BY <4>1, <4>2 DEF Failed
    <3>3. CASE outcome # "failed"
      BY <2>2, <3>3 DEF Failed
    <3> QED
      BY <3>2, <3>3
  <2>3. CASE Fenced(w)
    BY <1>3, <2>2, <2>3 DEF Finish, Concluded
  <2> QED
    BY <1>3, <2>1, <2>3 DEF Finish
<1> QED
  BY <1>1, <1>2, <1>3 DEF Body

LEMMA RecoverObjects ==
  ASSUME NEW d \in Dispatchers, Recover(d)
  PROVE  Concluded
<1> DEFINE last == {e \in Lapsed : Exhausted(e)}
<1>1. last \in SUBSET Exec /\ FailObjects(last) /\ rev' = rev
  BY DEF Recover, Lapsed
<1>2. \A e \in last : estat[e] = "running" /\ estat'[e] = "failed"
  BY DEF Recover, Lapsed
<1> QED
  BY <1>1, <1>2 DEF Concluded, Failed

ObjectSteps == Submitted \/ Revised \/ Deleted \/ Concluded \/ UNCHANGED <<rev, ostat>>

LEMMA StepObjects == OutcomeInv /\ [Next]_vars => ObjectSteps
<1> SUFFICES ASSUME OutcomeInv, [Next]_vars PROVE ObjectSteps
  OBVIOUS
<1>1. ASSUME NEW o \in Objects, User(o) PROVE ObjectSteps
  BY <1>1, UserObjects DEF OutcomeInv, ObjectSteps
<1>2. ASSUME NEW w \in Workers, Body(w) \/ Finish(w) PROVE ObjectSteps
  BY <1>2, SystemObjects DEF ObjectSteps
<1>3. ASSUME NEW w \in Workers, NEW x \in Exports, HandOff(w, x) PROVE ObjectSteps
  BY <1>3, InsertSubmits, KindsAssumption DEF HandOff, Objects, Children, OutcomeInv, ObjectSteps
<1>4. ASSUME NEW d \in Dispatchers, Recover(d) PROVE ObjectSteps
  BY <1>4, RecoverObjects DEF ObjectSteps
<1>5. ASSUME UNCHANGED objVars PROVE ObjectSteps
  BY <1>5 DEF ObjectSteps, objVars
<1>6. CASE Next
  <2>1. ASSUME NEW w \in Workers,
               (\E j \in queued : Deliver(w, j)) \/ Claim(w) \/ Body(w) \/ Heartbeat(w)
               \/ Finish(w) \/ Crash(w) \/ (\E x \in Exports : HandOff(w, x))
        PROVE  ObjectSteps
    BY <2>1, <1>2, <1>3, <1>5 DEF Deliver, Claim, ClaimDefer, DeferWrite, ClaimTake, ClaimNothing,
       Heartbeat, Crash
  <2>2. ASSUME NEW d \in Dispatchers, DispatchStep(d) \/ DispatcherCrash(d) PROVE ObjectSteps
    BY <2>2, <1>4, <1>5 DEF DispatchStep, DispatcherCrash, Scan, Check, Renew, Reserve, Enqueue, BrokerDown
  <2>3. ASSUME \/ \E e \in Exec : Elapse(e) \/ FallDue(e)
               \/ \E j \in queued \cup started : LoseJob(j) \/ JobGoesStale(j)
               \/ \E s \in Sessions : Acquire(s) \/ Lapse(s) \/ Close(s)
        PROVE  ObjectSteps
    BY <2>3, <1>5 DEF Elapse, FallDue, LoseJob, JobGoesStale, Acquire, Lapse, Close
  <2> QED
    BY <1>1, <1>6, <2>1, <2>2, <2>3 DEF Next
<1> QED
  BY <1>5, <1>6 DEF vars

-----------------------------------------------------------------------------
(* Leases and tokens.                                                      *)

(* A row that runs after a step ran before under the same token and lease. *)
RowsKeep ==
  \A e \in Exec : estat'[e] = "running" =>
    estat[e] = "running" /\ token'[e] = token[e] /\ (Live(e)' => Live(e))

(* A worker keeps its job and token.                                       *)
Keeps(v) ==
  /\ Holds(v)' => Holds(v) /\ wjob'[v] = wjob[v] /\ wtok'[v] = wtok[v]
  /\ InBody(v)' => InBody(v)

LEMMA StepKeeps ==
  ASSUME SafeInv, [Next]_vars, \A w \in Workers : ~ClaimTake(w)
  PROVE  RowsKeep /\ \A v \in Workers : Keeps(v)
<1> USE DEF SafeInv, TypeInv, TypeOK
<1>0. \A w \in Workers : wpc[w] # "idle" => At(w) \in Exec
  BY Ids DEF At
<1>1. ASSUME UNCHANGED <<estat, token, lease>> PROVE RowsKeep
  BY <1>1 DEF RowsKeep, Live
<1>2. ASSUME UNCHANGED <<wpc, wjob, wtok>> PROVE \A v \in Workers : Keeps(v)
  BY <1>2 DEF Keeps, Holds, InBody
<1>3. ASSUME NEW w \in Workers, Release(w) PROVE \A v \in Workers : Keeps(v)
  BY <1>3 DEF Keeps, Holds, InBody, Release, Goto
<1>4. ASSUME NEW w \in Workers, NEW label, Goto(w, label), UNCHANGED wtok,
             \A v \in Workers : v # w => wjob'[v] = wjob[v],
             \/ label \in {"claiming", "deferring"}
             \/ Holds(w) /\ label \in {"ending", "failing", "retrying"} /\ UNCHANGED wjob
             \/ wpc[w] = "claimed" /\ label = "working" /\ UNCHANGED wjob
      PROVE  \A v \in Workers : Keeps(v)
  BY <1>4 DEF Keeps, Holds, InBody, Goto
<1>5. ASSUME NEW o \in Objects, NEW r \in 0..MaxRevision, NEW operation, NEW except,
             Schedule(o, r, operation, except)
      PROVE  RowsKeep
  BY <1>5, Scheduled DEF ScheduleRow, RowsKeep, execVars, leaseVars, Live
<1>6. ASSUME NEW o \in Objects, User(o) PROVE RowsKeep /\ \A v \in Workers : Keeps(v)
  <2>1. 0 \in 0..MaxRevision /\ (rev[o] < MaxRevision => rev[o] + 1 \in 0..MaxRevision)
    BY LimitsAssumption
  <2>2. UNCHANGED workerVars
    BY <1>6, UserSteps DEF UserStep, CreateTemplate, ReviseIdle, ReviseOpen, Revise, DeleteTask, DeleteTemplate
  <2>3. ASSUME DeleteTask(o) PROVE RowsKeep
    BY <2>3 DEF DeleteTask, RowsKeep, Unfinished, Live
  <2>4. ASSUME ~DeleteTask(o) PROVE RowsKeep
    BY <1>1, <1>5, <1>6, <2>1, <2>4, UserSteps DEF UserStep, Insert, CreateTemplate, ReviseIdle, ReviseOpen,
       Revise, DeleteTemplate, execVars, leaseVars
  <2> QED
    BY <1>2, <2>2, <2>3, <2>4 DEF workerVars
<1>7. ASSUME NEW w \in Workers, NEW j \in queued, Deliver(w, j)
      PROVE  RowsKeep /\ \A v \in Workers : Keeps(v)
  BY <1>1, <1>4, <1>7 DEF Deliver, execVars, leaseVars
<1>8. ASSUME NEW w \in Workers, ClaimDefer(w) \/ ClaimNothing(w) \/ Crash(w)
      PROVE  RowsKeep /\ \A v \in Workers : Keeps(v)
  BY <1>1, <1>3, <1>4, <1>8 DEF ClaimDefer, ClaimNothing, Crash, EndJob, execVars, leaseVars
<1>9. ASSUME NEW w \in Workers, DeferWrite(w) PROVE RowsKeep /\ \A v \in Workers : Keeps(v)
  <2>1. RowsKeep
    BY <1>0, <1>9 DEF DeferWrite, RowsKeep, Live
  <2> QED
    BY <1>3, <1>9, <2>1 DEF DeferWrite, EndJob
<1>10. ASSUME NEW w \in Workers, Body(w) PROVE RowsKeep /\ \A v \in Workers : Keeps(v)
  <2>1. RowsKeep
    BY <1>1, <1>10 DEF Body, BodyRead, BodyError, BodyPublish, execVars, leaseVars
  <2>2. UNCHANGED <<wjob, wtok>> /\ Holds(w)
    BY <1>10 DEF Body, BodyRead, BodyError, BodyPublish, Holds, InBody
  <2>3. CASE BodyRead(w)
    BY <1>4, <2>1, <2>2, <2>3 DEF BodyRead
  <2>4. CASE BodyError(w) \/ BodyPublish(w)
    BY <1>4, <2>1, <2>2, <2>4 DEF BodyError, BodyPublish
  <2> QED
    BY <1>10, <2>1, <2>3, <2>4 DEF Body
<1>11. ASSUME NEW w \in Workers, Heartbeat(w) PROVE RowsKeep /\ \A v \in Workers : Keeps(v)
  <2>1. RowsKeep
    BY <1>0, <1>11 DEF Heartbeat, Holds, Fenced, RowsKeep, Live
  <2> QED
    BY <1>2, <1>11, <2>1 DEF Heartbeat, workerVars
<1>12. ASSUME NEW w \in Workers, Finish(w) PROVE RowsKeep /\ \A v \in Workers : Keeps(v)
  <2>1. RowsKeep
    BY <1>0, <1>12 DEF Finish, RowsKeep, Live
  <2> QED
    BY <1>3, <1>12, <2>1 DEF Finish, EndJob
<1>13. ASSUME NEW w \in Workers, NEW x \in Exports, HandOff(w, x)
       PROVE  RowsKeep /\ \A v \in Workers : Keeps(v)
  <2>1. x \in Objects /\ 0 \in 0..MaxRevision
    BY LimitsAssumption DEF Objects, Children
  <2> QED
    BY <1>2, <1>5, <1>13, <2>1 DEF HandOff, Insert, workerVars
<1>14. ASSUME NEW d \in Dispatchers, DispatchStep(d) \/ DispatcherCrash(d)
       PROVE  RowsKeep /\ \A v \in Workers : Keeps(v)
  <2>1. UNCHANGED workerVars
    BY <1>14 DEF DispatchStep, DispatcherCrash, Recover, Scan, Check, Renew, Reserve, Enqueue, BrokerDown
  <2>2. ASSUME Recover(d) PROVE RowsKeep
    BY <2>2 DEF Recover, Lapsed, RowsKeep, Live
  <2>3. ASSUME Renew(d) \/ Reserve(d) PROVE RowsKeep
    BY <2>3, Ids DEF Renew, Reserve, Unchanged, RowsKeep, Live
  <2>4. ASSUME ~(Recover(d) \/ Renew(d) \/ Reserve(d)) PROVE RowsKeep
    BY <1>1, <1>14, <2>4 DEF DispatchStep, DispatcherCrash, Scan, Check, Enqueue, BrokerDown, execVars, leaseVars
  <2> QED
    BY <1>2, <2>1, <2>2, <2>3, <2>4 DEF workerVars
<1>15. ASSUME \/ \E e \in Exec : Elapse(e) \/ FallDue(e)
              \/ \E j \in queued \cup started : LoseJob(j) \/ JobGoesStale(j)
              \/ \E s \in Sessions : Acquire(s) \/ Lapse(s) \/ Close(s)
              \/ UNCHANGED vars
       PROVE  RowsKeep /\ \A v \in Workers : Keeps(v)
  <2>1. UNCHANGED <<wpc, wjob, wtok, estat, token>>
    BY <1>15 DEF Elapse, FallDue, LoseJob, JobGoesStale, Acquire, Lapse, Close, vars, execVars, leaseVars, workerVars
  <2>2. \A e \in Exec : Live(e)' => Live(e)
    BY <1>15 DEF Elapse, FallDue, LoseJob, JobGoesStale, Acquire, Lapse, Close, vars, execVars, leaseVars, Live
  <2> QED
    BY <1>2, <2>1, <2>2 DEF RowsKeep
<1> QED
  BY <1>6, <1>7, <1>8, <1>9, <1>10, <1>11, <1>12, <1>13, <1>14, <1>15 DEF Next, Claim

LEMMA ClaimKeeps ==   \* a claim gives its worker a new token and the others nothing
  ASSUME SafeInv, NEW w \in Workers, ClaimTake(w)
  PROVE  /\ UNCHANGED <<rev, ostat>>
         /\ \A v \in Workers : v # w =>
              /\ UNCHANGED <<wpc[v], wjob[v], wtok[v]>>
              /\ Holds(v) => (Fenced(v)' => Fenced(v))
         /\ Holds(w)' => /\ UNCHANGED wjob[w] /\ wtok'[w] = attempts[At(w)] + 1
                         /\ Current(At(w))
<1> USE DEF SafeInv, TypeInv, TypeOK
<1>1. PICK e \in Exec : e = At(w)
  BY Ids DEF ClaimTake, At
<1>2. /\ UNCHANGED <<rev, ostat>>
      /\ token' = [token EXCEPT ![e] = attempts[e] + 1]
      /\ \A x \in Exec : x # e => UNCHANGED <<estat[x], lease[x]>>
      /\ \A v \in Workers : v # w => UNCHANGED <<wpc[v], wjob[v], wtok[v]>>
  BY <1>1 DEF ClaimTake, objVars, Goto, EndJob, Release
<1>3. ASSUME Holds(w)' PROVE UNCHANGED wjob[w] /\ wtok'[w] = attempts[e] + 1 /\ Current(e)
  BY <1>1, <1>3 DEF ClaimTake, Holds, Goto, EndJob, Release
<1>4. ASSUME NEW v \in Workers, v # w, Holds(v), Fenced(v)' PROVE Fenced(v)
  <2>1. At(v) \in Exec /\ At(v)' = At(v) /\ wtok[v] \in 1..attempts[At(v)] /\ attempts[e] \in Nat
    BY <1>2, <1>4, Ids, LimitsAssumption DEF Holds, At, WorkersMatchRows
  <2>2. At(v) # e
    BY <1>2, <1>4, <2>1 DEF Fenced
  <2> QED
    BY <1>2, <1>4, <2>1, <2>2 DEF Fenced, Live
<1> QED
  BY <1>1, <1>2, <1>3, <1>4

LEMMA StepTokens == OutcomeInv /\ [Next]_vars => TokensDiffer'
<1> SUFFICES ASSUME OutcomeInv, [Next]_vars,
                    NEW v \in Workers, NEW w \in Workers, v # w, Holds(v)', Holds(w)', At(v)' = At(w)'
             PROVE  wtok'[v] # wtok'[w]
  BY DEF TokensDiffer
<1> USE DEF OutcomeInv, SafeInv
<1>1. CASE \A u \in Workers : ~ClaimTake(u)
  BY <1>1, StepKeeps DEF Keeps, TokensDiffer, At
<1>2. ASSUME NEW u \in Workers, NEW x \in Workers, u # x, ClaimTake(u), Holds(u)', Holds(x)', At(u)' = At(x)'
      PROVE  wtok'[u] # wtok'[x]
  <2>1. At(x)' = At(x) /\ At(u)' = At(u) /\ Holds(x) /\ wtok'[x] = wtok[x]
    BY <1>2, ClaimKeeps DEF Holds, At
  <2>2. At(x) \in Exec /\ wtok[x] \in 1..attempts[At(x)] /\ attempts[At(x)] \in Nat
    BY <2>1, Ids, LimitsAssumption DEF WorkersMatchRows, TypeInv, TypeOK, Holds, At
  <2>3. wtok'[u] = attempts[At(x)] + 1
    BY <1>2, <2>1, ClaimKeeps
  <2> QED
    BY <2>1, <2>2, <2>3
<1>3. ASSUME NEW u \in Workers, ClaimTake(u), u # v, u # w PROVE wtok'[v] # wtok'[w]
  BY <1>3, ClaimKeeps DEF TokensDiffer, At, Holds
<1> QED
  BY <1>1, <1>2, <1>3

LEMMA StepOperations == OutcomeInv /\ [Next]_vars => OperationsStayOpen'
<1> SUFFICES ASSUME OutcomeInv, [Next]_vars,
                    NEW v \in Workers, InBody(v)', Fenced(v)', Thing(v)' \in Operations
             PROVE  (ostat[Thing(v)] = "processing")'
  BY DEF OperationsStayOpen
<1> USE DEF OutcomeInv, SafeInv, TypeInv, TypeOK
<1>0. \A w \in Workers : Holds(w) =>
        /\ At(w) \in Exec /\ Thing(w) = At(w)[1] /\ Thing(w) \in Objects
        /\ At(w)[2] \in Nat /\ At(w) = <<Thing(w), At(w)[2]>>
        /\ Thing(w) \in Operations => At(w) = <<Thing(w), 0>> /\ rev[Thing(w)] = 0
  <2> SUFFICES ASSUME NEW w \in Workers, Holds(w)
               PROVE  /\ At(w) \in Exec /\ Thing(w) = At(w)[1] /\ Thing(w) \in Objects
                      /\ At(w)[2] \in Nat /\ At(w) = <<Thing(w), At(w)[2]>>
                      /\ Thing(w) \in Operations => At(w) = <<Thing(w), 0>> /\ rev[Thing(w)] = 0
    OBVIOUS
  <2>1. /\ At(w) \in Exec /\ Thing(w) = At(w)[1] /\ Thing(w) \in Objects
        /\ At(w)[2] \in Nat /\ At(w) = <<Thing(w), At(w)[2]>>
    BY Ids, LimitsAssumption DEF Holds, At, Thing
  <2>2. At(w)[2] <= rev[Thing(w)]
    BY <2>1 DEF WorkersMatchRows, RowsMatchObjects
  <2> QED
    BY <2>1, <2>2 DEF RevisionsStart, Children
<1>1. CASE \A u \in Workers : ~ClaimTake(u)
  <2>1. InBody(v) /\ Holds(v) /\ At(v)' = At(v) /\ Thing(v)' = Thing(v) /\ wtok'[v] = wtok[v]
    BY <1>1, StepKeeps DEF Keeps, InBody, Holds, At, Thing
  <2>2. Fenced(v) /\ estat'[At(v)] = "running"
    BY <1>0, <1>1, <2>1, StepKeeps DEF RowsKeep, Fenced
  <2>3. PICK o \in Operations : o = Thing(v)
    BY <2>1
  <2>4. /\ At(v) = <<o, 0>> /\ rev[o] = 0 /\ ostat[o] = "processing" /\ o \in Objects
        /\ o \in Children /\ <<o, 0>> \in Exec
    BY <1>0, <2>1, <2>2, <2>3 DEF OperationsStayOpen, Children
  <2>5. ASSUME Submitted \/ Revised PROVE ostat'[o] = "processing"
    BY <2>4, <2>5 DEF Submitted, Revised
  <2>6. ASSUME Deleted PROVE ostat'[o] = "processing"
    BY <2>2, <2>4, <2>3, <2>6 DEF Deleted
  <2>7. ASSUME Failed PROVE ostat'[o] = "processing"
    BY <2>2, <2>4, <2>7 DEF Failed, FailObjects
  <2>8. ASSUME NEW w \in Workers, Publishes(w), Thing(w) = o PROVE FALSE
    <3>1. Holds(w) /\ Fenced(w) /\ w # v
      BY <2>8 DEF Publishes, Holds, InBody
    <3>2. At(w) = At(v) /\ wtok[w] = wtok[v]
      BY <1>0, <2>2, <2>3, <2>4, <2>8, <3>1 DEF Fenced
    <3> QED
      BY <2>1, <3>1, <3>2 DEF TokensDiffer
  <2>9. ostat'[o] = "processing"
    BY <2>4, <2>5, <2>6, <2>7, <2>8, StepObjects DEF ObjectSteps, Concluded, Publishes
  <2> QED
    BY <2>1, <2>3, <2>9
<1>2. ASSUME NEW u \in Workers, ClaimTake(u) PROVE (ostat[Thing(v)] = "processing")'
  <2>1. CASE u = v
    <3>1. Holds(v)' /\ Thing(v)' = Thing(v) /\ Thing(v) = At(v)[1] /\ Current(At(v)) /\ ostat' = ostat
      BY <1>2, <2>1, ClaimKeeps DEF Thing, At, Holds, InBody
    <3>2. Thing(v) \in Objects /\ Thing(v) \notin Templates
      BY <3>1, KindsAssumption DEF Objects, Children
    <3> QED
      BY <3>1, <3>2 DEF Current, Expected, RowsMatchObjects
  <2>2. CASE u # v
    BY <1>2, <2>2, ClaimKeeps DEF OperationsStayOpen, InBody, Holds, At, Thing
  <2> QED
    BY <2>1, <2>2
<1> QED
  BY <1>1, <1>2

LEMMA StepOutcome == OutcomeInv /\ [Next]_vars => OutcomeInv'
<1> SUFFICES ASSUME OutcomeInv, [Next]_vars PROVE OutcomeInv'
  OBVIOUS
<1>1. SafeInv'
  BY StepSafe DEF OutcomeInv
<1>2. RevisionsStart'
  <2> USE DEF OutcomeInv, SafeInv, TypeInv, TypeOK
  <2>1. Submitted => RevisionsStart'
    BY DEF RevisionsStart, Submitted
  <2>2. Revised => RevisionsStart'
    BY DEF RevisionsStart, Revised, Existing, Objects
  <2>3. Deleted => RevisionsStart'
    BY DEF RevisionsStart, Deleted, Existing
  <2>4. Concluded => RevisionsStart'
    <3>1. rev' = rev /\ Failed => RevisionsStart'
      BY DEF RevisionsStart, Failed, FailObjects
    <3>2. ASSUME NEW w \in Workers, rev' = rev, Publishes(w) PROVE RevisionsStart'
      <4>1. \A o \in Objects : ostat'[o] = "none" => ostat[o] = "none"
        BY <3>2 DEF Publishes, Open, Result
      <4> QED
        BY <3>2, <4>1 DEF RevisionsStart
    <3> QED
      BY <3>1, <3>2 DEF Concluded
  <2> QED
    BY <2>1, <2>2, <2>3, <2>4, StepObjects DEF ObjectSteps, RevisionsStart
<1> QED
  BY <1>1, <1>2, StepTokens, StepOperations DEF OutcomeInv

LEMMA InitOutcome == Init => OutcomeInv
<1> SUFFICES ASSUME Init PROVE OutcomeInv
  OBVIOUS
<1>1. SafeInv
  BY InitSafe
<1>2. RevisionsStart /\ TokensDiffer /\ OperationsStayOpen
  BY DEF Init, RevisionsStart, TokensDiffer, OperationsStayOpen, Holds, InBody, Objects
<1> QED
  BY <1>1, <1>2 DEF OutcomeInv

-----------------------------------------------------------------------------
(* Theorems. *)

(* A deleted object is never seen again: no repeated request, worker or    *)
(* recovery that comes late writes a status to its id.                     *)
THEOREM Deletion == Spec => DeletedStaysDeleted
<1>1. OutcomeInv /\ [Next]_vars =>
        [\A o \in Objects : ostat[o] = "deleted" => ostat'[o] = "deleted"]_vars
  <2> SUFFICES ASSUME OutcomeInv, [Next]_vars, NEW o \in Objects, ostat[o] = "deleted"
               PROVE  ostat'[o] = "deleted"
    OBVIOUS
  <2>1. Submitted \/ Revised \/ Deleted => ostat'[o] = "deleted"
    BY DEF Submitted, Revised, Deleted, OutcomeInv, SafeInv, TypeInv, TypeOK, Existing
  <2>2. Concluded => ostat'[o] = "deleted"
    BY DEF Concluded, Failed, FailObjects, Publishes, Open, OutcomeInv, SafeInv, TypeInv, TypeOK
  <2> QED
    BY <2>1, <2>2, StepObjects DEF ObjectSteps
<1> QED
  BY <1>1, InitOutcome, StepOutcome, PTL DEF Spec, DeletedStaysDeleted

(* An object fails only in the step in which the running execution of its  *)
(* own current revision fails.                                             *)
THEOREM Failures == Spec => FailsWithItsExecution
<1>1. OutcomeInv /\ [Next]_vars =>
        [\A o \in Objects : Open(o) /\ ostat'[o] = "failed" =>
           LET e == <<o, rev[o]>> IN estat[e] = "running" /\ estat'[e] = "failed"]_vars
  <2> SUFFICES ASSUME OutcomeInv, [Next]_vars, NEW o \in Objects, Open(o), ostat'[o] = "failed"
               PROVE  estat[<<o, rev[o]>>] = "running" /\ estat'[<<o, rev[o]>>] = "failed"
    OBVIOUS
  <2>1. ~(Submitted \/ Revised \/ Deleted)
    BY DEF Submitted, Revised, Deleted, OutcomeInv, SafeInv, TypeInv, TypeOK, Open
  <2>2. \A w \in Workers : ~Publishes(w)
    BY DEF Publishes, Result, OutcomeInv, SafeInv, TypeInv, TypeOK, Open
  <2>3. Failed
    BY <2>1, <2>2, StepObjects DEF ObjectSteps, Concluded, Open
  <2> QED
    BY <2>3 DEF Failed, FailObjects, Open
<1> QED
  BY <1>1, InitOutcome, StepOutcome, PTL DEF Spec, FailsWithItsExecution

(* Whoever comes late fails no newer revision of an object, and brings no  *)
(* deleted one back.                                                       *)
THEOREM LateCalls == Spec => LateCallsDoNoHarm
BY Deletion, Failures DEF LateCallsDoNoHarm

(* A result is written only by a worker whose lease has not expired, with  *)
(* the token of the last claim, for the revision that worker read.         *)
THEOREM Leaseholders == Spec => OnlyLeaseholderPublishes
<1> DEFINE Leaseholder(o) ==
      \E w \in Workers : /\ wpc[w] = "working" /\ wpc'[w] # "working"
                         /\ Thing(w) = o /\ wseen[w] = rev'[o]
                         /\ estat[At(w)] = "running" /\ Live(At(w))
                         /\ token[At(w)] = wtok[w]
<1>1. OutcomeInv /\ [Next]_vars =>
        [\A o \in Objects : Open(o) /\ ostat'[o] = Result(o) => Leaseholder(o)]_vars
  <2> SUFFICES ASSUME OutcomeInv, [Next]_vars, NEW o \in Objects, Open(o), ostat'[o] = Result(o)
               PROVE  Leaseholder(o)
    OBVIOUS
  <2>0. ostat'[o] \in {"mapping", "draft", "ready"} /\ ostat[o] \in {"processing", "learning"}
    BY DEF Result, Open
  <2>1. ~(Submitted \/ Revised \/ Deleted)
    BY <2>0 DEF Submitted, Revised, Deleted, OutcomeInv, SafeInv, TypeInv, TypeOK, Open
  <2>2. ~Failed
    BY <2>0 DEF Failed, FailObjects
  <2>3. PICK w \in Workers : Publishes(w) /\ rev' = rev
    BY <2>0, <2>1, <2>2, StepObjects DEF ObjectSteps, Concluded
  <2>4. Thing(w) = o
    BY <2>0, <2>3 DEF Publishes, OutcomeInv, SafeInv, TypeInv, TypeOK
  <2> QED
    BY <2>3, <2>4 DEF Publishes, Fenced
<1> QED
  BY <1>1, InitOutcome, StepOutcome, PTL DEF Spec, OnlyLeaseholderPublishes

-----------------------------------------------------------------------------
(* Refinement. *)

phases == [o \in Objects |-> Phase(ostat[o])]

LEMMA PhaseOf ==
  ASSUME NEW status \in ObjectStatus
  PROVE  /\ Phase(status) = "none" <=> status = "none"
         /\ Phase(status) = "open" <=> status \in {"processing", "learning"}
         /\ Phase(status) \notin {"none", "deleted"} <=> status \in Existing
BY DEF Phase, ObjectStatus, Existing

LEMMA StepRefines == OutcomeInv /\ [Next]_vars => [R!Next]_R!vars
<1> SUFFICES ASSUME OutcomeInv, [Next]_vars PROVE [R!Next]_R!vars
  OBVIOUS
<1> USE DEF OutcomeInv, SafeInv, TypeInv, TypeOK
<1>0. /\ \A o \in Objects : phases[o] = Phase(ostat[o]) /\ phases'[o] = Phase(ostat'[o])
      /\ phases = [o \in Objects |-> phases[o]] /\ phases' = [o \in Objects |-> phases'[o]]
  BY DEF phases
<1>1. CASE Submitted
  <2>1. PICK o \in Objects, to \in {"processing", "draft"} :
          ostat[o] = "none" /\ ostat' = [ostat EXCEPT ![o] = to]
    BY <1>1 DEF Submitted
  <2>2. phases[o] = "none" /\ Phase(to) \in {"open", "settled"}
    BY <1>0, <2>1 DEF Phase
  <2>3. phases' = [phases EXCEPT ![o] = Phase(to)]
    BY <2>1 DEF phases
  <2>4. R!Submit(o)
    BY <1>1, <2>2, <2>3 DEF R!Submit, Submitted, phases
  <2> QED
    BY <2>4 DEF R!Next
<1>2. CASE Revised
  <2>1. PICK o \in Objects \ Children,
             to \in {"processing", "learning", "cancelled", "ready", "draft", "published"} :
          /\ ostat[o] \in Existing
          /\ rev' = [rev EXCEPT ![o] = @ + 1] /\ ostat' = [ostat EXCEPT ![o] = to]
    BY <1>2 DEF Revised
  <2>2. Phase(to) \in {"open", "settled", "withdrawn"}
    BY <2>1 DEF Phase
  <2>3. phases[o] \notin {"none", "deleted"}
    BY <1>0, <2>1, PhaseOf
  <2>4. phases' = [phases EXCEPT ![o] = Phase(to)]
    BY <2>1 DEF phases
  <2>5. R!Revise(o)
    BY <2>1, <2>2, <2>3, <2>4 DEF R!Revise, R!Exists, phases
  <2> QED
    BY <2>5 DEF R!Next
<1>3. CASE Deleted
  <2>1. PICK S \in SUBSET Objects :
          /\ S # {} /\ \A o \in S : ostat[o] \in Existing
          /\ ostat' = [o \in Objects |-> IF o \in S THEN "deleted" ELSE ostat[o]]
    BY <1>3 DEF Deleted
  <2>2. \A o \in S : phases[o] \notin {"none", "deleted"}
    BY <1>0, <2>1, PhaseOf
  <2>3. phases' = [o \in Objects |-> IF o \in S THEN "deleted" ELSE phases[o]]
    BY <2>1 DEF phases, Phase
  <2>4. R!Delete(S)
    BY <1>3, <2>1, <2>2, <2>3 DEF R!Delete, R!Exists, Deleted, phases
  <2> QED
    BY <2>4 DEF R!Next
(* A conclusion of the objects in S; of none of them, a stutter.           *)
<1>4. ASSUME NEW S \in SUBSET Objects, NEW p \in {"settled", "failed"}, rev' = rev,
             \A o \in S : Open(o), phases' = [o \in Objects |-> IF o \in S THEN p ELSE phases[o]]
      PROVE  [R!Next]_R!vars
  <2>1. CASE S = {}
    <3>1. phases' = phases
      BY <1>0, <1>4, <2>1
    <3> QED
      BY <1>4, <3>1 DEF R!vars, phases
  <2>2. CASE S # {}
    <3>1. \A o \in S : phases[o] = "open"
      BY <1>0, <1>4 DEF Open, Phase
    <3>2. R!Conclude(S)
      BY <1>4, <2>2, <3>1 DEF R!Conclude, phases
    <3> QED
      BY <3>2 DEF R!Next
  <2> QED
    BY <2>1, <2>2
<1>5. CASE rev' = rev /\ Failed
  <2>1. PICK E \in SUBSET Exec : FailObjects(E)
    BY <1>5 DEF Failed
  <2> DEFINE S == {o \in Objects : Open(o) /\ <<o, rev[o]>> \in E}
  <2>2. phases' = [o \in Objects |-> IF o \in S THEN "failed" ELSE phases[o]]
    BY <2>1 DEF FailObjects, phases, Phase
  <2>3. S \in SUBSET Objects /\ \A o \in S : Open(o)
    OBVIOUS
  <2> HIDE DEF S
  <2> QED
    BY <1>4, <1>5, <2>2, <2>3
<1>6. ASSUME rev' = rev, NEW w \in Workers, Publishes(w) PROVE [R!Next]_R!vars
  <2>1. phases' = [o \in Objects |-> IF o \in {Thing(w)} THEN "settled" ELSE phases[o]]
    BY <1>6 DEF Publishes, Result, phases, Phase
  <2>2. {Thing(w)} \in SUBSET Objects /\ \A o \in {Thing(w)} : Open(o)
    BY <1>6 DEF Publishes
  <2> QED
    BY <1>4, <1>6, <2>1, <2>2
<1>7. CASE UNCHANGED <<rev, ostat>>
  BY <1>7 DEF R!vars
<1> QED
  BY <1>1, <1>2, <1>3, <1>5, <1>6, <1>7, StepObjects DEF ObjectSteps, Concluded

(* Executions implements Requests: whatever the execution layer does, each *)
(* revision is opened by a user and gets at most one outcome, by a step of *)
(* the system, and nothing once it is withdrawn, revised or deleted.       *)
THEOREM Implementation == Spec => ImplementsRequests
<1>1. Init => R!Init
  BY DEF Init, R!Init, Phase
<1> QED
  BY <1>1, InitOutcome, StepOutcome, StepRefines, PTL DEF Spec, ImplementsRequests, R!Spec
=============================================================================
