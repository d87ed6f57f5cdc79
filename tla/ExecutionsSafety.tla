--------------------------- MODULE ExecutionsSafety ---------------------------
(***************************************************************************)
(* Typing of Executions for all objects, workers, dispatchers and limits,  *)
(* with the two facts that make it inductive and useful: a waiting row has *)
(* an attempt left, a running row the token of its last attempt.           *)
(***************************************************************************)
EXTENDS Executions, FiniteSetTheorems, TLAPS

(* The conjunct of WorkersMatchRows that the typing of rows rests on.      *)
DeferringRows ==
  \A w \in Workers : wpc[w] = "deferring" =>
    estat[At(w)] \in Waiting \cup {"superseded"} /\ attempts[At(w)] < MaxAttempts

TypeInv == TypeOK /\ RetriesLeft /\ RunningHasToken /\ DeferringRows

Existing == ObjectStatus \ {"none", "deleted"}

(* What the transactions of users do to the store, whoever asked for them. *)
UserStep(o) ==
  \/ o \notin Templates /\ Insert(o, {}) /\ UNCHANGED workerVars
  \/ CreateTemplate(o)
  \/ \E to \in {"cancelled", "ready", "draft", "published"} : ReviseIdle(o, Existing, to)
  \/ ReviseOpen(o, Existing, "processing", "run")
  \/ o \in Templates /\ ReviseOpen(o, Existing, "learning", "learn")
  \/ DeleteTask(o)
  \/ DeleteTemplate(o)

LEMMA UserSteps == \A o \in Objects : User(o) => UserStep(o)
<1> SUFFICES ASSUME NEW o \in Objects, User(o) PROVE UserStep(o)
  OBVIOUS
<1>1. CASE CreateTask(o) \/ CreateExport(o) \/ CreateOperation(o)
  BY <1>1, KindsAssumption DEF CreateTask, CreateExport, CreateOperation, UserStep, Objects, Children
<1>2. CASE Cancel(o) \/ ConfirmMapping(o) \/ UpdateTemplate(o) \/ Publish(o)
  BY <1>2 DEF Cancel, ConfirmMapping, UpdateTemplate, Publish, ReviseIdle, Revise,
     UserStep, Existing, ObjectStatus
<1>3. CASE Retry(o) \/ UploadSource(o) \/ RetryTemplate(o) \/ Reparse(o)
  BY <1>3 DEF Retry, UploadSource, RetryTemplate, Reparse, ReviseOpen, Revise,
     UserStep, Existing, ObjectStatus
<1>4. CASE AiSuggest(o)
  BY <1>4 DEF AiSuggest, ReviseOpen, Revise, UserStep, Existing, ObjectStatus
<1>5. CASE CreateTemplate(o) \/ DeleteTask(o) \/ DeleteTemplate(o)
  BY <1>5 DEF UserStep
<1> QED
  BY <1>1, <1>2, <1>3, <1>4, <1>5 DEF User

-----------------------------------------------------------------------------
(* Typing. *)

LEMMA InitTyped == Init => TypeInv
BY LimitsAssumption DEF Init, TypeInv, TypeOK, RetriesLeft, RunningHasToken, DeferringRows,
   Exec, ObjectStatus, ExecStatus, NoToken, NoJob, NoRow, WorkerPc, DispatchPc, Waiting

(* An id is a pair of an object and a revision, a job one of an execution. *)
LEMMA Ids ==
  /\ \A e \in Exec : e[1] \in Objects /\ e[2] \in 0..MaxRevision /\ e = <<e[1], e[2]>>
  /\ \A o \in Objects, r \in 0..MaxRevision : <<o, r>> \in Exec
  /\ \A j \in Job : j[1] \in Exec /\ j[2] \in 1..MaxAttempts
  /\ \A x \in Row : x[1] \in Exec /\ x[2] \in Waiting /\ x[3] \in 0..(MaxAttempts - 1)
BY LimitsAssumption DEF Exec, Job, Row, Waiting

(* schedule: nothing, or the new pending row of a free id. *)
ScheduleRow(e, operation) ==
  /\ estat[e] = "none"
  /\ op' = [op EXCEPT ![e] = operation]
  /\ estat' = [estat EXCEPT ![e] = "pending"]
  /\ attempts' = [attempts EXCEPT ![e] = 0]
  /\ due' = [due EXCEPT ![e] = TRUE]
  /\ UNCHANGED <<token, lease>>

LEMMA ScheduleTyped ==
  ASSUME TypeInv, NEW e \in Exec, NEW operation \in {"run", "learn"},
         ScheduleRow(e, operation) \/ UNCHANGED execVars,
         UNCHANGED <<rqVars, workerVars, dispatchVars, sess>>,
         rev' \in [Objects -> 0..MaxRevision], ostat' \in [Objects -> ObjectStatus]
  PROVE  TypeInv'
<1> USE DEF TypeInv, TypeOK
<1>1. CASE ScheduleRow(e, operation)
  <2>1. TypeOK'
    BY <1>1, LimitsAssumption DEF ScheduleRow, ExecStatus, rqVars, workerVars, dispatchVars
  <2>2. RetriesLeft' /\ RunningHasToken'
    BY <1>1, LimitsAssumption DEF ScheduleRow, RetriesLeft, RunningHasToken, Waiting
  <2>3. DeferringRows'
    BY <1>1, Ids, LimitsAssumption DEF ScheduleRow, DeferringRows, Waiting, At, workerVars
  <2> QED
    BY <2>1, <2>2, <2>3
<1>2. CASE UNCHANGED execVars
  BY <1>2 DEF execVars, leaseVars, rqVars, workerVars, dispatchVars, RetriesLeft,
     RunningHasToken, DeferringRows, At
<1> QED
  BY <1>1, <1>2

LEMMA Scheduled ==
  \A o \in Objects, r \in 0..MaxRevision : \A operation, except :
    Schedule(o, r, operation, except) => ScheduleRow(<<o, r>>, operation) \/ UNCHANGED execVars
BY DEF Schedule, ScheduleRow

LEMMA InsertTyped ==
  ASSUME TypeInv, NEW o \in Objects, NEW except, Insert(o, except), UNCHANGED workerVars
  PROVE  TypeInv'
<1>1. 0 \in 0..MaxRevision /\ <<o, 0>> \in Exec
  BY Ids, LimitsAssumption
<1>2. rev' \in [Objects -> 0..MaxRevision] /\ ostat' \in [Objects -> ObjectStatus]
  BY <1>1 DEF TypeInv, TypeOK, Insert, ObjectStatus
<1> QED
  BY <1>1, <1>2, Scheduled, ScheduleTyped DEF Insert

LEMMA UserTyped ==
  ASSUME TypeInv, NEW o \in Objects, UserStep(o)
  PROVE  TypeInv'
<1>1. CASE Insert(o, {}) /\ UNCHANGED workerVars
  BY <1>1, InsertTyped
<1>2. CASE CreateTemplate(o)
  <2>1. rev' \in [Objects -> 0..MaxRevision] /\ ostat' \in [Objects -> ObjectStatus]
    BY <1>2, LimitsAssumption DEF TypeInv, TypeOK, CreateTemplate, ObjectStatus
  <2> QED
    BY <1>2, <2>1, ScheduleTyped, Ids, LimitsAssumption DEF CreateTemplate
<1>3. ASSUME NEW to \in ObjectStatus, Revise(o, Existing, to)
      PROVE  /\ rev' \in [Objects -> 0..MaxRevision] /\ ostat' \in [Objects -> ObjectStatus]
             /\ rev[o] + 1 \in 0..MaxRevision
  BY <1>3, LimitsAssumption DEF TypeInv, TypeOK, Revise
<1>4. CASE \E to \in {"cancelled", "ready", "draft", "published"} : ReviseIdle(o, Existing, to)
  BY <1>3, <1>4, ScheduleTyped, Ids, LimitsAssumption DEF ReviseIdle, Revise, ObjectStatus
<1>5. CASE ReviseOpen(o, Existing, "processing", "run")
  BY <1>3, <1>5, Scheduled, ScheduleTyped, Ids DEF ReviseOpen, Revise, ObjectStatus
<1>6. CASE ReviseOpen(o, Existing, "learning", "learn")
  BY <1>3, <1>6, Scheduled, ScheduleTyped, Ids DEF ReviseOpen, Revise, ObjectStatus
<1>7. CASE DeleteTask(o)
  <2> USE DEF TypeInv, TypeOK
  <2>1. TypeOK'
    BY <1>7, LimitsAssumption DEF DeleteTask, ExecStatus, ObjectStatus, NoToken, rqVars,
       workerVars, dispatchVars
  <2>2. RetriesLeft' /\ RunningHasToken'
    BY <1>7 DEF DeleteTask, RetriesLeft, RunningHasToken, Waiting, Unfinished
  <2>3. DeferringRows'
    BY <1>7, Ids DEF DeleteTask, DeferringRows, Waiting, At, workerVars
  <2> QED
    BY <2>1, <2>2, <2>3
<1>8. CASE DeleteTemplate(o)
  <2>1. rev' \in [Objects -> 0..MaxRevision] /\ ostat' \in [Objects -> ObjectStatus]
    BY <1>8 DEF TypeInv, TypeOK, DeleteTemplate, ObjectStatus
  <2> QED
    BY <1>8, <2>1, ScheduleTyped, Ids, LimitsAssumption DEF DeleteTemplate
<1> QED
  BY <1>1, <1>2, <1>4, <1>5, <1>6, <1>7, <1>8 DEF UserStep

(* A step of a worker that changes no row, or only leases, and what the    *)
(* typing asks of the worker.                                              *)
LEMMA WorkerOnlyTyped ==
  ASSUME TypeInv, UNCHANGED <<rev, op, estat, attempts, token, due, dispatchVars, sess>>,
         ostat' \in [Objects -> ObjectStatus],
         lease' \in [Exec -> {"none", "fresh", "waning", "expired"}],
         queued' \subseteq Job, started' \subseteq Job,
         wpc' \in [Workers -> WorkerPc], wjob' \in [Workers -> Job \cup {NoJob}],
         wtok' \in [Workers -> 0..MaxAttempts], wseen' \in [Workers -> 0..MaxRevision],
         \A w \in Workers : wpc'[w] # "idle" => wjob'[w] \in Job,
         \A w \in Workers : wpc'[w] = "deferring" =>
           wjob'[w] = wjob[w] /\ (wpc[w] = "deferring" \/ estat[At(w)] \in Waiting)
  PROVE  TypeInv'
<1> USE DEF TypeInv, TypeOK
<1>1. TypeOK'
  BY DEF dispatchVars
<1>2. RetriesLeft' /\ RunningHasToken'
  BY DEF RetriesLeft, RunningHasToken
<1>3. DeferringRows'
  BY Ids DEF RetriesLeft, DeferringRows, At
<1> QED
  BY <1>1, <1>2, <1>3

LEMMA FailTyped ==
  \A E : TypeInv /\ FailObjects(E) => ostat' \in [Objects -> ObjectStatus]
BY DEF FailObjects, ObjectStatus, TypeInv, TypeOK

LEMMA WorkerTyped ==
  ASSUME TypeInv, NEW w \in Workers
  PROVE  /\ (\E j \in queued : Deliver(w, j)) => TypeInv'
         /\ Claim(w) \/ Body(w) \/ Heartbeat(w) \/ Finish(w) \/ Crash(w) => TypeInv'
         /\ (\E x \in Exports : HandOff(w, x)) => TypeInv'
<1>0. /\ wpc[w] \in WorkerPc /\ (wpc[w] # "idle" => wjob[w] \in Job /\ At(w) \in Exec /\ Thing(w) \in Objects)
      /\ 0 \in 0..MaxAttempts /\ 0 \in 0..MaxRevision
  BY Ids, LimitsAssumption DEF TypeInv, TypeOK, At, Thing
<1>t. \A x \in {"idle", "claiming", "deferring", "claimed", "working", "ending", "failing",
               "retrying"} : x \in WorkerPc
  BY DEF WorkerPc
<1>1. ASSUME NEW j \in queued, Deliver(w, j) PROVE TypeInv'
  BY <1>1, <1>t, WorkerOnlyTyped DEF Deliver, Goto, TypeInv, TypeOK, objVars, execVars, leaseVars
<1>e. ASSUME EndJob(w) \/ (Release(w) /\ UNCHANGED rqVars)
      PROVE  /\ queued' \subseteq Job /\ started' \subseteq Job
             /\ wpc' \in [Workers -> WorkerPc] /\ wjob' \in [Workers -> Job \cup {NoJob}]
             /\ wtok' \in [Workers -> 0..MaxAttempts] /\ wseen' \in [Workers -> 0..MaxRevision]
             /\ \A v \in Workers : wpc'[v] # "idle" => wjob'[v] \in Job
             /\ \A v \in Workers : wpc'[v] = "deferring" =>
                  wjob'[v] = wjob[v] /\ wpc[v] = "deferring"
  BY <1>e, <1>0, <1>t DEF EndJob, Release, Goto, TypeInv, TypeOK, NoToken, rqVars
<1>2. CASE ClaimDefer(w)
  BY <1>2, <1>0, <1>t, WorkerOnlyTyped DEF ClaimDefer, Goto, TypeInv, TypeOK, objVars, execVars,
     leaseVars, rqVars
<1>3. CASE DeferWrite(w)
  <2> USE DEF TypeInv, TypeOK
  <2>1. TypeOK'
    BY <1>3, <1>e, <1>0 DEF DeferWrite, ExecStatus, objVars, dispatchVars
  <2>2. RetriesLeft' /\ RunningHasToken'
    BY <1>3, <1>0 DEF DeferWrite, RetriesLeft, RunningHasToken, DeferringRows
  <2>3. DeferringRows'
    BY <1>3, <1>0, <1>e, Ids DEF DeferWrite, DeferringRows, Waiting, At
  <2> QED
    BY <2>1, <2>2, <2>3
<1>4. CASE ClaimTake(w)
  <2> USE DEF TypeInv, TypeOK
  <2>0. wpc[w] = "claiming" /\ attempts[At(w)] + 1 \in 0..MaxAttempts
    BY <1>4, <1>0, LimitsAssumption DEF ClaimTake, Claimable
  <2>1. TypeOK'
    <3>1. CASE Goto(w, "claimed") /\ UNCHANGED <<wjob, wseen, rqVars>>
      BY <3>1, <1>4, <1>0, <2>0, <1>t DEF ClaimTake, ExecStatus, objVars, dispatchVars, Goto, EndJob,
         Release, rqVars
    <3>2. CASE EndJob(w)
      BY <3>2, <1>4, <1>0, <1>e, <2>0 DEF ClaimTake, ExecStatus, objVars, dispatchVars, Goto
    <3> QED
      BY <3>1, <3>2, <1>4 DEF ClaimTake
  <2>2. RetriesLeft' /\ RunningHasToken'
    BY <1>4, <1>0, <2>0 DEF ClaimTake, RetriesLeft, RunningHasToken, Waiting
  <2>3. DeferringRows'
    <3>1. \A v \in Workers : wpc'[v] # "deferring"
      BY <1>4, <2>0 DEF ClaimTake, CapacityLockFree, Goto, EndJob, Release
    <3> QED
      BY <3>1 DEF DeferringRows
  <2> QED
    BY <2>1, <2>2, <2>3
<1>5. CASE ClaimNothing(w)
  BY <1>5, <1>e, WorkerOnlyTyped DEF ClaimNothing, TypeInv, TypeOK, objVars, execVars, leaseVars
<1>6. CASE BodyRead(w)
  BY <1>6, <1>0, <1>t, WorkerOnlyTyped DEF BodyRead, Goto, TypeInv, TypeOK, objVars, execVars,
     leaseVars, rqVars
<1>7. CASE BodyError(w)
  BY <1>7, <1>0, <1>t, WorkerOnlyTyped DEF BodyError, InBody, Goto, TypeInv, TypeOK, objVars,
     execVars, leaseVars, rqVars
<1>8. CASE BodyPublish(w)
  <2>1. ostat' \in [Objects -> ObjectStatus]
    BY <1>8, <1>0 DEF BodyPublish, Result, ObjectStatus, TypeInv, TypeOK
  <2> QED
    BY <1>8, <1>0, <1>t, <2>1, WorkerOnlyTyped DEF BodyPublish, Goto, TypeInv, TypeOK, execVars,
       leaseVars, rqVars
<1>9. CASE Heartbeat(w)
  BY <1>9, <1>0, WorkerOnlyTyped DEF Heartbeat, Holds, TypeInv, TypeOK, objVars, rqVars, workerVars
<1>10. CASE Finish(w)
  <2> USE DEF TypeInv, TypeOK
  <2>0. ostat' \in [Objects -> ObjectStatus]
    BY <1>10, FailTyped DEF Finish
  <2>1. TypeOK'
    <3>1. /\ estat' \in [Exec -> ExecStatus] /\ due' \in [Exec -> BOOLEAN]
          /\ lease' \in [Exec -> {"none", "fresh", "waning", "expired"}]
      <4>1. At(w) \in Exec /\ Again(w) \in BOOLEAN
        BY <1>10, <1>0 DEF Finish, Again
      <4>2. ASSUME NEW outcome \in {"succeeded", "pending", "failed"}
            PROVE  /\ [estat EXCEPT ![At(w)] = outcome] \in [Exec -> ExecStatus]
                   /\ [due EXCEPT ![At(w)] = ~Again(w)] \in [Exec -> BOOLEAN]
                   /\ [lease EXCEPT ![At(w)] = "none"] \in [Exec -> {"none", "fresh", "waning", "expired"}]
        BY <4>1 DEF ExecStatus
      <4>3. \/ UNCHANGED <<estat, lease, due>>
            \/ \E outcome \in {"succeeded", "pending", "failed"} :
                 /\ estat' = [estat EXCEPT ![At(w)] = outcome]
                 /\ lease' = [lease EXCEPT ![At(w)] = "none"]
                 /\ due' = [due EXCEPT ![At(w)] = ~Again(w)]
        BY <1>10 DEF Finish
      <4>4. /\ estat \in [Exec -> ExecStatus] /\ due \in [Exec -> BOOLEAN]
            /\ lease \in [Exec -> {"none", "fresh", "waning", "expired"}]
        OBVIOUS
      <4>5. ASSUME UNCHANGED <<estat, lease, due>>
            PROVE  /\ estat' \in [Exec -> ExecStatus] /\ due' \in [Exec -> BOOLEAN]
                   /\ lease' \in [Exec -> {"none", "fresh", "waning", "expired"}]
        <5> HIDE DEF TypeInv, TypeOK
        <5> QED
          BY <4>4, <4>5, Zenon
      <4>6. ASSUME NEW outcome \in {"succeeded", "pending", "failed"},
                   estat' = [estat EXCEPT ![At(w)] = outcome],
                   lease' = [lease EXCEPT ![At(w)] = "none"],
                   due' = [due EXCEPT ![At(w)] = ~Again(w)]
            PROVE  /\ estat' \in [Exec -> ExecStatus] /\ due' \in [Exec -> BOOLEAN]
                   /\ lease' \in [Exec -> {"none", "fresh", "waning", "expired"}]
        <5> HIDE DEF TypeInv, TypeOK
        <5> QED
          BY <4>2, <4>6, Zenon
      <4> HIDE DEF TypeInv, TypeOK
      <4> QED
        BY <4>3, <4>5, <4>6, Zenon
    <3>2. UNCHANGED <<rev, op, attempts, token, dpc, rows, row, sess>> /\ EndJob(w)
      BY <1>10 DEF Finish, dispatchVars
    <3> QED
      BY <1>e, <2>0, <3>1, <3>2
  <2>2. RetriesLeft' /\ RunningHasToken'
    BY <1>10, <1>0 DEF Finish, RetriesLeft, RunningHasToken, Waiting, Fenced, Again
  <2>3. DeferringRows'
    <3> SUFFICES ASSUME NEW v \in Workers, wpc'[v] = "deferring"
                 PROVE  /\ estat'[At(v)'] \in Waiting \cup {"superseded"}
                        /\ attempts'[At(v)'] < MaxAttempts
      BY DEF DeferringRows
    <3>1. wjob'[v] = wjob[v] /\ wpc[v] = "deferring" /\ UNCHANGED attempts
      BY <1>10, <1>e DEF Finish
    <3>2. At(v)' = At(v) /\ At(v) \in Exec /\ estat[At(v)] \in Waiting \cup {"superseded"}
          /\ attempts[At(v)] < MaxAttempts
      BY <3>1, Ids DEF DeferringRows, At
    <3>3. estat'[At(v)] = estat[At(v)]
      BY <1>10, <1>0, <3>2 DEF Finish, Fenced, Waiting
    <3> QED
      BY <3>1, <3>2, <3>3
  <2> QED
    BY <2>1, <2>2, <2>3
<1>11. CASE Crash(w)
  BY <1>11, <1>e, WorkerOnlyTyped DEF Crash, TypeInv, TypeOK, objVars, execVars, leaseVars
<1>12. ASSUME NEW x \in Exports, HandOff(w, x) PROVE TypeInv'
  BY <1>12, InsertTyped DEF HandOff, Objects, Children
<1> QED
  BY <1>1, <1>2, <1>3, <1>4, <1>5, <1>6, <1>7, <1>8, <1>9, <1>10, <1>11, <1>12 DEF Claim, Body

(* A step of a dispatcher that changes no status.                          *)
LEMMA DispatcherOnlyTyped ==
  ASSUME TypeInv, UNCHANGED <<objVars, op, estat, attempts, token, due, workerVars, sess>>,
         lease' \in [Exec -> {"none", "fresh", "waning", "expired"}],
         queued' \subseteq Job, started' \subseteq Job,
         dpc' \in [Dispatchers -> DispatchPc], rows' \in [Dispatchers -> SUBSET Row],
         row' \in [Dispatchers -> Row \cup {NoRow}],
         \A d \in Dispatchers : dpc'[d] \in {"renewing", "reserving", "enqueueing"} => row'[d] \in Row
  PROVE  TypeInv'
BY DEF TypeInv, TypeOK, RetriesLeft, RunningHasToken, DeferringRows, At, objVars, workerVars

LEMMA NextRowTyped ==
  ASSUME TypeInv, NEW d \in Dispatchers, NEW left \in SUBSET Row, NextRow(d, left)
  PROVE  /\ dpc' \in [Dispatchers -> DispatchPc] /\ rows' \in [Dispatchers -> SUBSET Row]
         /\ row' \in [Dispatchers -> Row \cup {NoRow}]
         /\ \A c \in Dispatchers :
              dpc'[c] \in {"renewing", "reserving", "enqueueing"} => row'[c] \in Row
BY DEF NextRow, DGoto, DispatchPc, TypeInv, TypeOK

LEMMA DispatcherTyped ==
  ASSUME TypeInv, NEW d \in Dispatchers
  PROVE  DispatchStep(d) \/ DispatcherCrash(d) => TypeInv'
<1>0. rows[d] \in SUBSET Row /\ dpc[d] \in DispatchPc /\ row[d] \in Row \cup {NoRow}
  BY DEF TypeInv, TypeOK
<1>1. CASE Recover(d)
  <2> USE DEF TypeInv, TypeOK
  <2>0. ostat' \in [Objects -> ObjectStatus]
    BY <1>1, FailTyped DEF Recover
  <2>1. TypeOK'
    BY <1>1, <2>0, LimitsAssumption DEF Recover, ExecStatus, NoToken, DGoto, DispatchPc, rqVars, workerVars
  <2>2. RetriesLeft' /\ RunningHasToken'
    BY <1>1, LimitsAssumption DEF Recover, RetriesLeft, RunningHasToken, Waiting, Exhausted, Lapsed
  <2>3. DeferringRows'
    BY <1>1, Ids DEF Recover, DeferringRows, Waiting, At, workerVars, Lapsed
  <2> QED
    BY <2>1, <2>2, <2>3
<1>2. ASSUME NEW scope, Scan(d, scope) PROVE TypeInv'
  <2>1. {<<e, estat[e], attempts[e]>> : e \in {x \in Exec : x[1] \in scope /\ Dispatchable(x)}}
          \in SUBSET Row
    <3> SUFFICES ASSUME NEW e \in Exec, estat[e] \in Waiting
                 PROVE  <<e, estat[e], attempts[e]>> \in Row
      BY DEF Dispatchable
    <3>1. attempts[e] \in 0..(MaxAttempts - 1)
      BY LimitsAssumption DEF TypeInv, TypeOK, RetriesLeft
    <3> QED
      BY <3>1 DEF Row, Waiting
  <2> QED
    BY <1>2, <2>1, NextRowTyped, DispatcherOnlyTyped DEF Scan, TypeInv, TypeOK, objVars, execVars,
       leaseVars, rqVars
<1>3. ASSUME NEW x \in rows[d], Check(d, x) PROVE TypeInv'
  <2> USE DEF TypeInv, TypeOK
  <2>1. /\ rows' \in [Dispatchers -> SUBSET Row] /\ row' \in [Dispatchers -> Row \cup {NoRow}]
        /\ dpc' \in [Dispatchers -> DispatchPc]
        /\ \A c \in Dispatchers :
              dpc'[c] \in {"renewing", "reserving", "enqueueing"} => row'[c] \in Row
    BY <1>3, <1>0 DEF Check, DGoto, DispatchPc
  <2> QED
    BY <1>3, <2>1, DispatcherOnlyTyped DEF Check, objVars, execVars, leaseVars, rqVars
<1>4. CASE Renew(d)
  <2>1. lease' \in [Exec -> {"none", "fresh", "waning", "expired"}]
    BY <1>4 DEF Renew, TypeInv, TypeOK
  <2> QED
    BY <1>4, <1>0, <2>1, NextRowTyped, DispatcherOnlyTyped DEF Renew, TypeInv, TypeOK, rqVars
<1>5. CASE Reserve(d)
  <2> DEFINE e == row[d][1]
  <2>0. e \in Exec
    BY <1>5, Ids DEF Reserve, TypeInv, TypeOK
  <2>1. CASE ~Unchanged(row[d])
    BY <1>5, <1>0, <2>1, NextRowTyped, DispatcherOnlyTyped DEF Reserve, TypeInv, TypeOK, rqVars
  <2>2. CASE Unchanged(row[d])
    <3> USE DEF TypeInv, TypeOK
    <3>0. estat[e] \in Waiting
      BY <1>5, <2>2, Ids DEF Reserve, Unchanged
    <3>1. /\ UNCHANGED <<objVars, op, attempts, token, due, rqVars, workerVars, sess, rows, row>>
          /\ estat' = [estat EXCEPT ![e] = "queued"] /\ lease' = [lease EXCEPT ![e] = "waning"]
          /\ DGoto(d, "enqueueing") /\ row[d] \in Row
      BY <1>5, <2>2 DEF Reserve
    <3> HIDE DEF e
    <3>2. TypeOK'
      BY <3>1, <2>0 DEF ExecStatus, objVars, rqVars, workerVars, DGoto, DispatchPc
    <3>3. RetriesLeft' /\ RunningHasToken'
      BY <3>0, <3>1, <2>0 DEF RetriesLeft, RunningHasToken, Waiting
    <3>4. DeferringRows'
      BY <3>1, <2>0, Ids DEF DeferringRows, Waiting, At, workerVars
    <3> QED
      BY <3>2, <3>3, <3>4
  <2> QED
    BY <2>1, <2>2
<1>6. CASE Enqueue(d)
  <2>1. JobOf(row[d]) \in Job
    BY <1>6, Ids, LimitsAssumption DEF Enqueue, JobOf, Job, TypeInv, TypeOK
  <2> QED
    BY <1>6, <1>0, <2>1, NextRowTyped, DispatcherOnlyTyped DEF Enqueue, TypeInv, TypeOK, execVars,
       leaseVars
<1>7. CASE BrokerDown(d) \/ DispatcherCrash(d)
  <2>1. PICK left \in SUBSET Row : NextRow(d, left)
    BY <1>7, <1>0 DEF BrokerDown, DispatcherCrash
  <2>2. UNCHANGED <<objVars, execVars, rqVars, workerVars, sess>>
    BY <1>7 DEF BrokerDown, DispatcherCrash
  <2> QED
    BY <2>1, <2>2, NextRowTyped, DispatcherOnlyTyped DEF TypeInv, TypeOK, objVars, execVars,
       leaseVars, rqVars
<1> QED
  BY <1>1, <1>2, <1>3, <1>4, <1>5, <1>6, <1>7 DEF DispatchStep

LEMMA EnvironmentTyped ==
  ASSUME TypeInv
  PROVE  /\ \A e \in Exec : Elapse(e) \/ FallDue(e) => TypeInv'
         /\ \A j \in queued \cup started : LoseJob(j) \/ JobGoesStale(j) => TypeInv'
         /\ \A s \in Sessions : Acquire(s) \/ Lapse(s) \/ Close(s) => TypeInv'
<1> USE DEF TypeInv, TypeOK, RetriesLeft, RunningHasToken, DeferringRows, At, objVars, execVars,
        leaseVars, rqVars, workerVars, dispatchVars
<1>1. ASSUME NEW e \in Exec, Elapse(e) PROVE TypeInv'
  BY <1>1 DEF Elapse
<1>2. ASSUME NEW e \in Exec, FallDue(e) PROVE TypeInv'
  BY <1>2 DEF FallDue
<1>3. ASSUME NEW j \in queued \cup started, LoseJob(j) \/ JobGoesStale(j) PROVE TypeInv'
  BY <1>3 DEF LoseJob, JobGoesStale
<1>4. ASSUME NEW s \in Sessions, Acquire(s) \/ Lapse(s) \/ Close(s) PROVE TypeInv'
  BY <1>4 DEF Acquire, Lapse, Close
<1> QED
  BY <1>1, <1>2, <1>3, <1>4

LEMMA StepTyped == TypeInv /\ [Next]_vars => TypeInv'
<1> SUFFICES ASSUME TypeInv, [Next]_vars PROVE TypeInv'
  OBVIOUS
<1>1. CASE UNCHANGED vars
  BY <1>1 DEF vars, objVars, execVars, leaseVars, rqVars, workerVars, dispatchVars, TypeInv, TypeOK,
     RetriesLeft, RunningHasToken, DeferringRows, At
<1>2. CASE Next
  BY <1>2, UserSteps, UserTyped, WorkerTyped, DispatcherTyped, EnvironmentTyped DEF Next
<1> QED
  BY <1>1, <1>2

(* Every row, object, worker and dispatcher stays within its type, a row   *)
(* that still waits can always be claimed, and a running row's token is    *)
(* that of its last attempt.                                               *)
THEOREM Typing == Spec => [](TypeOK /\ RetriesLeft /\ RunningHasToken)
<1>1. Spec => []TypeInv
  BY InitTyped, StepTyped, PTL DEF Spec
<1>2. TypeInv => TypeOK /\ RetriesLeft /\ RunningHasToken
  BY DEF TypeInv
<1> QED
  BY <1>1, <1>2, PTL

-----------------------------------------------------------------------------
(***************************************************************************)
(* Two promises of Executions for all constants: an outcome is final, and  *)
(* no open object is left without an execution.  The steps of users and of *)
(* the system are taken apart in lemmas of their own.                      *)
(***************************************************************************)

(* How the status of a row may change. *)
Moves == {<<"none", "pending">>, <<"pending", "queued">>, <<"queued", "queued">>,
          <<"pending", "running">>, <<"queued", "running">>,
          <<"queued", "pending">>, <<"superseded", "pending">>,
          <<"pending", "superseded">>, <<"queued", "superseded">>, <<"running", "superseded">>,
          <<"running", "pending">>, <<"running", "succeeded">>, <<"running", "failed">>}

RowsMove == \A e \in Exec : estat'[e] # estat[e] => <<estat[e], estat'[e]>> \in Moves

LEMMA ScheduleMoves ==
  ASSUME TypeInv, NEW o \in Objects, NEW r \in 0..MaxRevision, NEW operation, NEW except,
         Schedule(o, r, operation, except)
  PROVE  RowsMove
<1>1. PICK e \in Exec : ScheduleRow(e, operation) \/ UNCHANGED execVars
  BY Scheduled, Ids
<1> QED
  BY <1>1 DEF ScheduleRow, RowsMove, Moves, TypeInv, TypeOK, execVars, leaseVars

LEMMA UserMoves ==
  ASSUME TypeInv, NEW o \in Objects, UserStep(o)
  PROVE  RowsMove
<1>1. 0 \in 0..MaxRevision /\ (rev[o] < MaxRevision => rev[o] + 1 \in 0..MaxRevision)
  BY LimitsAssumption DEF TypeInv, TypeOK
<1>2. CASE Insert(o, {}) \/ ReviseOpen(o, Existing, "processing", "run")
           \/ ReviseOpen(o, Existing, "learning", "learn")
  BY <1>1, <1>2, ScheduleMoves DEF Insert, ReviseOpen, Revise
<1>3. CASE CreateTemplate(o) \/ DeleteTemplate(o)
           \/ \E to \in {"cancelled", "ready", "draft", "published"} : ReviseIdle(o, Existing, to)
  BY <1>3 DEF CreateTemplate, DeleteTemplate, ReviseIdle, RowsMove, execVars, leaseVars
<1>4. CASE DeleteTask(o)
  BY <1>4 DEF DeleteTask, RowsMove, Moves, Unfinished, Waiting, TypeInv, TypeOK
<1> QED
  BY <1>2, <1>3, <1>4 DEF UserStep

LEMMA StepMoves == TypeInv /\ [Next]_vars => RowsMove
<1> SUFFICES ASSUME TypeInv, [Next]_vars PROVE RowsMove
  OBVIOUS
<1>0. \A w \in Workers : wpc[w] # "idle" => At(w) \in Exec
  BY Ids DEF TypeInv, TypeOK, At
<1>1. CASE UNCHANGED estat
  BY <1>1 DEF RowsMove
<1>2. ASSUME NEW o \in Objects, User(o) PROVE RowsMove
  BY <1>2, UserSteps, UserMoves
<1>3. ASSUME NEW w \in Workers, DeferWrite(w) PROVE RowsMove
  BY <1>3, <1>0 DEF DeferWrite, RowsMove, Moves, TypeInv, TypeOK, DeferringRows, Waiting
<1>4. ASSUME NEW w \in Workers, ClaimTake(w) PROVE RowsMove
  BY <1>4, <1>0 DEF ClaimTake, Claimable, RowsMove, Moves, TypeInv, TypeOK, Waiting
<1>5. ASSUME NEW w \in Workers, Finish(w) PROVE RowsMove
  BY <1>5, <1>0 DEF Finish, Fenced, RowsMove, Moves, TypeInv, TypeOK
<1>6. ASSUME NEW w \in Workers, NEW x \in Exports, HandOff(w, x) PROVE RowsMove
  BY <1>6, ScheduleMoves, LimitsAssumption DEF HandOff, Insert, Objects, Children
<1>7. ASSUME NEW d \in Dispatchers, Recover(d) PROVE RowsMove
  BY <1>7 DEF Recover, Lapsed, RowsMove, Moves, TypeInv, TypeOK
<1>8. ASSUME NEW d \in Dispatchers, Reserve(d) PROVE RowsMove
  BY <1>8, Ids DEF Reserve, Unchanged, RowsMove, Moves, TypeInv, TypeOK, Waiting
<1>9. CASE Next
  <2>1. ASSUME NEW w \in Workers,
               (\E j \in queued : Deliver(w, j)) \/ Claim(w) \/ Body(w) \/ Heartbeat(w)
               \/ Finish(w) \/ Crash(w) \/ (\E x \in Exports : HandOff(w, x))
        PROVE  RowsMove
    BY <2>1, <1>1, <1>3, <1>4, <1>5, <1>6 DEF Claim, Body, Deliver, ClaimDefer, ClaimNothing,
       BodyRead, BodyPublish, BodyError, Heartbeat, Crash, execVars, leaseVars
  <2>2. ASSUME NEW d \in Dispatchers, DispatchStep(d) \/ DispatcherCrash(d) PROVE RowsMove
    BY <2>2, <1>1, <1>7, <1>8 DEF DispatchStep, DispatcherCrash, Scan, Check, Renew, Enqueue,
       BrokerDown, execVars, leaseVars
  <2>3. ASSUME \/ \E e \in Exec : Elapse(e) \/ FallDue(e)
               \/ \E j \in queued \cup started : LoseJob(j) \/ JobGoesStale(j)
               \/ \E s \in Sessions : Acquire(s) \/ Lapse(s) \/ Close(s)
        PROVE  RowsMove
    BY <2>3, <1>1 DEF Elapse, FallDue, LoseJob, JobGoesStale, Acquire, Lapse, Close, execVars,
       leaseVars
  <2> QED
    BY <1>2, <1>9, <2>1, <2>2, <2>3 DEF Next
<1> QED
  BY <1>1, <1>9 DEF vars, execVars, leaseVars

(* A row that succeeded or failed never changes its status again, whatever *)
(* dispatchers, workers and recovery still do with what they read of it.   *)
THEOREM Outcomes == Spec => OutcomeIsFinal
<1>1. TypeInv /\ [Next]_vars =>
        [\A e \in Exec : estat[e] \in {"succeeded", "failed"} => estat'[e] = estat[e]]_vars
  BY StepMoves DEF RowsMove, Moves
<1> QED
  BY <1>1, InitTyped, StepTyped, PTL DEF Spec, OutcomeIsFinal

(* A row ends, and once: while it is open it has attempts left, and closed *)
(* it stays closed.                                                        *)
THEOREM RowsEnd == Spec => RowsEndOnce
BY Typing, Outcomes, PTL DEF RowsEndOnce

-----------------------------------------------------------------------------
(* Open objects have an execution. *)

(* NoOrphan is not inductive alone: a claim that supersedes or a body that *)
(* ends needs to know what the row, the worker and the object can be.      *)
SafeInv ==
  TypeInv /\ RowsMatchObjects /\ WorkersMatchRows /\ SuccessMeansClosed /\ NoOrphan

LEMMA InitSafe == Init => SafeInv
<1> SUFFICES ASSUME Init PROVE SafeInv
  OBVIOUS
<1>1. TypeInv
  BY InitTyped
<1>2. RowsMatchObjects /\ WorkersMatchRows /\ SuccessMeansClosed /\ NoOrphan
  BY Ids DEF Init, RowsMatchObjects, WorkersMatchRows, SuccessMeansClosed, NoOrphan, Holds, Open
<1> QED
  BY <1>1, <1>2 DEF SafeInv

(* Steps of the system: no object is opened, no row is new, rows close     *)
(* together with their objects, and a worker holds what it held or what it *)
(* has just claimed.                                                       *)
LEMMA SystemSafe ==
  ASSUME SafeInv, TypeInv', rev' = rev, op' = op,
         \A e \in Exec :
           /\ estat'[e] = "none" <=> estat[e] = "none"
           /\ attempts[e] <= attempts'[e]
           /\ estat[e] \in Unfinished /\ estat'[e] \notin Unfinished /\ e[2] = rev[e[1]]
                => ~Open(e[1])',
         \A o \in Objects :
           /\ ostat'[o] = "none" <=> ostat[o] = "none"
           /\ Open(o)' => ostat'[o] = ostat[o],
         \A v \in Workers :
           /\ Holds(v)' =>
                \/ /\ Holds(v) /\ wjob'[v] = wjob[v] /\ wtok'[v] = wtok[v]
                   /\ Fenced(v)' => Fenced(v)
                \/ /\ wpc'[v] = "claimed"
                   /\ estat'[At(v)'] # "none" /\ wtok'[v] \in 1..attempts'[At(v)']
           /\ wpc'[v] = "working" =>
                \/ wpc[v] = "working" /\ wseen'[v] = wseen[v] /\ wjob'[v] = wjob[v]
                \/ Holds(v) /\ wseen'[v] = rev[Thing(v)] /\ wjob'[v] = wjob[v]
           /\ wpc'[v] = "ending" /\ wpc[v] # "ending" /\ Fenced(v) /\ At(v)[2] = rev[Thing(v)]
                => ~Open(Thing(v))'
  PROVE  SafeInv'
<1>0. \A v \in Workers : Holds(v) => At(v) \in Exec /\ Thing(v) \in Objects /\ At(v)[2] \in Nat
                                     /\ rev[Thing(v)] \in Nat /\ attempts[At(v)] \in Nat
  BY Ids, LimitsAssumption DEF SafeInv, TypeInv, TypeOK, Holds, At, Thing
<1>1. RowsMatchObjects'
  BY Ids, LimitsAssumption DEF SafeInv, RowsMatchObjects, Open
<1>2. WorkersMatchRows'
  <2>1. ASSUME NEW v \in Workers, Holds(v)'
        PROVE  estat'[At(v)'] # "none" /\ wtok'[v] \in 1..attempts'[At(v)']
    <3>1. CASE Holds(v) /\ wjob'[v] = wjob[v] /\ wtok'[v] = wtok[v]
      <4>1. At(v)' = At(v) /\ At(v) \in Exec /\ attempts'[At(v)] \in Nat
        BY <3>1, <1>0 DEF At, TypeInv, TypeOK
      <4> QED
        BY <3>1, <4>1, <1>0 DEF SafeInv, WorkersMatchRows
    <3> QED
      BY <2>1, <3>1
  <2>2. ASSUME NEW v \in Workers, wpc'[v] = "working"
        PROVE  At(v)'[2] <= wseen'[v] /\ wseen'[v] <= rev'[Thing(v)']
    <3>1. Holds(v) /\ At(v)' = At(v) /\ Thing(v)' = Thing(v)
      BY <2>2 DEF Holds, At, Thing
    <3>2. At(v)[2] <= rev[Thing(v)]
      BY <3>1, <1>0 DEF SafeInv, WorkersMatchRows, RowsMatchObjects, Thing
    <3> QED
      BY <2>2, <3>1, <3>2, <1>0 DEF SafeInv, WorkersMatchRows
  <2> QED
    BY <2>1, <2>2 DEF WorkersMatchRows, TypeInv, DeferringRows
<1>3. SuccessMeansClosed'
  <2> SUFFICES ASSUME NEW v \in Workers, wpc'[v] = "ending", Fenced(v)',
                      (At(v)[2] = rev[Thing(v)])'
               PROVE  (~Open(Thing(v)))'
    BY DEF SuccessMeansClosed, Open
  <2>1. Holds(v) /\ wjob'[v] = wjob[v] /\ Fenced(v)
    BY DEF Holds
  <2>2. Thing(v)' = Thing(v) /\ Thing(v) \in Objects /\ At(v)[2] = rev[Thing(v)]
    BY <2>1, <1>0 DEF Thing, At
  <2> QED
    BY <2>1, <2>2 DEF SafeInv, SuccessMeansClosed, Open
<1>4. NoOrphan'
  BY Ids DEF SafeInv, TypeInv, TypeOK, NoOrphan, Open
<1> QED
  BY <1>1, <1>2, <1>3, <1>4 DEF SafeInv

(* Steps of users: a new object or a new revision, with its row if it is   *)
(* open.                                                                   *)
LEMMA RevisedSafe ==
  ASSUME SafeInv, TypeInv', UNCHANGED workerVars, NEW o \in Objects, NEW r \in 0..MaxRevision, NEW to,
         rev' = [rev EXCEPT ![o] = r], ostat' = [ostat EXCEPT ![o] = to], to # "none",
         \/ r = 0 /\ \A q \in 0..MaxRevision : estat[<<o, q>>] = "none"
         \/ r = rev[o] + 1 /\ ostat[o] # "none",
         \/ /\ UNCHANGED execVars /\ to \notin {"processing", "learning"}
            /\ o \in Templates \/ ostat[o] # "none"
         \/ to = "processing" /\ ScheduleRow(<<o, r>>, "run")
         \/ to = "learning" /\ o \in Templates /\ ScheduleRow(<<o, r>>, "learn")
  PROVE  SafeInv'
<1>0. /\ r \in Nat /\ <<o, r>> \in Exec /\ 0 \in 0..MaxRevision
      /\ \A x \in Objects : rev[x] \in Nat /\ rev'[x] \in Nat /\ rev[x] \in 0..MaxRevision
      /\ \A v \in Workers : Holds(v) => At(v) \in Exec /\ Thing(v) \in Objects /\ At(v)[2] \in Nat
  BY Ids, LimitsAssumption DEF SafeInv, TypeInv, TypeOK, Holds, At, Thing
<1>1. \A e \in Exec : estat[e] # "none" =>
        /\ estat'[e] = estat[e] /\ op'[e] = op[e] /\ token'[e] = token[e] /\ lease'[e] = lease[e]
        /\ attempts'[e] = attempts[e] /\ e[2] <= rev[e[1]] /\ rev[e[1]] <= rev'[e[1]]
        /\ ostat[e[1]] # "none" /\ (e[1] = o => e[2] < r)
  BY <1>0, Ids DEF SafeInv, RowsMatchObjects, ScheduleRow, execVars, leaseVars, TypeInv, TypeOK
<1>2. \A e \in Exec : estat[e] = "none" /\ estat'[e] # "none" => e = <<o, r>> /\ estat'[e] = "pending"
  <2>1. CASE UNCHANGED execVars
    BY <2>1 DEF execVars, leaseVars
  <2>2. ASSUME NEW operation, ScheduleRow(<<o, r>>, operation)
        PROVE  \A e \in Exec : estat[e] = "none" /\ estat'[e] # "none" => e = <<o, r>> /\ estat'[e] = "pending"
    BY <2>2, <1>0 DEF SafeInv, ScheduleRow, TypeInv, TypeOK
  <2> QED
    BY <2>1, <2>2
<1>3. RowsMatchObjects'
  <2>1. (\A x \in Objects : ostat[x] = "learning" => x \in Templates)'
    BY DEF SafeInv, TypeInv, TypeOK, RowsMatchObjects
  <2>2. (\A e \in Exec : estat[e] # "none" => e[2] <= rev[e[1]] /\ ostat[e[1]] # "none")'
    BY <1>0, <1>1, <1>2, Ids DEF SafeInv, TypeInv, TypeOK
  <2>3. (\A x \in Objects \ Templates : ostat[x] # "none" => estat[<<x, 0>>] # "none")'
    <3> SUFFICES ASSUME NEW x \in Objects \ Templates, ostat'[x] # "none"
                 PROVE  estat'[<<x, 0>>] # "none"
      OBVIOUS
    <3>0. <<x, 0>> \in Exec
      BY Ids, <1>0
    <3>1. CASE ostat[x] # "none"
      BY <3>0, <3>1, <1>1 DEF SafeInv, RowsMatchObjects
    <3>2. CASE ostat[x] = "none"
      <4>1. x = o /\ r = 0
        BY <3>2 DEF SafeInv, TypeInv, TypeOK
      <4>2. \E operation : ScheduleRow(<<x, 0>>, operation)
        BY <3>2, <4>1
      <4> QED
        BY <3>0, <4>2 DEF SafeInv, TypeInv, TypeOK, ScheduleRow
    <3> QED
      BY <3>1, <3>2
  <2> QED
    BY <2>1, <2>2, <2>3 DEF RowsMatchObjects
<1>4. WorkersMatchRows'
  <2>1. \A v \in Workers : Holds(v) => At(v) \in Exec /\ estat[At(v)] # "none"
    BY <1>0 DEF SafeInv, WorkersMatchRows
  <2>2. \A v \in Workers : wpc[v] = "working" => wseen[v] <= rev'[Thing(v)]
    BY <2>1, <1>0, <1>1 DEF SafeInv, WorkersMatchRows, Thing, Holds, TypeInv, TypeOK
  <2> QED
    BY <2>1, <2>2, <1>1 DEF SafeInv, TypeInv, WorkersMatchRows, DeferringRows, At, Thing, Holds,
       workerVars
<1>5. SuccessMeansClosed'
  <2> SUFFICES ASSUME NEW v \in Workers, wpc[v] = "ending", Fenced(v)', At(v)[2] = rev'[Thing(v)]
               PROVE  ~Open(Thing(v))'
    BY DEF SuccessMeansClosed, workerVars, At, Thing
  <2>1. At(v) \in Exec /\ estat[At(v)] # "none" /\ Thing(v) = At(v)[1]
    BY <1>0 DEF SafeInv, WorkersMatchRows, Holds, Thing
  <2>2. Thing(v) # o /\ Fenced(v)
    BY <2>1, <1>0, <1>1 DEF Fenced, At, workerVars, Live, SafeInv, TypeInv, TypeOK
  <2>3. rev'[Thing(v)] = rev[Thing(v)] /\ ostat'[Thing(v)] = ostat[Thing(v)]
    BY <2>2 DEF SafeInv, TypeInv, TypeOK
  <2> QED
    BY <2>2, <2>3 DEF SafeInv, SuccessMeansClosed, Open, At, Thing, workerVars
<1>6. NoOrphan'
  <2> SUFFICES ASSUME NEW x \in Objects, Open(x)'
               PROVE  /\ estat'[<<x, rev'[x]>>] \in Unfinished
                      /\ op'[<<x, rev'[x]>>] = "learn" <=> ostat'[x] = "learning"
    BY DEF NoOrphan
  <2>1. CASE x = o
    BY <2>1, <1>0 DEF Open, ScheduleRow, SafeInv, TypeInv, TypeOK, Unfinished, Waiting
  <2>2. CASE x # o
    <3>1. rev'[x] = rev[x] /\ ostat'[x] = ostat[x] /\ <<x, rev[x]>> \in Exec
      BY <2>2, <1>0, Ids DEF SafeInv, TypeInv, TypeOK
    <3>2. estat[<<x, rev[x]>>] \in Unfinished
      BY <3>1 DEF SafeInv, NoOrphan, Open
    <3> QED
      BY <3>1, <3>2, <1>1 DEF SafeInv, NoOrphan, Open, Unfinished, Waiting
  <2> QED
    BY <2>1, <2>2
<1> QED
  BY <1>3, <1>4, <1>5, <1>6 DEF SafeInv

LEMMA InsertSafe ==
  ASSUME SafeInv, TypeInv', NEW o \in Objects \ Templates, NEW except, Insert(o, except),
         UNCHANGED workerVars
  PROVE  SafeInv'
<1>1. 0 \in 0..MaxRevision
  BY LimitsAssumption
<1>2. ScheduleRow(<<o, 0>>, "run")
  BY <1>1 DEF Insert, Fresh, Schedule, ScheduleRow
<1>3. /\ \A q \in 0..MaxRevision : estat[<<o, q>>] = "none"
      /\ rev' = [rev EXCEPT ![o] = 0] /\ ostat' = [ostat EXCEPT ![o] = "processing"]
  BY DEF Insert, Fresh
<1> QED
  BY <1>1, <1>2, <1>3, RevisedSafe

LEMMA UserSafe ==
  ASSUME SafeInv, TypeInv', NEW o \in Objects, UserStep(o)
  PROVE  SafeInv'
<1>1. CASE o \notin Templates /\ Insert(o, {}) /\ UNCHANGED workerVars
  BY <1>1, InsertSafe
<1>2. CASE CreateTemplate(o)
  <2>1. /\ 0 \in 0..MaxRevision /\ rev' = [rev EXCEPT ![o] = 0]
        /\ ostat' = [ostat EXCEPT ![o] = "draft"] /\ o \in Templates /\ UNCHANGED <<workerVars, execVars>>
    BY <1>2, LimitsAssumption DEF CreateTemplate
  <2>2. \A q \in 0..MaxRevision : estat[<<o, q>>] = "none"
    BY <1>2, Ids DEF CreateTemplate, SafeInv, RowsMatchObjects
  <2> QED
    BY <2>1, <2>2, RevisedSafe
<1>3. ASSUME NEW to, Revise(o, Existing, to)
      PROVE  /\ rev[o] + 1 \in 0..MaxRevision /\ <<o, rev[o] + 1>> \in Exec
             /\ estat[<<o, rev[o] + 1>>] = "none" /\ ostat[o] # "none"
             /\ rev' = [rev EXCEPT ![o] = rev[o] + 1] /\ ostat' = [ostat EXCEPT ![o] = to]
             /\ UNCHANGED workerVars
  BY <1>3, Ids, LimitsAssumption DEF Revise, SafeInv, TypeInv, TypeOK, RowsMatchObjects, Existing
<1>4. CASE \E to \in {"cancelled", "ready", "draft", "published"} : ReviseIdle(o, Existing, to)
  BY <1>3, <1>4, RevisedSafe DEF ReviseIdle
<1>5. CASE ReviseOpen(o, Existing, "processing", "run")
  <2>1. ScheduleRow(<<o, rev[o] + 1>>, "run")
    BY <1>3, <1>5 DEF ReviseOpen, Schedule, ScheduleRow
  <2> QED
    BY <1>3, <1>5, <2>1, RevisedSafe DEF ReviseOpen
<1>6. CASE o \in Templates /\ ReviseOpen(o, Existing, "learning", "learn")
  <2>1. ScheduleRow(<<o, rev[o] + 1>>, "learn")
    BY <1>3, <1>6 DEF ReviseOpen, Schedule, ScheduleRow
  <2> QED
    BY <1>3, <1>6, <2>1, RevisedSafe DEF ReviseOpen
<1>7. CASE DeleteTask(o)
  <2> USE Ids DEF SafeInv, TypeInv, TypeOK
  <2>1. \A v \in Workers : Holds(v)' = Holds(v) /\ (Holds(v) => At(v) \in Exec) /\ At(v)' = At(v)
    BY <1>7 DEF DeleteTask, workerVars, Holds, At
  <2>2. \A v \in Workers : Holds(v) => (Fenced(v)' => Fenced(v))
    BY <1>7, <2>1 DEF DeleteTask, Fenced, workerVars, Live
  <2>3. /\ rev' = rev /\ op' = op
        /\ \A e \in Exec : (estat'[e] = "none" <=> estat[e] = "none") /\ attempts[e] <= attempts'[e]
    BY <1>7, LimitsAssumption DEF DeleteTask, Unfinished, Waiting
  <2>4. \A e \in Exec : estat[e] \in Unfinished /\ estat'[e] \notin Unfinished => ~Open(e[1])'
    BY <1>7 DEF DeleteTask, Open, Missing
  <2>5. \A x \in Objects : (ostat'[x] = "none" <=> ostat[x] = "none") /\ (Open(x)' => ostat'[x] = ostat[x])
    BY <1>7 DEF DeleteTask, Open, Missing
  <2>6. UNCHANGED <<wpc, wjob, wtok, wseen>>
    BY <1>7 DEF DeleteTask, workerVars
  <2> HIDE DEF SafeInv, TypeInv, TypeOK
  <2> QED
    BY <2>1, <2>2, <2>3, <2>4, <2>5, <2>6, SystemSafe DEF Holds
<1>8. CASE DeleteTemplate(o)
  <2>1. UNCHANGED <<rev, op, estat, attempts, token, lease, wpc, wjob, wtok, wseen>>
    BY <1>8 DEF DeleteTemplate, execVars, leaseVars, workerVars
  <2>2. \A x \in Objects : (ostat'[x] = "none" <=> ostat[x] = "none") /\ (Open(x)' => ostat'[x] = ostat[x])
    BY <1>8 DEF DeleteTemplate, Open, Missing, SafeInv, TypeInv, TypeOK
  <2>3. \A e \in Exec : attempts[e] <= attempts'[e]
    BY <2>1, LimitsAssumption DEF SafeInv, TypeInv, TypeOK
  <2> QED
    BY <2>1, <2>2, <2>3, SystemSafe DEF Holds, Fenced, Live, At, Thing
<1> QED
  BY <1>1, <1>2, <1>4, <1>5, <1>6, <1>7, <1>8 DEF UserStep

(* Steps that change no row, except that a lease may lapse or be beaten    *)
(* while it lasts.                                                         *)
LEMMA SameRowsSafe ==
  ASSUME SafeInv, TypeInv', UNCHANGED <<rev, op, estat, attempts, token>>,
         \A e \in Exec : Live(e)' => Live(e),
         \A o \in Objects :
           /\ ostat'[o] = "none" <=> ostat[o] = "none"
           /\ Open(o)' => ostat'[o] = ostat[o],
         \A v \in Workers :
           \/ UNCHANGED <<wpc[v], wjob[v], wtok[v], wseen[v]>>
           \/ wpc'[v] \in {"idle", "claiming", "deferring"}
           \/ /\ Holds(v) /\ wpc'[v] \in {"working", "ending", "failing", "retrying"}
              /\ UNCHANGED <<wjob[v], wtok[v]>>
              /\ wpc'[v] = "working" => wseen'[v] = rev[Thing(v)]
              /\ wpc'[v] = "ending" /\ Fenced(v) /\ At(v)[2] = rev[Thing(v)] => ~Open(Thing(v))'
  PROVE  SafeInv'
<1>1. \A v \in Workers : Holds(v)' =>
        Holds(v) /\ wjob'[v] = wjob[v] /\ wtok'[v] = wtok[v] /\ At(v)' = At(v) /\ At(v) \in Exec
  BY Ids DEF Holds, At, SafeInv, TypeInv, TypeOK
<1>2. \A v \in Workers : Holds(v)' => (Fenced(v)' => Fenced(v))
  BY <1>1 DEF Fenced
<1>3. \A e \in Exec : attempts[e] <= attempts'[e]
  BY LimitsAssumption DEF SafeInv, TypeInv, TypeOK
<1>4. \A v \in Workers : wpc'[v] = "working" =>
        \/ wpc[v] = "working" /\ wseen'[v] = wseen[v] /\ wjob'[v] = wjob[v]
        \/ Holds(v) /\ wseen'[v] = rev[Thing(v)] /\ wjob'[v] = wjob[v]
  OBVIOUS
<1>5. \A v \in Workers :
        wpc'[v] = "ending" /\ wpc[v] # "ending" /\ Fenced(v) /\ At(v)[2] = rev[Thing(v)]
          => ~Open(Thing(v))'
  OBVIOUS
<1> QED
  BY <1>1, <1>2, <1>3, <1>4, <1>5, SystemSafe

LEMMA LeasedSafe ==   \* a worker that keeps, publishes or fails its lease
  ASSUME SafeInv, TypeInv', NEW w \in Workers
  PROVE  /\ BodyRead(w) \/ BodyError(w) \/ BodyPublish(w) => SafeInv'
         /\ Heartbeat(w) => SafeInv'
<1>0. wpc[w] # "idle" => At(w) \in Exec /\ Thing(w) \in Objects
  BY Ids DEF SafeInv, TypeInv, TypeOK, At, Thing
<1>1. CASE BodyRead(w)
  <2>1. \A e \in Exec : Live(e)' => Live(e)
    BY <1>1 DEF BodyRead, execVars, leaseVars, Live
  <2>2. UNCHANGED <<rev, ostat, op, estat, attempts, token, wjob, wtok>> /\ Holds(w)
    BY <1>1 DEF BodyRead, objVars, execVars, leaseVars, Holds
  <2>3. \A v \in Workers : v # w => UNCHANGED <<wpc[v], wseen[v]>>
    BY <1>1 DEF BodyRead, Goto, SafeInv, TypeInv, TypeOK
  <2>4. /\ wpc'[w] \in {"working", "ending", "failing"}
        /\ wpc'[w] = "working" => wseen'[w] = rev[Thing(w)]
        /\ wpc'[w] = "ending" => ~Open(Thing(w))
    BY <1>1, <1>0, KindsAssumption DEF BodyRead, Goto, SafeInv, TypeInv, TypeOK, RowsMatchObjects, Open,
       Children
  <2>5. Thing(w)' = Thing(w) /\ Open(Thing(w))' = Open(Thing(w))
    BY <2>2 DEF Thing, At, Open
  <2> QED
    BY <2>1, <2>2, <2>3, <2>4, <2>5, SameRowsSafe
<1>2. CASE BodyError(w)
  <2>1. \A e \in Exec : Live(e)' => Live(e)
    BY <1>2 DEF BodyError, execVars, leaseVars, Live
  <2>2. UNCHANGED <<rev, ostat, op, estat, attempts, token, wjob, wtok, wseen>> /\ Holds(w)
    BY <1>2 DEF BodyError, InBody, objVars, execVars, leaseVars, Holds
  <2>3. \A v \in Workers : v # w => UNCHANGED <<wpc[v], wseen[v]>>
    BY <1>2 DEF BodyError, Goto, SafeInv, TypeInv, TypeOK
  <2>4. wpc'[w] \in {"failing", "retrying"}
    BY <1>2 DEF BodyError, Goto, SafeInv, TypeInv, TypeOK
  <2> QED
    BY <2>1, <2>2, <2>3, <2>4, SameRowsSafe DEF Open
<1>3. CASE BodyPublish(w)
  <2>1. \A e \in Exec : Live(e)' => Live(e)
    BY <1>3 DEF BodyPublish, execVars, leaseVars, Live
  <2>2. UNCHANGED <<rev, op, estat, attempts, token, wjob, wtok, wseen>> /\ Holds(w)
    BY <1>3 DEF BodyPublish, execVars, leaseVars, Holds
  <2>3. \A v \in Workers : v # w => UNCHANGED <<wpc[v], wseen[v]>>
    BY <1>3 DEF BodyPublish, Goto, SafeInv, TypeInv, TypeOK
  <2>4. Thing(w)' = Thing(w) /\ Thing(w) \in Objects /\ At(w) \in Exec /\ Thing(w) = At(w)[1]
    BY <1>3, <1>0, <2>2 DEF Thing, At, BodyPublish
  <2>5. \A o \in Objects : (ostat'[o] = "none" <=> ostat[o] = "none") /\ (Open(o)' => ostat'[o] = ostat[o])
    BY <1>3, <2>4 DEF BodyPublish, Missing, Result, Open, SafeInv, TypeInv, TypeOK
  <2>6. wpc'[w] \in {"ending", "failing"}
    BY <1>3 DEF BodyPublish, Goto, SafeInv, TypeInv, TypeOK
  <2>7. ASSUME wpc'[w] = "ending", At(w)[2] = rev[Thing(w)] PROVE ~Open(Thing(w))'
    <3>1. CASE Outdated(w) /\ UNCHANGED ostat
      <4>1. wseen[w] = rev[Thing(w)]
        <5>1. wseen[w] \in Nat /\ rev[Thing(w)] \in Nat
          BY <2>4, LimitsAssumption DEF SafeInv, TypeInv, TypeOK
        <5>2. wpc[w] = "working" /\ At(w)[2] <= wseen[w] /\ wseen[w] <= rev[Thing(w)]
          BY <1>3 DEF SafeInv, WorkersMatchRows, BodyPublish
        <5> QED
          BY <2>7, <5>1, <5>2
      <4>2. ostat[Thing(w)] # Expected(At(w))
        BY <3>1, <4>1 DEF Outdated
      <4>3. At(w) = <<Thing(w), rev[Thing(w)]>>
        BY <2>7, <2>4, Ids
      <4> QED
        BY <3>1, <2>4, <4>2, <4>3 DEF Expected, SafeInv, NoOrphan, Open
    <3>2. CASE ostat' = [ostat EXCEPT ![Thing(w)] = Result(Thing(w))]
      BY <3>2, <2>4 DEF Open, Result, SafeInv, TypeInv, TypeOK
    <3> QED
      BY <2>7, <3>1, <3>2, <1>3 DEF BodyPublish, Goto, SafeInv, TypeInv, TypeOK
  <2> QED
    BY <2>1, <2>2, <2>3, <2>5, <2>6, <2>7, SameRowsSafe
<1>4. CASE Heartbeat(w)
  <2>1. At(w) \in Exec /\ \A e \in Exec : Live(e)' => Live(e)
    BY <1>4, <1>0 DEF Heartbeat, Holds, Fenced, Live, SafeInv, TypeInv, TypeOK
  <2> QED
    BY <1>4, <2>1, SameRowsSafe DEF Heartbeat, objVars, workerVars, Open
<1> QED
  BY <1>1, <1>2, <1>3, <1>4

LEMMA ClaimSafe ==
  ASSUME SafeInv, TypeInv', NEW w \in Workers
  PROVE  /\ (\E j \in queued : Deliver(w, j)) => SafeInv'
         /\ Claim(w) \/ Crash(w) => SafeInv'
<1>0. wpc[w] # "idle" => At(w) \in Exec /\ Thing(w) \in Objects /\ attempts[At(w)] \in Nat
  BY Ids, LimitsAssumption DEF SafeInv, TypeInv, TypeOK, At, Thing
<1>1. ASSUME NEW j \in queued, Deliver(w, j) PROVE SafeInv'
  <2>1. /\ UNCHANGED <<rev, ostat, op, estat, attempts, token, lease>>
        /\ wpc'[w] = "claiming"
        /\ \A v \in Workers : v # w => UNCHANGED <<wpc[v], wjob[v], wtok[v], wseen[v]>>
    BY <1>1 DEF Deliver, Goto, objVars, execVars, leaseVars, SafeInv, TypeInv, TypeOK
  <2> QED
    BY <2>1, SameRowsSafe DEF Live, Open
<1>2. CASE ClaimDefer(w)
  <2>1. /\ UNCHANGED <<rev, ostat, op, estat, attempts, token, lease, wjob, wtok, wseen>>
        /\ wpc'[w] = "deferring"
        /\ \A v \in Workers : v # w => UNCHANGED wpc[v]
    BY <1>2 DEF ClaimDefer, Goto, objVars, execVars, leaseVars, SafeInv, TypeInv, TypeOK
  <2> QED
    BY <2>1, SameRowsSafe DEF Live, Open
<1>e. ASSUME Release(w)
      PROVE  /\ wpc'[w] = "idle"
             /\ \A v \in Workers : v # w => UNCHANGED <<wpc[v], wjob[v], wtok[v], wseen[v]>>
  BY <1>e DEF Release, Goto, SafeInv, TypeInv, TypeOK
<1>3. CASE ClaimNothing(w) \/ Crash(w)
  <2>1. UNCHANGED <<rev, ostat, op, estat, attempts, token, lease>>
    BY <1>3 DEF ClaimNothing, Crash, objVars, execVars, leaseVars
  <2> QED
    BY <2>1, <1>3, <1>e, SameRowsSafe DEF Live, Open, ClaimNothing, Crash, EndJob
<1>4. CASE DeferWrite(w)
  <2>1. /\ UNCHANGED <<rev, ostat, op, attempts, token>> /\ Release(w)
        /\ estat' = [estat EXCEPT ![At(w)] = "pending"] /\ lease' = [lease EXCEPT ![At(w)] = "none"]
        /\ At(w) \in Exec /\ estat[At(w)] \in {"pending", "queued", "superseded"}
    BY <1>4, <1>0 DEF DeferWrite, EndJob, objVars, SafeInv, WorkersMatchRows, Waiting
  <2>2. \A v \in Workers : Holds(v)' =>
          /\ Holds(v) /\ wjob'[v] = wjob[v] /\ wtok'[v] = wtok[v] /\ wpc'[v] = wpc[v]
          /\ wseen'[v] = wseen[v] /\ At(v)' = At(v) /\ At(v) \in Exec /\ wpc[v] # "idle"
    BY <2>1, <1>e, Ids DEF Holds, At, SafeInv, TypeInv, TypeOK
  <2>3. \A v \in Workers : Holds(v)' => (Fenced(v)' => Fenced(v))
    BY <2>1, <2>2 DEF Fenced, Live, SafeInv, TypeInv, TypeOK
  <2>4. \A e \in Exec : /\ estat'[e] = "none" <=> estat[e] = "none"
                        /\ attempts[e] <= attempts'[e]
                        /\ estat[e] \in Unfinished => estat'[e] \in Unfinished
    BY <2>1, LimitsAssumption DEF SafeInv, TypeInv, TypeOK, Unfinished, Waiting
  <2> QED
    BY <2>1, <2>2, <2>3, <2>4, SystemSafe DEF Holds, Open
<1>5. CASE ClaimTake(w)
  <2> DEFINE e == At(w)
  <2>1. /\ e \in Exec /\ UNCHANGED <<rev, ostat, op>> /\ estat[e] \in Waiting
        /\ attempts[e] \in Nat /\ wpc[w] = "claiming"
        /\ attempts' = [attempts EXCEPT ![e] = attempts[e] + 1]
        /\ token' = [token EXCEPT ![e] = attempts[e] + 1]
    BY <1>5, <1>0 DEF ClaimTake, Claimable, objVars
  <2>2. \/ /\ Current(e) /\ estat' = [estat EXCEPT ![e] = "running"]
           /\ lease' = [lease EXCEPT ![e] = "fresh"] /\ Goto(w, "claimed")
           /\ wtok' = [wtok EXCEPT ![w] = attempts[e] + 1] /\ UNCHANGED <<wjob, wseen>>
        \/ /\ ~Current(e) /\ estat' = [estat EXCEPT ![e] = "superseded"]
           /\ lease' = [lease EXCEPT ![e] = "none"] /\ Release(w)
    BY <1>5 DEF ClaimTake, EndJob
  <2>w. e = At(w)
    OBVIOUS
  <2> HIDE DEF e
  <2>3. \A v \in Workers : v # w => UNCHANGED <<wpc[v], wjob[v], wtok[v], wseen[v]>>
    BY <2>2, <1>e DEF Goto, SafeInv, TypeInv, TypeOK
  <2>4. \A v \in Workers : v # w /\ Holds(v) =>
          At(v)' = At(v) /\ At(v) \in Exec /\ wtok[v] \in 1..attempts[At(v)]
    BY <2>3, Ids DEF Holds, At, SafeInv, TypeInv, TypeOK, WorkersMatchRows
  <2>5. ASSUME NEW v \in Workers, v # w, Holds(v), Fenced(v)' PROVE Fenced(v)
    <3>1. CASE At(v) = e
      <4>1. token'[e] = attempts[e] + 1 /\ wtok[v] <= attempts[e]
        BY <3>1, <2>1, <2>4, <2>5 DEF SafeInv, TypeInv, TypeOK
      <4>2. token'[e] = wtok[v]
        BY <3>1, <2>3, <2>4, <2>5 DEF Fenced
      <4> QED
        BY <4>1, <4>2, <2>1, <2>4, <2>5
    <3>2. CASE At(v) # e
      BY <3>2, <2>1, <2>2, <2>3, <2>4, <2>5 DEF Fenced, Live, SafeInv, TypeInv, TypeOK
    <3> QED
      BY <3>1, <3>2
  <2>6. Holds(w)' => /\ wpc'[w] = "claimed" /\ At(w)' = e /\ estat'[e] # "none"
                     /\ wtok'[w] \in 1..attempts'[e]
    <3>1. CASE Goto(w, "claimed") /\ wtok' = [wtok EXCEPT ![w] = attempts[e] + 1] /\ UNCHANGED wjob
                /\ estat' = [estat EXCEPT ![e] = "running"]
      BY <3>1, <2>1, <2>w DEF Goto, At, SafeInv, TypeInv, TypeOK
    <3>2. CASE Release(w)
      BY <3>2, <1>e DEF Holds
    <3> QED
      BY <3>1, <3>2, <2>2
  <2>7. wpc'[w] \in {"claimed", "idle"}
    BY <2>2, <1>e DEF Goto, SafeInv, TypeInv, TypeOK
  <2>8. e[2] = rev[e[1]] /\ Open(e[1]) => Current(e)
    <3>1. e[1] \in Objects /\ e = <<e[1], e[2]>>
      BY <2>1, Ids
    <3> QED
      BY <3>1 DEF SafeInv, NoOrphan, Current, Expected, Open
  <2>9. \A x \in Exec : /\ estat'[x] = "none" <=> estat[x] = "none"
                        /\ attempts[x] <= attempts'[x]
                        /\ estat[x] \in Unfinished /\ estat'[x] \notin Unfinished
                             => x = e /\ ~Current(e)
    BY <2>1, <2>2, LimitsAssumption DEF SafeInv, TypeInv, TypeOK, Unfinished, Waiting
  <2>10. \A x \in Exec : estat[x] \in Unfinished /\ estat'[x] \notin Unfinished /\ x[2] = rev[x[1]]
                            => ~Open(x[1])'
    BY <2>1, <2>8, <2>9 DEF Open
  <2>11. \A v \in Workers : Holds(v)' =>
           \/ /\ Holds(v) /\ wjob'[v] = wjob[v] /\ wtok'[v] = wtok[v]
              /\ Fenced(v)' => Fenced(v)
           \/ /\ wpc'[v] = "claimed"
              /\ estat'[At(v)'] # "none" /\ wtok'[v] \in 1..attempts'[At(v)']
    BY <2>3, <2>5, <2>6 DEF Holds
  <2>12. \A v \in Workers : wpc'[v] \in {"working", "ending"} =>
           wpc'[v] = wpc[v] /\ wseen'[v] = wseen[v] /\ wjob'[v] = wjob[v]
    BY <2>3, <2>7
  <2> QED
    BY <2>1, <2>9, <2>10, <2>11, <2>12, SystemSafe DEF Open
<1> QED
  BY <1>1, <1>2, <1>3, <1>4, <1>5 DEF Claim

LEMMA FinishSafe ==
  ASSUME SafeInv, TypeInv', NEW w \in Workers, Finish(w)
  PROVE  SafeInv'
<1>w. PICK e \in Exec : e = At(w)
  BY Ids DEF Finish, At, SafeInv, TypeInv, TypeOK
<1>0. /\ e[1] = Thing(w) /\ wpc[w] \in {"ending", "failing", "retrying"}
      /\ UNCHANGED <<rev, op, attempts, token>>
      /\ wpc'[w] = "idle"
      /\ \A v \in Workers : v # w => UNCHANGED <<wpc[v], wjob[v], wtok[v], wseen[v]>>
  BY <1>w, Ids DEF Finish, EndJob, Release, Goto, At, Thing, SafeInv, TypeInv, TypeOK
<1>1. \/ UNCHANGED <<estat, lease, ostat>>
      \/ \E outcome \in {"succeeded", "pending", "failed"} :
           /\ Fenced(w) /\ (outcome = "succeeded" => wpc[w] = "ending")
           /\ estat' = [estat EXCEPT ![e] = outcome] /\ lease' = [lease EXCEPT ![e] = "none"]
           /\ FailObjects(IF outcome = "failed" THEN {e} ELSE {})
  BY <1>w DEF Finish
<1>2. \A v \in Workers : Holds(v)' =>
        /\ Holds(v) /\ wjob'[v] = wjob[v] /\ wtok'[v] = wtok[v] /\ wpc'[v] = wpc[v]
        /\ wseen'[v] = wseen[v] /\ At(v)' = At(v) /\ At(v) \in Exec
  BY <1>0, Ids DEF Holds, At, SafeInv, TypeInv, TypeOK
<1>3. CASE UNCHANGED <<estat, lease, ostat>>
  <2>1. \A x \in Exec : attempts[x] <= attempts'[x]
    BY <1>0, LimitsAssumption DEF SafeInv, TypeInv, TypeOK
  <2> QED
    BY <1>0, <1>2, <1>3, <2>1, SystemSafe DEF Holds, Open, Fenced, Live
<1>4. ASSUME NEW outcome \in {"succeeded", "pending", "failed"}, Fenced(w),
             outcome = "succeeded" => wpc[w] = "ending",
             estat' = [estat EXCEPT ![e] = outcome], lease' = [lease EXCEPT ![e] = "none"],
             FailObjects(IF outcome = "failed" THEN {e} ELSE {})
      PROVE  SafeInv'
  <2>1. estat[e] = "running"
    BY <1>4, <1>w DEF Fenced
  <2>2. \A v \in Workers : Holds(v)' => (Fenced(v)' => Fenced(v))
    BY <1>0, <1>2, <1>4 DEF Fenced, Live, SafeInv, TypeInv, TypeOK
  <2>3. \A o \in Objects :
          /\ ostat'[o] = "none" <=> ostat[o] = "none"
          /\ Open(o)' => ostat'[o] = ostat[o]
    BY <1>4 DEF FailObjects, Open
  <2>4. \A x \in Exec : /\ estat'[x] = "none" <=> estat[x] = "none"
                        /\ attempts[x] <= attempts'[x]
                        /\ estat[x] \in Unfinished /\ estat'[x] \notin Unfinished
                             => x = e /\ outcome # "pending"
    BY <1>0, <1>4, <2>1, LimitsAssumption DEF SafeInv, TypeInv, TypeOK, Unfinished, Waiting
  <2>5. ASSUME outcome # "pending", e[2] = rev[e[1]] PROVE ~(Open(e[1])')
    <3>0. e[1] \in Objects /\ e = <<e[1], rev[e[1]]>>
      BY <1>0, <2>5, Ids
    <3>1. CASE outcome = "succeeded"
      BY <3>0, <3>1, <1>0, <1>4, <1>w, <2>3, <2>5 DEF SafeInv, SuccessMeansClosed, Open
    <3>2. CASE outcome = "failed"
      BY <3>0, <3>2, <1>4 DEF FailObjects, Open
    <3> QED
      BY <3>1, <3>2, <1>4, <2>5
  <2> QED
    BY <1>0, <1>2, <2>2, <2>3, <2>4, <2>5, SystemSafe DEF Holds
<1> QED
  BY <1>1, <1>3, <1>4

LEMMA WorkerSafe ==
  ASSUME SafeInv, TypeInv', NEW w \in Workers
  PROVE  /\ (\E j \in queued : Deliver(w, j)) => SafeInv'
         /\ Claim(w) \/ Body(w) \/ Heartbeat(w) \/ Finish(w) \/ Crash(w) => SafeInv'
         /\ (\E x \in Exports : HandOff(w, x)) => SafeInv'
<1>1. ASSUME NEW x \in Exports, HandOff(w, x) PROVE SafeInv'
  BY <1>1, InsertSafe, KindsAssumption DEF HandOff, Objects, Children
<1> QED
  BY <1>1, ClaimSafe, LeasedSafe, FinishSafe DEF Body

LEMMA DispatcherSafe ==
  ASSUME SafeInv, TypeInv', NEW d \in Dispatchers, DispatchStep(d) \/ DispatcherCrash(d)
  PROVE  SafeInv'
<1>0. /\ \A v \in Workers : Holds(v) => At(v) \in Exec
      /\ UNCHANGED <<rev, op, attempts, wpc, wjob, wtok, wseen>>
      /\ \A v \in Workers : At(v)' = At(v) /\ Thing(v)' = Thing(v) /\ Holds(v)' = Holds(v)
      /\ \A x \in Exec : attempts[x] <= attempts'[x]
  <2>1. UNCHANGED <<rev, op, attempts, wpc, wjob, wtok, wseen>>
    BY DEF DispatchStep, DispatcherCrash, Recover, Scan, Check, Renew, Reserve, Enqueue, BrokerDown,
       objVars, execVars, leaseVars, workerVars
  <2> QED
    BY <2>1, Ids, LimitsAssumption DEF Holds, At, Thing, SafeInv, TypeInv, TypeOK
<1>1. CASE Recover(d)
  <2> DEFINE last == {e \in Lapsed : Exhausted(e)}
  <2>1. /\ estat' = [e \in Exec |-> IF e \in last THEN "failed"
                                    ELSE IF e \in Lapsed THEN "pending" ELSE estat[e]]
        /\ token' = [e \in Exec |-> IF e \in Lapsed THEN NoToken ELSE token[e]]
        /\ lease' = [e \in Exec |-> IF e \in Lapsed THEN "none" ELSE lease[e]]
        /\ FailObjects(last)
    BY <1>1 DEF Recover
  <2>2. last \subseteq Lapsed /\ Lapsed \subseteq Exec /\ \A e \in Lapsed : estat[e] = "running"
    BY DEF Lapsed
  <2> HIDE DEF last
  <2>3. \A v \in Workers : Holds(v) => (Fenced(v)' => Fenced(v))
    BY <1>0, <2>1, <2>2 DEF Fenced, Live
  <2>4. \A o \in Objects :
          /\ ostat'[o] = "none" <=> ostat[o] = "none"
          /\ Open(o)' => ostat'[o] = ostat[o]
    BY <2>1 DEF FailObjects, Open
  <2>5. \A x \in Exec : /\ estat'[x] = "none" <=> estat[x] = "none"
                        /\ estat[x] \in Unfinished /\ estat'[x] \notin Unfinished => x \in last
    BY <2>1, <2>2 DEF Unfinished, Waiting
  <2>6. ASSUME NEW x \in last, x[2] = rev[x[1]] PROVE ~Open(x[1])'
    <3>1. x[1] \in Objects /\ x = <<x[1], rev[x[1]]>>
      BY <2>2, <2>6, Ids
    <3> QED
      BY <2>1, <2>6, <3>1 DEF FailObjects, Open
  <2> QED
    BY <1>0, <2>3, <2>4, <2>5, <2>6, SystemSafe DEF Holds
<1>2. CASE Renew(d)
  <2>1. /\ UNCHANGED <<ostat, estat, token>> /\ row[d][1] \in Exec
        /\ \/ lease' = lease
           \/ estat[row[d][1]] = "queued" /\ lease' = [lease EXCEPT ![row[d][1]] = "waning"]
    BY <1>2, Ids DEF Renew, objVars, SafeInv, TypeInv, TypeOK
  <2>2. \A v \in Workers : Holds(v) => (Fenced(v)' => Fenced(v))
    BY <1>0, <2>1 DEF Fenced, Live, SafeInv, TypeInv, TypeOK
  <2> QED
    BY <1>0, <2>1, <2>2, SystemSafe DEF Holds, Open
<1>3. CASE Reserve(d)
  <2>1. /\ UNCHANGED <<ostat, token>> /\ row[d][1] \in Exec
        /\ \/ UNCHANGED <<estat, lease>>
           \/ /\ estat[row[d][1]] \in Waiting
              /\ estat' = [estat EXCEPT ![row[d][1]] = "queued"]
              /\ lease' = [lease EXCEPT ![row[d][1]] = "waning"]
    BY <1>3, Ids DEF Reserve, Unchanged, objVars, SafeInv, TypeInv, TypeOK
  <2>2. \A v \in Workers : Holds(v) => (Fenced(v)' => Fenced(v))
    BY <1>0, <2>1 DEF Fenced, Live, SafeInv, TypeInv, TypeOK
  <2>3. \A x \in Exec : /\ estat'[x] = "none" <=> estat[x] = "none"
                        /\ estat[x] \in Unfinished => estat'[x] \in Unfinished
    BY <2>1 DEF Unfinished, Waiting, SafeInv, TypeInv, TypeOK
  <2> QED
    BY <1>0, <2>1, <2>2, <2>3, SystemSafe DEF Holds, Open
<1>4. ASSUME UNCHANGED <<ostat, estat, token, lease>> PROVE SafeInv'
  BY <1>0, <1>4, SystemSafe DEF Holds, Open, Fenced, Live
<1> QED
  BY <1>1, <1>2, <1>3, <1>4 DEF DispatchStep, DispatcherCrash, Scan, Check, Enqueue, BrokerDown, objVars,
     execVars, leaseVars

LEMMA EnvironmentSafe ==
  ASSUME SafeInv, TypeInv',
         \/ \E e \in Exec : Elapse(e) \/ FallDue(e)
         \/ \E j \in queued \cup started : LoseJob(j) \/ JobGoesStale(j)
         \/ \E s \in Sessions : Acquire(s) \/ Lapse(s) \/ Close(s)
         \/ UNCHANGED vars
  PROVE  SafeInv'
<1>1. UNCHANGED <<rev, ostat, op, estat, attempts, token, wpc, wjob, wtok, wseen>>
  BY DEF Elapse, FallDue, LoseJob, JobGoesStale, Acquire, Lapse, Close, vars, objVars, execVars,
     leaseVars, workerVars
<1>2. \A e \in Exec : Live(e)' => Live(e)
  BY DEF Elapse, FallDue, LoseJob, JobGoesStale, Acquire, Lapse, Close, vars, execVars, leaseVars, Live,
     SafeInv, TypeInv, TypeOK
<1> QED
  BY <1>1, <1>2, SameRowsSafe DEF Open

LEMMA StepSafe == SafeInv /\ [Next]_vars => SafeInv'
<1> SUFFICES ASSUME SafeInv, [Next]_vars PROVE SafeInv'
  OBVIOUS
<1>1. TypeInv'
  BY StepTyped DEF SafeInv
<1>2. ASSUME NEW o \in Objects, User(o) PROVE SafeInv'
  BY <1>1, <1>2, UserSteps, UserSafe
<1>3. ASSUME NEW w \in Workers,
             (\E j \in queued : Deliver(w, j)) \/ Claim(w) \/ Body(w) \/ Heartbeat(w)
             \/ Finish(w) \/ Crash(w) \/ (\E x \in Exports : HandOff(w, x))
      PROVE  SafeInv'
  BY <1>1, <1>3, WorkerSafe
<1>4. ASSUME NEW d \in Dispatchers, DispatchStep(d) \/ DispatcherCrash(d) PROVE SafeInv'
  BY <1>1, <1>4, DispatcherSafe
<1> QED
  BY <1>1, <1>2, <1>3, <1>4, EnvironmentSafe DEF Next

(* Whatever the users revise and delete and whatever workers, dispatchers  *)
(* and recovery do late or twice, an object that is processing or learning *)
(* always has an unfinished execution of its own revision and operation.   *)
THEOREM NoOrphans == Spec => []NoOrphan
<1>1. Spec => []SafeInv
  BY InitSafe, StepSafe, PTL DEF Spec
<1>2. SafeInv => NoOrphan
  BY DEF SafeInv
<1> QED
  BY <1>1, <1>2, PTL
=============================================================================
