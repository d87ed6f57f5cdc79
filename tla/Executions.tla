------------------------------ MODULE Executions ------------------------------
(***************************************************************************)
(* Durable execution of workflow work (src/excel_auditor/workflow).        *)
(*                                                                         *)
(* Users create and revise objects (tasks, templates, exports and queued   *)
(* operations).  Every revision that needs work gets one row of the        *)
(* execution table in the same transaction.  Dispatchers hand due rows to  *)
(* RQ, workers claim them under a lease and a token, do the work, publish  *)
(* the result and finish; expired leases are recovered; the number of      *)
(* running and of admitted executions is limited.                          *)
(*                                                                         *)
(* One action is one database transaction (or one call to RQ): row locks   *)
(* and the capacity lock make each of them atomic, except the deferral of  *)
(* a claim, whose read and write are two steps here.                       *)
(*                                                                         *)
(* Time is not a number: a lease is fresh, waning or expired and moves one *)
(* way unless its holder beats (a dispatch lease, 30 s where a worker's is *)
(* 120 s, starts as waning); available_at is past ("due") or not.          *)
(***************************************************************************)
EXTENDS Integers, FiniteSets

CONSTANTS
  Tasks, Templates, Exports, Operations, \* the four kinds of objects
  Parent,        \* the task of an export or operation
  Owner,         \* the account an object's work is counted against
  Workers,       \* RQ worker processes
  Dispatchers,   \* the recovery process and the API requests that dispatch
  Sessions,      \* synchronous requests that hold an interactive lease
  Redis,         \* FALSE: local mode, no queue to ask whether a job is active
  Faults,        \* which parts may fail in this instance
  MaxRevision,   \* bound: no object is revised beyond it
  MaxAttempts, MaxRunning, UserRunning, MaxWaiting, UserWaiting

Children == Exports \cup Operations
Objects == Tasks \cup Templates \cup Children

ASSUME KindsAssumption ==
  /\ Tasks \cap Templates = {} /\ (Tasks \cup Templates) \cap Children = {}
  /\ Exports \cap Operations = {}
  /\ Parent \in [Children -> Tasks]

ASSUME FiniteAssumption == IsFiniteSet(Objects) /\ IsFiniteSet(Sessions)

ASSUME LimitsAssumption ==
  /\ MaxRevision \in Nat /\ Redis \in BOOLEAN
  /\ Faults \subseteq {"worker", "dispatcher", "broker"}
  /\ {MaxAttempts, MaxRunning, UserRunning, MaxWaiting, UserWaiting} \subseteq Nat \ {0}

(* An execution row is named by its object and revision: the id is         *)
(* uuid5(object:revision:operation) and a revision has one operation.      *)
Exec == Objects \X (0..MaxRevision)
(* The RQ job id "<execution>_<attempt>". *)
Job == Exec \X (1..MaxAttempts)

ObjectStatus == {"none", "processing", "learning", "mapping", "ready", "draft",
                 "published", "failed", "cancelled", "deleted"}
ExecStatus == {"none", "pending", "queued", "running", "succeeded", "failed", "superseded"}
NoToken == 0
NoJob == <<>>
NoRow == <<>>

VARIABLES
  rev, ostat,                               \* table workflow_objects
  op, estat, attempts, token, lease, due,   \* table workflow_executions
  queued, started,                          \* jobs RQ holds
  wpc, wjob, wtok, wseen,                   \* each worker
  dpc, rows, row,                           \* each dispatcher
  sess                                      \* table workflow_resource_leases

objVars == <<rev, ostat>>
leaseVars == <<estat, attempts, token, lease, due>>
execVars == <<op, leaseVars>>
rqVars == <<queued, started>>
workerVars == <<wpc, wjob, wtok, wseen>>
dispatchVars == <<dpc, rows, row>>
vars == <<objVars, execVars, rqVars, workerVars, dispatchVars, sess>>

WorkerPc == {"idle", "claiming", "deferring", "claimed", "working", "ending", "failing", "retrying"}
DispatchPc == {"idle", "scanning", "rows", "renewing", "reserving", "enqueueing"}
Row == Exec \X {"pending", "queued"} \X (0..(MaxAttempts - 1))

TypeOK ==
  /\ rev \in [Objects -> 0..MaxRevision] /\ ostat \in [Objects -> ObjectStatus]
  /\ op \in [Exec -> {"run", "learn"}] /\ estat \in [Exec -> ExecStatus]
  /\ attempts \in [Exec -> 0..MaxAttempts] /\ token \in [Exec -> 0..MaxAttempts]
  /\ lease \in [Exec -> {"none", "fresh", "waning", "expired"}] /\ due \in [Exec -> BOOLEAN]
  /\ queued \subseteq Job /\ started \subseteq Job
  /\ wpc \in [Workers -> WorkerPc] /\ wjob \in [Workers -> Job \cup {NoJob}]
  /\ wtok \in [Workers -> 0..MaxAttempts] /\ wseen \in [Workers -> 0..MaxRevision]
  /\ \A w \in Workers : wpc[w] # "idle" => wjob[w] \in Job
  /\ dpc \in [Dispatchers -> DispatchPc] /\ rows \in [Dispatchers -> SUBSET Row]
  /\ row \in [Dispatchers -> Row \cup {NoRow}]
  /\ \A d \in Dispatchers : dpc[d] \in {"renewing", "reserving", "enqueueing"} => row[d] \in Row
  /\ sess \in [Sessions -> {"none", "held", "lapsed"}]

Init ==
  /\ rev = [o \in Objects |-> 0] /\ ostat = [o \in Objects |-> "none"]
  /\ op = [e \in Exec |-> "run"] /\ estat = [e \in Exec |-> "none"]
  /\ attempts = [e \in Exec |-> 0] /\ token = [e \in Exec |-> NoToken]
  /\ lease = [e \in Exec |-> "none"] /\ due = [e \in Exec |-> TRUE]
  /\ queued = {} /\ started = {}
  /\ wpc = [w \in Workers |-> "idle"] /\ wjob = [w \in Workers |-> NoJob]
  /\ wtok = [w \in Workers |-> NoToken] /\ wseen = [w \in Workers |-> 0]
  /\ dpc = [d \in Dispatchers |-> "idle"] /\ rows = [d \in Dispatchers |-> {}]
  /\ row = [d \in Dispatchers |-> NoRow]
  /\ sess = [s \in Sessions |-> "none"]

-----------------------------------------------------------------------------
(* Shared conditions. *)

Waiting == {"pending", "queued"}
Unfinished == Waiting \cup {"running"}
Live(e) == lease[e] \in {"fresh", "waning"}
Missing(o) == ostat[o] \in {"none", "deleted"}   \* no row in the table
Open(o) == ostat[o] \in {"processing", "learning"}
SlipExpected(e) == "processing"   \* slip: learning forgotten
Expected(e) == IF op[e] = "learn" THEN "learning" ELSE "processing"

(* What a finished body leaves the object in. *)
Result(o) == IF o \in Tasks THEN "mapping" ELSE IF o \in Templates THEN "draft" ELSE "ready"

(* active_query: rows of the current revision of an object still in work. *)
Counted(e) == e[2] = rev[e[1]] /\ Open(e[1])
UnfinishedCounted == {e \in Exec : Counted(e) /\ estat[e] \in Unfinished}
RunningCounted == {e \in Exec : Counted(e) /\ estat[e] = "running" /\ Live(e)}
OwnedBy(u, E) == {e \in E : Owner[e[1]] = u}
Held == {s \in Sessions : sess[s] = "held"}

SlipCanRun(o) ==   \* slip: the interactive leases are not counted
  /\ Cardinality(RunningCounted) < MaxRunning
  /\ Cardinality(OwnedBy(Owner[o], RunningCounted)) < UserRunning

SlipCanRunWaiting(o) ==   \* slip: waiting rows take running slots
  /\ Cardinality(UnfinishedCounted) + Cardinality(Held) < MaxRunning
  /\ Cardinality(OwnedBy(Owner[o], UnfinishedCounted)) < UserRunning

CanRun(o) ==
  /\ Cardinality(RunningCounted) + Cardinality(Held) < MaxRunning
  /\ Cardinality(OwnedBy(Owner[o], RunningCounted)) < UserRunning

(* A claim that defers keeps the capacity lock between its read and its    *)
(* write; every other transaction that counts waits for it.                *)
CapacityLockFree == \A w \in Workers : wpc[w] # "deferring"

SlipAdmits(o, except) ==   \* slip: the running rows are not counted
  LET others == {e \in UnfinishedCounted : e[1] # o /\ estat[e] \in Waiting}
  IN  /\ CapacityLockFree
      /\ Cardinality(others) < MaxWaiting + MaxRunning
      /\ Cardinality(OwnedBy(Owner[o], others)) < UserWaiting + UserRunning

(* admit: rows of the object itself belong to older revisions by now, and  *)
(* an execution may hand its own slot to a child (except).                 *)
Admits(o, except) ==
  LET others == {e \in UnfinishedCounted : e[1] # o} \ except
  IN  /\ CapacityLockFree
      /\ Cardinality(others) < MaxWaiting + MaxRunning
      /\ Cardinality(OwnedBy(Owner[o], others)) < UserWaiting + UserRunning

(* schedule: the outbox row of revision r of o, unless its id is taken. *)
Schedule(o, r, operation, except) ==
  LET e == <<o, r>> IN
  IF estat[e] # "none" THEN UNCHANGED execVars
  ELSE /\ Admits(o, except)
       /\ op' = [op EXCEPT ![e] = operation]
       /\ estat' = [estat EXCEPT ![e] = "pending"]
       /\ attempts' = [attempts EXCEPT ![e] = 0]
       /\ due' = [due EXCEPT ![e] = TRUE]
       /\ UNCHANGED <<token, lease>>

-----------------------------------------------------------------------------
(* Requests of users. *)

SlipFresh(o) == Missing(o)   \* slip: the history of a deleted id is not looked at

(* store.create refuses an id that ever had an execution (REQUEST_RETIRED). *)
Fresh(o) == Missing(o) /\ \A r \in 0..MaxRevision : estat[<<o, r>>] = "none"

Insert(o, except) ==
  /\ Fresh(o)
  /\ rev' = [rev EXCEPT ![o] = 0]
  /\ ostat' = [ostat EXCEPT ![o] = "processing"]
  /\ Schedule(o, 0, "run", except)
  /\ UNCHANGED <<rqVars, dispatchVars, sess>>

CreateTask(o) == o \in Tasks /\ Insert(o, {}) /\ UNCHANGED workerVars
CreateExport(o) ==
  o \in Exports /\ ostat[Parent[o]] = "ready" /\ Insert(o, {}) /\ UNCHANGED workerVars
CreateOperation(o) ==
  o \in Operations /\ ~Missing(Parent[o]) /\ Insert(o, {}) /\ UNCHANGED workerVars

CreateTemplate(o) ==
  /\ o \in Templates /\ ostat[o] = "none"   \* a random id is never used twice
  /\ rev' = [rev EXCEPT ![o] = 0]
  /\ ostat' = [ostat EXCEPT ![o] = "draft"]
  /\ UNCHANGED <<execVars, rqVars, workerVars, dispatchVars, sess>>

(* store.claim then save: the next revision, and its outbox row if the new *)
(* status needs work.                                                      *)
Revise(o, from, to) ==
  /\ ostat[o] \in from
  /\ rev[o] < MaxRevision
  /\ rev' = [rev EXCEPT ![o] = @ + 1]
  /\ ostat' = [ostat EXCEPT ![o] = to]
  /\ UNCHANGED <<rqVars, workerVars, dispatchVars, sess>>

ReviseIdle(o, from, to) == Revise(o, from, to) /\ UNCHANGED execVars
ReviseOpen(o, from, to, operation) ==
  Revise(o, from, to) /\ Schedule(o, rev[o] + 1, operation, {})

Cancel(o) == o \in Tasks /\ ReviseIdle(o, {"processing", "mapping", "failed"}, "cancelled")
ConfirmMapping(o) == o \in Tasks /\ ReviseIdle(o, {"mapping"}, "ready")
Retry(o) == o \in Tasks /\ ReviseOpen(o, {"failed", "cancelled"}, "processing", "run")

UploadSource(o) == o \in Templates /\ ReviseOpen(o, {"draft", "failed"}, "processing", "run")
RetryTemplate(o) == o \in Templates /\ ReviseOpen(o, {"failed"}, "processing", "run")
Reparse(o) ==
  o \in Templates /\ ReviseOpen(o, {"draft", "failed", "processing", "learning"}, "processing", "run")
AiSuggest(o) == o \in Templates /\ ReviseOpen(o, {"draft", "failed"}, "learning", "learn")
UpdateTemplate(o) == o \in Templates /\ ReviseIdle(o, {"draft", "failed"}, "draft")
Publish(o) == o \in Templates /\ ReviseIdle(o, {"draft"}, "published")

(* A task goes with its children; unfinished rows of all of them are       *)
(* superseded.  Only the task itself must not be processing.               *)
DeleteTask(o) ==
  LET gone == {o} \cup {c \in Children : Parent[c] = o}
      ended == {e \in Exec : e[1] \in gone /\ estat[e] \in Unfinished}
  IN  /\ o \in Tasks /\ ~Missing(o) /\ ostat[o] # "processing"
      /\ estat' = [e \in Exec |-> IF e \in ended THEN "superseded" ELSE estat[e]]
      /\ token' = [e \in Exec |-> IF e \in ended THEN NoToken ELSE token[e]]
      /\ lease' = [e \in Exec |-> IF e \in ended THEN "none" ELSE lease[e]]
      /\ ostat' = [x \in Objects |-> IF x \in gone /\ ~Missing(x) THEN "deleted" ELSE ostat[x]]
      /\ UNCHANGED <<rev, op, attempts, due, rqVars, workerVars, dispatchVars, sess>>

(* Templates are deleted in any status and leave their executions behind. *)
DeleteTemplate(o) ==
  /\ o \in Templates /\ ~Missing(o)
  /\ ostat' = [ostat EXCEPT ![o] = "deleted"]
  /\ UNCHANGED <<rev, execVars, rqVars, workerVars, dispatchVars, sess>>

User(o) ==
  \/ CreateTask(o) \/ CreateExport(o) \/ CreateOperation(o) \/ CreateTemplate(o)
  \/ Cancel(o) \/ ConfirmMapping(o) \/ Retry(o)
  \/ UploadSource(o) \/ RetryTemplate(o) \/ Reparse(o) \/ AiSuggest(o)
  \/ UpdateTemplate(o) \/ Publish(o)
  \/ DeleteTask(o) \/ DeleteTemplate(o)

-----------------------------------------------------------------------------
(* Workers: execute. *)

At(w) == wjob[w][1]       \* the execution of the worker's job
Thing(w) == At(w)[1]      \* and its object
InBody(w) == wpc[w] \in {"claimed", "working"}
Holds(w) == wpc[w] \in {"claimed", "working", "ending", "failing", "retrying"}

SlipFenced(w) ==   \* slip: lease_until is not compared
  estat[At(w)] = "running" /\ token[At(w)] = wtok[w]

(* store.fence, and the guard of heartbeat and finish. *)
Fenced(w) ==
  /\ estat[At(w)] = "running"
  /\ token[At(w)] = wtok[w]
  /\ Live(At(w))

Goto(w, label) == wpc' = [wpc EXCEPT ![w] = label]

(* The RQ job ends and the process takes the next one. *)
Release(w) ==
  /\ Goto(w, "idle")
  /\ wjob' = [wjob EXCEPT ![w] = NoJob]
  /\ wtok' = [wtok EXCEPT ![w] = NoToken]
  /\ wseen' = [wseen EXCEPT ![w] = 0]

EndJob(w) == Release(w) /\ started' = started \ {wjob[w]} /\ UNCHANGED queued

Deliver(w, j) ==
  /\ wpc[w] = "idle" /\ j \in queued
  /\ queued' = queued \ {j} /\ started' = started \cup {j}
  /\ Goto(w, "claiming") /\ wjob' = [wjob EXCEPT ![w] = j]
  /\ UNCHANGED <<objVars, execVars, wtok, wseen, dispatchVars, sess>>

(* claim reads a candidate row whose object may not run now ... *)
ClaimDefer(w) ==
  /\ wpc[w] = "claiming" /\ CapacityLockFree
  /\ estat[At(w)] \in Waiting
  /\ ~Missing(Thing(w)) /\ ~CanRun(Thing(w))
  /\ Goto(w, "deferring")
  /\ UNCHANGED <<objVars, execVars, rqVars, wjob, wtok, wseen, dispatchVars, sess>>

(* ... and puts the row off, whatever has become of it meanwhile. *)
DeferWrite(w) ==
  /\ wpc[w] = "deferring"
  /\ estat' = [estat EXCEPT ![At(w)] = "pending"]
  /\ lease' = [lease EXCEPT ![At(w)] = "none"]
  /\ due' = [due EXCEPT ![At(w)] = FALSE]
  /\ EndJob(w)
  /\ UNCHANGED <<objVars, op, attempts, token, dispatchVars, sess>>

Claimable(e) == estat[e] \in Waiting /\ due[e] /\ attempts[e] < MaxAttempts

(* The row's object is still at the row's revision and status. *)
Current(e) == rev[e[1]] = e[2] /\ ostat[e[1]] = Expected(e)

ClaimTake(w) ==
  LET e == At(w) IN
  /\ wpc[w] = "claiming" /\ CapacityLockFree
  /\ Missing(Thing(w)) \/ CanRun(Thing(w))
  /\ Claimable(e)
  /\ attempts' = [attempts EXCEPT ![e] = @ + 1]
  /\ token' = [token EXCEPT ![e] = attempts[e] + 1]   \* a fresh uuid per claim
  /\ \/ /\ Current(e)
        /\ estat' = [estat EXCEPT ![e] = "running"]
        /\ lease' = [lease EXCEPT ![e] = "fresh"]
        /\ Goto(w, "claimed") /\ wtok' = [wtok EXCEPT ![w] = attempts[e] + 1]
        /\ UNCHANGED <<wjob, wseen, rqVars>>
     \/ /\ ~Current(e)
        /\ estat' = [estat EXCEPT ![e] = "superseded"]
        /\ lease' = [lease EXCEPT ![e] = "none"]
        /\ EndJob(w)
  /\ UNCHANGED <<objVars, op, due, dispatchVars, sess>>

(* No candidate, or the compare-and-set of the claim finds the row changed. *)
ClaimNothing(w) ==
  /\ wpc[w] = "claiming" /\ CapacityLockFree
  /\ \/ estat[At(w)] \notin Waiting
     \/ ~Claimable(At(w)) /\ (Missing(Thing(w)) \/ CanRun(Thing(w)))
  /\ EndJob(w)
  /\ UNCHANGED <<objVars, execVars, dispatchVars, sess>>

(* The body reads its object: whatever revision it has now. *)
BodyRead(w) ==
  LET o == Thing(w) IN
  /\ wpc[w] = "claimed"
  /\ \/ /\ Missing(o)                                          \* NOT_FOUND
        /\ Goto(w, "failing") /\ UNCHANGED wseen
     \/ /\ o \in Tasks \cup Exports /\ ~Missing(o) /\ ostat[o] # "processing"
        /\ Goto(w, "ending") /\ UNCHANGED wseen
     \/ /\ ~Missing(o) /\ o \in Tasks \cup Exports => ostat[o] = "processing"
        /\ Goto(w, "working") /\ wseen' = [wseen EXCEPT ![w] = rev[o]]
  /\ UNCHANGED <<objVars, execVars, rqVars, wjob, wtok, dispatchVars, sess>>

BodyError(w) ==
  /\ InBody(w)
  /\ Goto(w, "failing") \/ Goto(w, "retrying")
  /\ UNCHANGED <<objVars, execVars, rqVars, wjob, wtok, wseen, dispatchVars, sess>>

SlipOutdated(w) ==   \* slip: the status is not checked again
  Thing(w) \notin Operations /\ rev[Thing(w)] # wseen[w]

(* The last transaction of the body: gone or revised objects are left      *)
(* alone, a lost lease raises EXECUTION_EXPIRED, else the result is saved. *)
Outdated(w) ==
  /\ Thing(w) \notin Operations
  /\ rev[Thing(w)] # wseen[w] \/ ostat[Thing(w)] # Expected(At(w))

BodyPublish(w) ==
  LET o == Thing(w) IN
  /\ wpc[w] = "working"
  /\ \/ /\ Missing(o)
        /\ Goto(w, "failing") /\ UNCHANGED ostat
     \/ /\ ~Missing(o) /\ Outdated(w)
        /\ Goto(w, "ending") /\ UNCHANGED ostat
     \/ /\ ~Missing(o) /\ ~Outdated(w) /\ ~Fenced(w)
        /\ Goto(w, "failing") /\ UNCHANGED ostat
     \/ /\ ~Missing(o) /\ ~Outdated(w) /\ Fenced(w)
        /\ ostat' = [ostat EXCEPT ![o] = Result(o)]
        /\ Goto(w, "ending")
  /\ UNCHANGED <<rev, execVars, rqVars, wjob, wtok, wseen, dispatchVars, sess>>

(* An export_prepare operation creates its export under its own fence and  *)
(* hands its admitted slot on to it.                                       *)
HandOff(w, x) ==
  /\ wpc[w] = "working" /\ Thing(w) \in Operations
  /\ x \in Exports /\ Parent[x] = Parent[Thing(w)] /\ ostat[Parent[x]] = "ready"
  /\ Fenced(w)
  /\ Insert(x, {At(w)})
  /\ UNCHANGED workerVars

Heartbeat(w) ==
  /\ Holds(w) /\ Fenced(w)
  /\ lease' = [lease EXCEPT ![At(w)] = "fresh"]
  /\ UNCHANGED <<objVars, op, estat, attempts, token, due, rqVars, workerVars, dispatchVars, sess>>

SlipFailNothing(E) == UNCHANGED ostat   \* slip: the row fails, the object does not

SlipFailAnyRevision(E) ==   \* slip: the revision is not compared
  ostat' = [o \in Objects |->
              IF Open(o) /\ (\E r \in 0..MaxRevision : <<o, r>> \in E) THEN "failed" ELSE ostat[o]]

(* _fail_object for the executions E: only a revision still in work fails. *)
FailObjects(E) ==
  ostat' = [o \in Objects |->
              IF Open(o) /\ <<o, rev[o]>> \in E THEN "failed" ELSE ostat[o]]

SlipAgain(w) == wpc[w] = "retrying" /\ wtok[w] <= MaxAttempts   \* slip: off by one

(* The error is worth another attempt; row["attempts"] is wtok. *)
Again(w) == wpc[w] = "retrying" /\ wtok[w] < MaxAttempts

(* finish: nothing happens to a row the worker no longer holds.  (The last *)
(* failure of a retryable error also puts a due time off; nobody reads it.) *)
Finish(w) ==
  LET e == At(w)
      outcome == IF wpc[w] = "ending" THEN "succeeded" ELSE IF Again(w) THEN "pending" ELSE "failed"
  IN  /\ wpc[w] \in {"ending", "failing", "retrying"}
      /\ IF Fenced(w)
         THEN /\ estat' = [estat EXCEPT ![e] = outcome]
              /\ lease' = [lease EXCEPT ![e] = "none"]
              /\ due' = [due EXCEPT ![e] = ~Again(w)]
              /\ FailObjects(IF outcome = "failed" THEN {e} ELSE {})
         ELSE UNCHANGED <<estat, lease, due, ostat>>
      /\ EndJob(w)
      /\ UNCHANGED <<rev, op, attempts, token, dispatchVars, sess>>

(* The process dies; an open transaction rolls back, the RQ job stays.     *)
Crash(w) ==
  /\ "worker" \in Faults
  /\ wpc[w] # "idle"
  /\ Release(w)
  /\ UNCHANGED <<objVars, execVars, rqVars, dispatchVars, sess>>

Claim(w) == ClaimDefer(w) \/ DeferWrite(w) \/ ClaimTake(w) \/ ClaimNothing(w)
Body(w) == BodyRead(w) \/ BodyPublish(w) \/ BodyError(w)

-----------------------------------------------------------------------------
(* Dispatchers. *)

DGoto(d, label) == dpc' = [dpc EXCEPT ![d] = label]
NextRow(d, left) ==
  /\ DGoto(d, IF left = {} THEN "idle" ELSE "rows")
  /\ rows' = [rows EXCEPT ![d] = left]
  /\ row' = [row EXCEPT ![d] = NoRow]

Lapsed == {e \in Exec : estat[e] = "running" /\ lease[e] = "expired"}

SlipExhausted(e) == attempts[e] > MaxAttempts   \* slip: off by one
Exhausted(e) == attempts[e] >= MaxAttempts

(* recover: every lapsed row, in one transaction, before each dispatch. *)
Recover(d) ==
  LET last == {e \in Lapsed : Exhausted(e)}
  IN  /\ dpc[d] = "idle" /\ DGoto(d, "scanning")
      /\ estat' = [e \in Exec |-> IF e \in last THEN "failed"
                                   ELSE IF e \in Lapsed THEN "pending" ELSE estat[e]]
      /\ token' = [e \in Exec |-> IF e \in Lapsed THEN NoToken ELSE token[e]]
      /\ lease' = [e \in Exec |-> IF e \in Lapsed THEN "none" ELSE lease[e]]
      /\ due' = [e \in Exec |-> due[e] \/ e \in Lapsed]
      /\ FailObjects(last)
      /\ UNCHANGED <<rev, op, attempts, rqVars, workerVars, rows, row, sess>>

SlipDispatchable(e) ==   \* slip: a lapsed dispatch lease is not repaired
  estat[e] \in Waiting /\ due[e] /\ lease[e] = "none"
Dispatchable(e) == estat[e] \in Waiting /\ due[e] /\ ~Live(e)

(* The select of dispatch, over all rows or over one object's. *)
Scan(d, scope) ==
  /\ dpc[d] = "scanning"
  /\ NextRow(d, {<<e, estat[e], attempts[e]>> : e \in {x \in Exec : x[1] \in scope /\ Dispatchable(x)}})
  /\ UNCHANGED <<objVars, execVars, rqVars, workerVars, sess>>

JobOf(x) == <<x[1], x[3] + 1>>

(* workflow_job_active asks RQ; the transaction that follows comes later. *)
Check(d, x) ==
  /\ dpc[d] = "rows" /\ x \in rows[d]
  /\ rows' = [rows EXCEPT ![d] = @ \ {x}]
  /\ row' = [row EXCEPT ![d] = x]
  /\ DGoto(d, IF Redis /\ JobOf(x) \in queued \cup started THEN "renewing" ELSE "reserving")
  /\ UNCHANGED <<objVars, execVars, rqVars, workerVars, sess>>

(* An active job keeps its row's dispatch lease. *)
Renew(d) ==
  LET x == row[d] IN
  /\ dpc[d] = "renewing"
  /\ lease' = IF estat[x[1]] = "queued" /\ attempts[x[1]] = x[3]
              THEN [lease EXCEPT ![x[1]] = "waning"] ELSE lease
  /\ NextRow(d, rows[d])
  /\ UNCHANGED <<objVars, op, estat, attempts, token, due, rqVars, workerVars, sess>>

SlipUnchanged(x) == ~Live(x[1])   \* slip: the snapshot is not compared
(* Compare-and-set on the snapshot; only its winner enqueues the job. *)
Unchanged(x) == estat[x[1]] = x[2] /\ attempts[x[1]] = x[3] /\ ~Live(x[1])

Reserve(d) ==
  LET x == row[d] IN
  /\ dpc[d] = "reserving"
  /\ \/ /\ Unchanged(x)
        /\ estat' = [estat EXCEPT ![x[1]] = "queued"]
        /\ lease' = [lease EXCEPT ![x[1]] = "waning"]
        /\ DGoto(d, "enqueueing") /\ UNCHANGED <<rows, row>>
     \/ /\ ~Unchanged(x)
        /\ NextRow(d, rows[d]) /\ UNCHANGED <<estat, lease>>
  /\ UNCHANGED <<objVars, op, attempts, token, due, rqVars, workerVars, sess>>

Enqueue(d) ==
  /\ dpc[d] = "enqueueing"
  /\ queued' = queued \cup {JobOf(row[d])}
  /\ NextRow(d, rows[d])
  /\ UNCHANGED <<objVars, execVars, started, workerVars, sess>>

(* Redis raises: the row is left to a later dispatch. *)
BrokerDown(d) ==
  /\ Redis /\ "broker" \in Faults
  /\ \/ dpc[d] = "enqueueing" /\ NextRow(d, rows[d])
     \/ \E x \in rows[d] : dpc[d] = "rows" /\ NextRow(d, rows[d] \ {x})
  /\ UNCHANGED <<objVars, execVars, rqVars, workerVars, sess>>

DispatcherCrash(d) ==
  /\ "dispatcher" \in Faults
  /\ dpc[d] # "idle" /\ NextRow(d, {})
  /\ UNCHANGED <<objVars, execVars, rqVars, workerVars, sess>>

DispatchStep(d) ==
  \/ Recover(d) \/ Scan(d, Objects) \/ (\E o \in Objects : Scan(d, {o}))
  \/ (\E x \in rows[d] : Check(d, x)) \/ Renew(d) \/ Reserve(d) \/ Enqueue(d)
  \/ BrokerDown(d)

-----------------------------------------------------------------------------
(* Time, RQ and the interactive sessions. *)

Elapse(e) ==
  /\ Live(e)
  /\ lease' = [lease EXCEPT ![e] = IF @ = "fresh" THEN "waning" ELSE "expired"]
  /\ UNCHANGED <<objVars, op, estat, attempts, token, due, rqVars, workerVars, dispatchVars, sess>>

FallDue(e) ==
  /\ ~due[e] /\ due' = [due EXCEPT ![e] = TRUE]
  /\ UNCHANGED <<objVars, op, estat, attempts, token, lease, rqVars, workerVars, dispatchVars, sess>>

(* A flushed queue, or a heartbeat of a living job that is over 120 s old. *)
LoseJob(j) ==
  /\ "broker" \in Faults
  /\ j \in queued \cup started
  /\ queued' = queued \ {j} /\ started' = started \ {j}
  /\ UNCHANGED <<objVars, execVars, workerVars, dispatchVars, sess>>

(* A started job whose worker died stops counting as active after 120 s.   *)
JobGoesStale(j) ==
  /\ j \in started /\ \A w \in Workers : wjob[w] # j
  /\ started' = started \ {j}
  /\ UNCHANGED <<objVars, execVars, queued, workerVars, dispatchVars, sess>>

(* ResourceLease.acquire('interactive', 1), its lapse, and close. *)
Acquire(s) ==
  /\ sess[s] = "none" /\ CapacityLockFree
  /\ Held = {} /\ Cardinality(Held) + Cardinality(RunningCounted) < MaxRunning
  /\ sess' = [sess EXCEPT ![s] = "held"]
  /\ UNCHANGED <<objVars, execVars, rqVars, workerVars, dispatchVars>>

Lapse(s) ==
  /\ sess[s] = "held" /\ sess' = [sess EXCEPT ![s] = "lapsed"]
  /\ UNCHANGED <<objVars, execVars, rqVars, workerVars, dispatchVars>>

Close(s) ==
  /\ sess[s] # "none" /\ sess' = [sess EXCEPT ![s] = "none"]
  /\ UNCHANGED <<objVars, execVars, rqVars, workerVars, dispatchVars>>

Next ==
  \/ \E o \in Objects : User(o)
  \/ \E w \in Workers :
       \/ \E j \in queued : Deliver(w, j)
       \/ Claim(w) \/ Body(w) \/ Heartbeat(w) \/ Finish(w) \/ Crash(w)
       \/ \E x \in Exports : HandOff(w, x)
  \/ \E d \in Dispatchers : DispatchStep(d) \/ DispatcherCrash(d)
  \/ \E e \in Exec : Elapse(e) \/ FallDue(e)
  \/ \E j \in queued \cup started : LoseJob(j) \/ JobGoesStale(j)
  \/ \E s \in Sessions : Acquire(s) \/ Lapse(s) \/ Close(s)

Spec == Init /\ [][Next]_vars

(* What must happen for the work to go on: time passes, dispatchers and    *)
(* workers keep taking steps, RQ and the dispatchers do not fail every     *)
(* single time, no job's worker dies each time before its claim, a job     *)
(* whose worker died goes stale, and a body ends one way or another.       *)
Fairness ==
  /\ \A e \in Exec : WF_vars(Elapse(e)) /\ WF_vars(FallDue(e))
  /\ \A w \in Workers : /\ WF_vars(Claim(w)) /\ SF_vars(ClaimTake(w))
                        /\ WF_vars(Body(w)) /\ WF_vars(Finish(w))
  /\ \A j \in Job : /\ SF_vars(\E w \in Workers : Deliver(w, j))
                    /\ WF_vars(JobGoesStale(j))
  /\ \A d \in Dispatchers :
       /\ WF_vars(Recover(d)) /\ SF_vars(Scan(d, Objects)) /\ WF_vars(Renew(d))
       /\ SF_vars(\E x \in rows[d] : Check(d, x)) /\ SF_vars(Reserve(d)) /\ SF_vars(Enqueue(d))

FairSpec == Spec /\ Fairness

-----------------------------------------------------------------------------
(* Properties. *)

(* A waiting row can always be claimed: no row is left pending or queued   *)
(* with its attempts used up (claim refuses it, recover never sees it).    *)
RetriesLeft == \A e \in Exec : estat[e] \in Waiting => attempts[e] < MaxAttempts

(* No object is processing with nobody to finish it: whatever finish,      *)
(* recover, claim, cancel, retry and delete did and in whatever order, an  *)
(* open object has an unfinished execution of its revision and status.     *)
NoOrphan ==
  \A o \in Objects : Open(o) =>
    /\ estat[<<o, rev[o]>>] \in Unfinished
    /\ op[<<o, rev[o]>>] = "learn" <=> ostat[o] = "learning"

(* can_run, recover, cancel and the interactive leases together: the       *)
(* leases that count never exceed the limit, nor one account's its own.    *)
RunningLimit ==
  /\ Cardinality(RunningCounted) + Cardinality(Held) <= MaxRunning
  /\ \A o \in Objects : Cardinality(OwnedBy(Owner[o], RunningCounted)) <= UserRunning

(* admit bounds what is waiting or running; an operation's hand-off may    *)
(* exceed the bound by the one slot it still holds itself.                 *)
AdmissionLimit ==
  LET slack == IF Operations = {} THEN 0 ELSE 1 IN
  /\ Cardinality(UnfinishedCounted) <= MaxWaiting + MaxRunning + slack
  /\ \A o \in Objects :
       Cardinality(OwnedBy(Owner[o], UnfinishedCounted)) <= UserWaiting + UserRunning + slack

(* The outcome of an execution is final: no late finish, recovery, dispatch *)
(* or deferral reopens a row that succeeded or failed.                     *)
OutcomeIsFinal ==
  [][\A e \in Exec : estat[e] \in {"succeeded", "failed"} => estat'[e] = estat[e]]_vars

(* Rows end, and end once: an open one has attempts left, and a closed one *)
(* stays closed, with crashes, lost jobs and two dispatchers at work.      *)
RowsEndOnce == []RetriesLeft /\ OutcomeIsFinal

(* An object fails only together with the execution of its own revision:   *)
(* an old execution that fails late cannot fail a newer revision.          *)
FailsWithItsExecution ==
  [][\A o \in Objects : Open(o) /\ ostat'[o] = "failed" =>
       LET e == <<o, rev[o]>> IN estat[e] = "running" /\ estat'[e] = "failed"]_vars

(* A result appears only while an unexpired lease on the object is held by *)
(* the worker that last claimed it, and for the revision that worker read. *)
OnlyLeaseholderPublishes ==
  [][\A o \in Objects : Open(o) /\ ostat'[o] = Result(o) =>
       \E w \in Workers : /\ wpc[w] = "working" /\ wpc'[w] # "working"
                          /\ Thing(w) = o /\ wseen[w] = rev'[o]
                          /\ estat[At(w)] = "running" /\ Live(At(w))
                          /\ token[At(w)] = wtok[w]]_vars

(* A deleted object never comes back under its id, neither by a repeated   *)
(* request nor by a worker or a recovery that finishes late.               *)
DeletedStaysDeleted ==
  [][\A o \in Objects : ostat[o] = "deleted" => ostat'[o] = "deleted"]_vars

(* What late workers, recoveries and repeated requests cannot do to an     *)
(* object: fail a newer revision, or bring a deleted one back.             *)
LateCallsDoNoHarm == FailsWithItsExecution /\ DeletedStaysDeleted

(* The bookkeeping behind NoOrphan and RetriesLeft, in parts.  Rows and     *)
(* objects: an object has no row ahead of its revision, and learning is    *)
(* for templates.                                                          *)
RowsMatchObjects ==
  /\ \A o \in Objects : ostat[o] = "learning" => o \in Templates
  /\ \A e \in Exec : estat[e] # "none" => e[2] <= rev[e[1]] /\ ostat[e[1]] # "none"
  /\ \A o \in Objects \ Templates : ostat[o] # "none" => estat[<<o, 0>>] # "none"

(* Workers and rows: a deferring row was never recovered or failed, a      *)
(* claim's token is one of the attempts counted, and what a body read is   *)
(* not newer than the object.                                              *)
WorkersMatchRows ==
  \A w \in Workers :
    /\ wpc[w] = "deferring" =>
         estat[At(w)] \in Waiting \cup {"superseded"} /\ attempts[At(w)] < MaxAttempts
    /\ Holds(w) => estat[At(w)] # "none" /\ wtok[w] \in 1..attempts[At(w)]
    /\ wpc[w] = "working" => At(w)[2] <= wseen[w] /\ wseen[w] <= rev[Thing(w)]

(* A worker about to report success has left no open revision behind.      *)
SuccessMeansClosed ==
  \A w \in Workers :
    wpc[w] = "ending" /\ Fenced(w) /\ At(w)[2] = rev[Thing(w)] => ~Open(Thing(w))

(* Rows: the token of a running row is that of its latest attempt.         *)
RunningHasToken == \A e \in Exec : estat[e] = "running" => token[e] = attempts[e]

(* Tokens: no two workers hold one token of one row.                       *)
TokensDiffer ==
  \A v, w \in Workers :
    v # w /\ Holds(v) /\ Holds(w) /\ At(v) = At(w) => wtok[v] # wtok[w]
(* Operations: while its holder works an operation is still open (its body *)
(* does not look at the status again before it publishes).                 *)
OperationsStayOpen ==
  \A w \in Workers :
    InBody(w) /\ Fenced(w) /\ Thing(w) \in Operations => ostat[Thing(w)] = "processing"

(* All of the bookkeeping of claim, finish, recover, retry and delete.     *)
Bookkeeping ==
  /\ RowsMatchObjects /\ WorkersMatchRows /\ SuccessMeansClosed /\ RunningHasToken
  /\ TokensDiffer /\ OperationsStayOpen

(* docs/deployment.md:25 says one account has one heavy task running by    *)
(* default and the rest waits; here over the workers that really run.      *)
AccountRunsWithinLimit ==
  \A o \in Objects :
    Cardinality({w \in Workers : InBody(w) /\ Owner[Thing(w)] = Owner[o]}) <= UserRunning

(* Every piece of work a user submits ends: it is published, fails or is   *)
(* taken back, whatever crashes, loses jobs or defers it.                  *)
EveryRequestEnds == \A o \in Objects : Open(o) ~> ~Open(o)
=============================================================================
