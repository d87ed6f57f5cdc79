-------------------------- MODULE TaskLifecycleSafety --------------------------
(***************************************************************************)
(* Typing of TaskLifecycle for all tasks, operations, workers and bounds,  *)
(* a list of what a step can do to a task, an operation or a worker, and   *)
(* from it who works for what.                                             *)
(***************************************************************************)
EXTENDS TaskLifecycle, TLAPS

(* A job is one of an operation. *)
LEMMA Jobs ==
  /\ \A j \in Job : /\ j[1] \in Operations /\ j[2] \in {"run", "generate"}
                    /\ j = <<j[1], j[2]>>
                    /\ j[2] = "generate" => Kind[j[1]] = "export"
  /\ \A o \in Operations : <<o, "run">> \in Job
BY DEF Job

(* What a worker that is not idle works for. *)
LEMMA WorksFor ==
  ASSUME WorkersTyped, NEW w \in Workers, wpc[w] # "idle"
  PROVE  /\ wjob[w] \in Job /\ Op(w) \in Operations /\ Task(w) \in Tasks /\ Src(w) \in Operations
         /\ TaskOf[Src(w)] = Task(w) /\ Does(w) \in Kinds
<1>1. wjob[w] \in Job /\ Op(w) \in Operations
  BY Jobs DEF WorkersTyped, Op
<1> QED
  BY <1>1, OperationsAssumption DEF Task, Src, Does

LEMMA InitTyped == Init => TypeOK
<1> SUFFICES ASSUME Init PROVE TypeOK
  OBVIOUS
<1> USE BoundsAssumption DEF Init
<1>1. TasksTyped
  BY DEF TasksTyped, TaskStatus, Records
<1>2. OperationsTyped
  BY DEF OperationsTyped, WorkStatus
<1>3. PreviewsTyped
  BY DEF PreviewsTyped, PreviewStatus, Records
<1>4. ExportsTyped
  BY DEF ExportsTyped, WorkStatus, Records
<1>5. JobsTyped
  BY Jobs DEF JobsTyped
<1>6. WorkersTyped
  BY DEF WorkersTyped, Pc, Records
<1> QED
  BY <1>1, <1>2, <1>3, <1>4, <1>5, <1>6 DEF TypeOK

-----------------------------------------------------------------------------
(* What the shared changes do to the types. *)

LEMMA StatusTyped ==
  ASSUME TasksTyped, NEW t \in Tasks, NEW from, NEW to \in TaskStatus, SetStatus(t, from, to)
  PROVE  TasksTyped'
BY DEF TasksTyped, SetStatus

LEMMA RevisedTyped ==
  ASSUME TasksTyped, NEW t \in Tasks, NEW newRows \in Records, NEW newCounted \in Records,
         NEW newStatus \in TaskStatus, Revise(t, newRows, newCounted, newStatus)
  PROVE  TasksTyped'
<1>1. rev[t] \in Nat /\ rev[t] + 1 \in 0..MaxRevision
  BY BoundsAssumption DEF TasksTyped, Revise
<1>2. past' \in [Tasks -> [0..MaxRevision -> Records]]
  BY <1>1 DEF TasksTyped, Revise
<1>3. /\ tstat' \in [Tasks -> TaskStatus] /\ rev' \in [Tasks -> 0..MaxRevision]
      /\ rows' \in [Tasks -> Records] /\ counted' \in [Tasks -> Records]
  BY <1>1 DEF TasksTyped, Revise
<1> QED
  BY <1>2, <1>3 DEF TasksTyped

LEMMA KeptTyped ==
  ASSUME TasksTyped, NEW t \in Tasks, NEW newStatus \in TaskStatus, KeepRecords(t, newStatus)
  PROVE  TasksTyped'
<1>1. rows[t] \in Records /\ counted[t] \in Records
  BY DEF TasksTyped
<1> QED
  BY <1>1, RevisedTyped DEF KeepRecords

LEMMA LeftTyped ==
  ASSUME WorkersTyped, NEW w \in Workers, Leave(w)
  PROVE  WorkersTyped'
BY BoundsAssumption DEF WorkersTyped, Leave, Goto, Pc, Records

LEMMA FailedTyped ==
  ASSUME NEW j \in Job, NEW fails, FailObject(j, fails)
  PROVE  /\ ostat \in [Operations -> WorkStatus] => ostat' \in [Operations -> WorkStatus]
         /\ xstat \in [Operations -> WorkStatus] => xstat' \in [Operations -> WorkStatus]
BY Jobs DEF FailObject, WorkStatus

LEMMA UnlockedTyped ==
  ASSUME JobsTyped, NEW j \in Job, Unlock(j) \/ UNCHANGED holder, UNCHANGED tries
  PROVE  JobsTyped'
BY DEF JobsTyped, Unlock

LEMMA UserTyped ==
  ASSUME TypeOK, NEW t \in Tasks,
         \/ CreateTask(t) \/ Parsed(t) \/ ParseFailed(t) \/ Cancel(t) \/ Retry(t) \/ ReopenMapping(t)
  PROVE  TypeOK'
<1>1. TasksTyped'
  <2>1. CASE CreateTask(t) \/ Parsed(t) \/ ParseFailed(t)
    BY <2>1, StatusTyped DEF CreateTask, Parsed, ParseFailed, TypeOK, TaskStatus
  <2>2. CASE Cancel(t) \/ Retry(t)
    BY <2>2, KeptTyped DEF Cancel, Retry, TypeOK, TaskStatus
  <2>3. CASE ReopenMapping(t)
    BY <2>3, RevisedTyped DEF ReopenMapping, TypeOK, TaskStatus, Records
  <2> QED
    BY <2>1, <2>2, <2>3
<1>2. UNCHANGED atOnce
  BY DEF CreateTask, Parsed, ParseFailed, SetStatus, Cancel, Retry, ReopenMapping
<1>3. (OperationsTyped /\ PreviewsTyped /\ ExportsTyped /\ JobsTyped /\ WorkersTyped)'
  BY <1>2 DEF atOnce, previewVars, exportVars, jobVars, workerVars, readVars, TypeOK,
     OperationsTyped, PreviewsTyped, ExportsTyped, JobsTyped, WorkersTyped
<1> QED
  BY <1>1, <1>3 DEF TypeOK

LEMMA CreatedTyped ==
  ASSUME TypeOK, NEW o \in Operations, CreateOperation(o)
  PROVE  TypeOK'
<1>1. TaskOf[o] \in Tasks
  BY OperationsAssumption
<1>2. OperationsTyped'
  BY <1>1 DEF CreateOperation, TypeOK, TasksTyped, OperationsTyped, WorkStatus
<1>3. (TasksTyped /\ PreviewsTyped /\ ExportsTyped /\ JobsTyped /\ WorkersTyped)'
  BY DEF CreateOperation, taskVars, previewVars, exportVars, jobVars, workerVars, readVars, TypeOK,
     TasksTyped, PreviewsTyped, ExportsTyped, JobsTyped, WorkersTyped
<1> QED
  BY <1>2, <1>3 DEF TypeOK

LEMMA DeletedTyped ==
  ASSUME TypeOK, NEW t \in Tasks, DeleteTask(t)
  PROVE  TypeOK'
<1> USE BoundsAssumption DEF DeleteTask
<1>1. TasksTyped'
  BY DEF TypeOK, TasksTyped, TaskStatus, Records
<1>2. OperationsTyped'
  BY DEF TypeOK, OperationsTyped, WorkStatus
<1>3. PreviewsTyped'
  BY DEF TypeOK, PreviewsTyped, PreviewStatus, Records
<1>4. ExportsTyped'
  BY DEF TypeOK, ExportsTyped, WorkStatus, Records
<1>5. JobsTyped'
  BY DEF TypeOK, JobsTyped
<1>6. WorkersTyped'
  BY DEF TypeOK, WorkersTyped, workerVars, readVars
<1> QED
  BY <1>1, <1>2, <1>3, <1>4, <1>5, <1>6 DEF TypeOK

LEMMA BegunTyped ==
  ASSUME TypeOK, NEW w \in Workers, NEW j \in Job, Begin(w, j)
  PROVE  TypeOK'
<1>1. JobsTyped'
  <2>1. Attempts[j[1]] \in Nat /\ tries[j] \in Nat /\ tries[j] + 1 <= Attempts[j[1]]
    BY Jobs, BoundsAssumption DEF Begin, TypeOK, JobsTyped
  <2> QED
    BY <2>1 DEF Begin, TypeOK, JobsTyped
<1>2. WorkersTyped'
  BY DEF Begin, TypeOK, WorkersTyped, Goto, readVars, Pc
<1>3. (TasksTyped /\ OperationsTyped /\ PreviewsTyped /\ ExportsTyped)'
  BY DEF Begin, taskVars, previewVars, exportVars, TypeOK, TasksTyped, OperationsTyped,
     PreviewsTyped, ExportsTyped
<1> QED
  BY <1>1, <1>2, <1>3 DEF TypeOK

(* Errors, lost leases and crashes. *)
LEMMA RaisedTyped ==
  ASSUME TypeOK, NEW w \in Workers, wpc[w] # "idle", NEW final, Raise(w, final)
  PROVE  TypeOK'
<1>1. wjob[w] \in Job
  BY WorksFor DEF TypeOK
<1>2. ostat' \in [Operations -> WorkStatus] /\ xstat' \in [Operations -> WorkStatus]
  BY <1>1, FailedTyped DEF Raise, TypeOK, OperationsTyped, ExportsTyped
<1>3. JobsTyped'
  BY <1>1, UnlockedTyped DEF Raise, TypeOK
<1>4. WorkersTyped'
  BY LeftTyped DEF Raise, TypeOK
<1>5. (TasksTyped /\ OperationsTyped /\ PreviewsTyped /\ ExportsTyped)'
  BY <1>2 DEF Raise, taskVars, previewVars, TypeOK, TasksTyped, OperationsTyped, PreviewsTyped,
     ExportsTyped
<1> QED
  BY <1>3, <1>4, <1>5 DEF TypeOK

LEMMA LostTyped ==
  ASSUME TypeOK, NEW j \in Job, LoseLease(j)
  PROVE  TypeOK'
<1>1. ostat' \in [Operations -> WorkStatus] /\ xstat' \in [Operations -> WorkStatus]
  BY FailedTyped DEF LoseLease, TypeOK, OperationsTyped, ExportsTyped
<1>2. JobsTyped'
  BY UnlockedTyped DEF LoseLease, TypeOK
<1>3. (TasksTyped /\ OperationsTyped /\ PreviewsTyped /\ ExportsTyped /\ WorkersTyped)'
  BY <1>1 DEF LoseLease, taskVars, previewVars, workerVars, readVars, TypeOK, TasksTyped,
     OperationsTyped, PreviewsTyped, ExportsTyped, WorkersTyped
<1> QED
  BY <1>2, <1>3 DEF TypeOK

LEMMA CrashedTyped ==
  ASSUME TypeOK, NEW w \in Workers, Crash(w)
  PROVE  TypeOK'
<1>1. WorkersTyped'
  BY LeftTyped DEF Crash, TypeOK
<1>2. (TasksTyped /\ OperationsTyped /\ PreviewsTyped /\ ExportsTyped /\ JobsTyped)'
  BY DEF Crash, taskVars, previewVars, exportVars, jobVars, TypeOK, TasksTyped,
     OperationsTyped, PreviewsTyped, ExportsTyped, JobsTyped
<1> QED
  BY <1>1, <1>2 DEF TypeOK

-----------------------------------------------------------------------------
(* The steps of a body. *)

LEMMA NextPc ==
  \A o \in Operations : /\ AfterOpening(o) \in {"rows", "checking", "commit", "result"}
                        /\ AfterChecking(o) \in {"rows", "staging", "loading", "commit"}
BY OperationsAssumption DEF AfterOpening, AfterChecking, Kinds

LEMMA BaseTyped ==
  ASSUME TypeOK, NEW o \in Operations
  PROVE  Base(o) \in 0..MaxRevision
BY OperationsAssumption DEF Base, TypeOK, TasksTyped, OperationsTyped, PreviewsTyped

(* Starting, reading and comparing. *)
LEMMA ReadingTyped ==
  ASSUME TypeOK, NEW w \in Workers,
         Start(w) \/ OpenTask(w) \/ AlreadyApplied(w) \/ ReadRows(w) \/ CheckRevision(w)
  PROVE  TypeOK'
<1>1. wpc[w] # "idle" /\ Op(w) \in Operations /\ Task(w) \in Tasks /\ Src(w) \in Operations
  <2>1. wpc[w] # "idle"
    BY DEF Start, OpenTask, AlreadyApplied, ReadRows, CheckRevision
  <2> QED
    BY <2>1, WorksFor DEF TypeOK
<1>2. WorkersTyped'
  <2>1. CASE Start(w) \/ AlreadyApplied(w)
    BY <1>1, <2>1 DEF Start, AlreadyApplied, TypeOK, WorkersTyped, Goto, Pc, readVars
  <2>2. CASE OpenTask(w)
    <3>1. Base(Op(w)) \in 0..MaxRevision /\ AfterOpening(Op(w)) \in Pc
      BY <1>1, BaseTyped, NextPc DEF Pc
    <3>2. (IF Decides(Op(w)) THEN shown[Source[Op(w)]] ELSE NoOperation)
             \in Operations \cup {NoOperation}
      BY <1>1 DEF Src, TypeOK, PreviewsTyped
    <3> QED
      BY <1>1, <2>2, <3>1, <3>2 DEF OpenTask, TypeOK, WorkersTyped, Goto
  <2>3. CASE ReadRows(w)
    BY <1>1, <2>3 DEF ReadRows, TypeOK, TasksTyped, WorkersTyped, Goto, Pc
  <2>4. CASE CheckRevision(w)
    <3>1. AfterChecking(Op(w)) \in Pc
      BY <1>1, NextPc DEF Pc
    <3> QED
      BY <1>1, <2>4, <3>1 DEF CheckRevision, TypeOK, WorkersTyped, Goto, readVars
  <2> QED
    BY <2>1, <2>2, <2>3, <2>4
<1>3. PreviewsTyped'
  <2>1. CASE OpenTask(w)
    BY <1>1, <2>1, BaseTyped DEF OpenTask, TypeOK, PreviewsTyped, PreviewStatus
  <2>2. CASE ~OpenTask(w)
    BY <2>2 DEF Start, AlreadyApplied, ReadRows, CheckRevision, previewVars, TypeOK, PreviewsTyped
  <2> QED
    BY <2>1, <2>2
<1>4. (TasksTyped /\ OperationsTyped /\ ExportsTyped /\ JobsTyped)'
  BY DEF Start, OpenTask, AlreadyApplied, ReadRows, CheckRevision, taskVars, exportVars, jobVars,
     TypeOK, TasksTyped, OperationsTyped, ExportsTyped, JobsTyped
<1> QED
  BY <1>2, <1>3, <1>4 DEF TypeOK

LEMMA StagedTyped ==
  ASSUME TypeOK, NEW w \in Workers, WriteStaged(w) \/ LoadStaged(w)
  PROVE  TypeOK'
<1>1. wpc[w] # "idle" /\ Op(w) \in Operations /\ Src(w) \in Operations
  <2>1. wpc[w] # "idle"
    BY DEF WriteStaged, LoadStaged
  <2> QED
    BY <2>1, WorksFor DEF TypeOK
<1>2. WorkersTyped'
  BY <1>1 DEF WriteStaged, LoadStaged, TypeOK, WorkersTyped, PreviewsTyped, Goto, Pc, readVars
<1>3. PreviewsTyped'
  BY <1>1 DEF WriteStaged, LoadStaged, TypeOK, WorkersTyped, PreviewsTyped, previewVars
<1>4. (TasksTyped /\ OperationsTyped /\ ExportsTyped /\ JobsTyped)'
  BY DEF WriteStaged, LoadStaged, taskVars, exportVars, jobVars,
     TypeOK, TasksTyped, OperationsTyped, ExportsTyped, JobsTyped
<1> QED
  BY <1>2, <1>3, <1>4 DEF TypeOK

(* What every commit leaves of the worker and counts. *)
LEMMA CommittedTyped ==
  ASSUME TypeOK, NEW w \in Workers, wpc[w] # "idle", NEW pc \in Pc, Goto(w, pc),
         UNCHANGED <<jobVars, wjob, readVars>>
  PROVE  WorkersTyped' /\ JobsTyped'
<1>1. WorkersTyped'
  BY WorksFor DEF Goto, readVars, TypeOK, WorkersTyped
<1>2. JobsTyped'
  BY DEF jobVars, TypeOK, JobsTyped
<1> QED
  BY <1>1, <1>2

LEMMA CountedTyped ==
  ASSUME TypeOK, NEW o \in Operations, UNCHANGED <<ostat, base>>,
         effects' = [effects EXCEPT ![o] = @ + 1] \/ UNCHANGED effects
  PROVE  OperationsTyped'
BY DEF TypeOK, OperationsTyped

LEMMA CommitRecordsTyped ==
  ASSUME TypeOK, NEW w \in Workers, CommitRecords(w)
  PROVE  TypeOK'
<1>1. wpc[w] # "idle" /\ Op(w) \in Operations /\ Task(w) \in Tasks /\ Src(w) \in Operations
  <2>1. wpc[w] # "idle"
    BY DEF CommitRecords, Commits
  <2> QED
    BY <2>1, WorksFor DEF TypeOK
<1>2. TasksTyped'
  <2>1. NewRecords(w) \in Records /\ NewCounted(w) \in Records
    BY <1>1 DEF NewRecords, NewCounted, TypeOK, TasksTyped, WorkersTyped, Records
  <2> QED
    BY <1>1, <2>1, RevisedTyped DEF CommitRecords, TypeOK, TaskStatus
<1>3. OperationsTyped'
  BY <1>1, CountedTyped DEF CommitRecords, Commits, committing
<1>4. PreviewsTyped'
  BY <1>1 DEF CommitRecords, TypeOK, PreviewsTyped, WorkersTyped, PreviewStatus
<1>5. ExportsTyped'
  BY DEF CommitRecords, exportVars, TypeOK, ExportsTyped
<1>6. WorkersTyped' /\ JobsTyped'
  BY <1>1, CommittedTyped DEF CommitRecords, committing, Pc
<1> QED
  BY <1>2, <1>3, <1>4, <1>5, <1>6 DEF TypeOK

LEMMA CommitAnalysisTyped ==
  ASSUME TypeOK, NEW w \in Workers, CommitAnalysis(w)
  PROVE  TypeOK'
<1>1. wpc[w] # "idle" /\ Op(w) \in Operations /\ Task(w) \in Tasks
  <2>1. wpc[w] # "idle"
    BY DEF CommitAnalysis, Commits
  <2> QED
    BY <2>1, WorksFor DEF TypeOK
<1>2. TasksTyped'
  BY <1>1, KeptTyped DEF CommitAnalysis, TypeOK, TaskStatus
<1>3. OperationsTyped'
  BY <1>1, CountedTyped DEF CommitAnalysis, Commits, committing
<1>4. PreviewsTyped' /\ ExportsTyped'
  BY DEF CommitAnalysis, previewVars, exportVars, TypeOK, PreviewsTyped, ExportsTyped
<1>5. WorkersTyped' /\ JobsTyped'
  BY <1>1, CommittedTyped DEF CommitAnalysis, committing, Pc
<1> QED
  BY <1>2, <1>3, <1>4, <1>5 DEF TypeOK

LEMMA SavingTyped ==
  ASSUME TypeOK, NEW w \in Workers, LabelPreview(w) \/ SavePreview(w) \/ CommitExport(w)
  PROVE  TypeOK'
<1>1. wpc[w] # "idle" /\ Op(w) \in Operations /\ Src(w) \in Operations
  <2>1. wpc[w] # "idle"
    BY DEF LabelPreview, SavePreview, CommitExport
  <2> QED
    BY <2>1, WorksFor DEF TypeOK
<1>2. WorkersTyped' /\ JobsTyped'
  BY <1>1, CommittedTyped DEF LabelPreview, SavePreview, CommitExport, committing, Pc
<1>3. TasksTyped'
  BY DEF LabelPreview, SavePreview, CommitExport, taskVars, TypeOK, TasksTyped
<1>4. OperationsTyped'
  BY <1>1, CountedTyped DEF LabelPreview, SavePreview, CommitExport, committing
<1>5. PreviewsTyped'
  <2>1. CASE LabelPreview(w)
    BY <1>1, <2>1 DEF LabelPreview, TypeOK, PreviewsTyped, PreviewStatus
  <2>2. CASE SavePreview(w)
    <3> DEFINE p == IF Does(w) = "flexible" THEN Src(w) ELSE Op(w)
    <3>1. p \in Operations
      BY <1>1
    <3>2. \E status \in PreviewStatus : pstat' = [pstat EXCEPT ![p] = status]
      BY <2>2 DEF SavePreview, PreviewStatus, Does
    <3>3. pbase' \in [Operations -> 0..MaxRevision]
      BY <2>2, <3>1 DEF SavePreview, TypeOK, PreviewsTyped, WorkersTyped, Does
    <3>4. /\ shown' \in [Operations -> Operations \cup {NoOperation}]
          /\ staged' \in [Operations -> Operations \cup {NoOperation}]
          /\ saw' \in [Operations -> Records]
      BY <1>1, <2>2 DEF SavePreview, TypeOK, PreviewsTyped, WorkersTyped
    <3> QED
      BY <3>1, <3>2, <3>3, <3>4 DEF TypeOK, PreviewsTyped
  <2>3. CASE CommitExport(w)
    BY <2>3 DEF CommitExport, previewVars, TypeOK, PreviewsTyped
  <2> QED
    BY <2>1, <2>2, <2>3
<1>6. ExportsTyped'
  BY <1>1 DEF LabelPreview, SavePreview, CommitExport, exportVars, TypeOK, ExportsTyped,
     WorkersTyped, WorkStatus
<1> QED
  BY <1>2, <1>3, <1>4, <1>5, <1>6 DEF TypeOK

(* The results of an operation and of an export. *)
LEMMA ReportTyped ==
  ASSUME TypeOK, NEW w \in Workers, Report(w)
  PROVE  TypeOK'
<1>1. wpc[w] # "idle" /\ wjob[w] \in Job /\ Op(w) \in Operations
  BY WorksFor DEF Report, TypeOK
<1>2. WorkersTyped' /\ JobsTyped'
  BY <1>1, LeftTyped, UnlockedTyped DEF Report, TypeOK
<1>3. OperationsTyped'
  BY <1>1 DEF Report, TypeOK, OperationsTyped, WorkStatus
<1>4. (TasksTyped /\ PreviewsTyped /\ ExportsTyped)'
  BY DEF Report, taskVars, previewVars, exportVars, TypeOK, TasksTyped, PreviewsTyped, ExportsTyped
<1> QED
  BY <1>2, <1>3, <1>4 DEF TypeOK

LEMMA GeneratedTyped ==
  ASSUME TypeOK, NEW w \in Workers, wpc[w] # "idle", Generated(w),
         tstat' \in [Tasks -> TaskStatus]
  PROVE  TypeOK'
<1>1. wjob[w] \in Job /\ Op(w) \in Operations
  BY WorksFor DEF TypeOK
<1>2. WorkersTyped' /\ JobsTyped'
  BY <1>1, LeftTyped, UnlockedTyped DEF Generated, TypeOK
<1>3. ExportsTyped'
  BY <1>1 DEF Generated, TypeOK, ExportsTyped, WorkStatus
<1>4. (TasksTyped /\ OperationsTyped /\ PreviewsTyped)'
  BY DEF Generated, previewVars, TypeOK, TasksTyped, OperationsTyped, PreviewsTyped
<1> QED
  BY <1>2, <1>3, <1>4 DEF TypeOK

LEMMA GenerateTyped ==
  ASSUME TypeOK, NEW w \in Workers, Generate(w) \/ LabelTask(w)
  PROVE  TypeOK'
<1>1. wpc[w] # "idle" /\ Task(w) \in Tasks
  <2>1. wpc[w] # "idle"
    BY DEF Generate, LabelTask
  <2> QED
    BY <2>1, WorksFor DEF TypeOK
<1>2. CASE Generate(w) /\ Labels(w)
  <2>1. WorkersTyped'
    BY <1>1, <1>2 DEF Generate, TypeOK, TasksTyped, WorkersTyped, Goto, Pc
  <2>2. (TasksTyped /\ OperationsTyped /\ PreviewsTyped /\ ExportsTyped /\ JobsTyped)'
    BY <1>2 DEF Generate, taskVars, previewVars, exportVars, jobVars, TypeOK, TasksTyped,
       OperationsTyped, PreviewsTyped, ExportsTyped, JobsTyped
  <2> QED
    BY <2>1, <2>2 DEF TypeOK
<1>3. CASE Generate(w) /\ ~Labels(w)
  BY <1>1, <1>3, GeneratedTyped DEF Generate, TypeOK, TasksTyped
<1>4. CASE LabelTask(w)
  BY <1>1, <1>4, GeneratedTyped DEF LabelTask, TypeOK, TasksTyped, TaskStatus
<1> QED
  BY <1>2, <1>3, <1>4

-----------------------------------------------------------------------------
(* Every step, taken apart once. *)
LEMMA WorkTyped ==
  ASSUME TypeOK, NEW w \in Workers, Work(w)
  PROVE  TypeOK'
BY ReadingTyped, StagedTyped, CommitRecordsTyped, CommitAnalysisTyped, SavingTyped, ReportTyped,
   GenerateTyped DEF Work

LEMMA NextTyped == TypeOK /\ [Next]_vars => TypeOK'
<1> SUFFICES ASSUME TypeOK, [Next]_vars PROVE TypeOK'
  OBVIOUS
<1>1. ASSUME NEW t \in Tasks,
             \/ CreateTask(t) \/ Parsed(t) \/ ParseFailed(t) \/ Cancel(t) \/ Retry(t)
             \/ ReopenMapping(t) \/ DeleteTask(t)
      PROVE TypeOK'
  BY <1>1, UserTyped, DeletedTyped
<1>2. ASSUME NEW w \in Workers, Conflict(w) \/ Invalid(w) \/ Transient(w) PROVE TypeOK'
  <2>1. wpc[w] # "idle" /\ \E final \in BOOLEAN : Raise(w, final)
    BY <1>2 DEF Conflict, Invalid, Transient
  <2> QED
    BY <2>1, RaisedTyped
<1>3. CASE UNCHANGED vars
  BY <1>3 DEF vars, taskVars, previewVars, exportVars, jobVars, workerVars, readVars, TypeOK,
     TasksTyped, OperationsTyped, PreviewsTyped, ExportsTyped, JobsTyped, WorkersTyped
<1> QED
  BY <1>1, <1>2, <1>3, CreatedTyped, LostTyped, BegunTyped, WorkTyped, CrashedTyped DEF Next

(* Statuses, revisions, attempts and what workers hold keep their types:   *)
(* no attempt is counted beyond the limit, no worker works without a job.  *)
THEOREM Typing == Spec => []TypeOK
<1>1. Init => TypeOK
  BY InitTyped
<1>2. TypeOK /\ [Next]_vars => TypeOK'
  BY NextTyped
<1> QED
  BY <1>1, <1>2, PTL DEF Spec

-----------------------------------------------------------------------------
(* What a step can do. *)

StatusMoves == {<<"none", "processing">>, <<"processing", "mapping">>, <<"processing", "failed">>}

Kept(t) ==
  /\ rev'[t] = rev[t] /\ rows'[t] = rows[t] /\ counted'[t] = counted[t] /\ past'[t] = past[t]
  /\ \/ tstat'[t] = tstat[t] \/ <<tstat[t], tstat'[t]>> \in StatusMoves
     \/ /\ Exists(t) /\ tstat'[t] = "completed"
        /\ \E w \in Workers : Task(w) = t /\ LabelTask(w)

Revised(t) ==
  /\ Exists(t) /\ tstat'[t] \notin {"none", "deleted", "completed"}
  /\ rev[t] < MaxRevision /\ rev'[t] = rev[t] + 1
  /\ past'[t] = [past[t] EXCEPT ![rev[t] + 1] = rows'[t]]

TasksMove == \A t \in Tasks : Kept(t) \/ Revised(t) \/ DeleteTask(t)

OperationsMove == \A o \in Operations :
  \/ ostat'[o] = ostat[o] /\ base'[o] = base[o]
  \/ CreateOperation(o)
  \/ /\ ostat[o] = "processing" /\ ostat'[o] = "failed" /\ base'[o] = base[o]
     /\ holder'[<<o, "run">>] = NoWorker
  \/ \E w \in Workers : Op(w) = o /\ Report(w)
  \/ DeleteTask(TaskOf[o])

ExportsMove == \A o \in Operations :
  \/ xstat'[o] = xstat[o] /\ xrev'[o] = xrev[o] /\ xrows'[o] = xrows[o]
  \/ \E w \in Workers : Op(w) = o /\ xstat[o] = "none" /\ CommitExport(w)
  \/ \E w \in Workers : Op(w) = o /\ LabelTask(w)
  \/ /\ xstat[o] = "processing" /\ xstat'[o] \in {"completed", "failed"}
     /\ xrev'[o] = xrev[o] /\ xrows'[o] = xrows[o]
     /\ \E j \in Job : j[1] = o /\ j[2] = "generate" /\ holder'[j] = NoWorker
  \/ DeleteTask(TaskOf[o])

Frees(j) ==
  \/ LoseLease(j) \/ DeleteTask(TaskOf[j[1]])
  \/ \E w \in Workers : /\ wpc[w] # "idle" /\ wpc'[w] = "idle" /\ wjob[w] = j
                        /\ Fenced(w) \/ LabelTask(w)

HoldersMove == \A j \in Job :
  \/ holder'[j] = holder[j]
  \/ holder'[j] = NoWorker /\ Frees(j)
  \/ \E w \in Workers : holder'[j] = w /\ Begin(w, j)

Stays(w) ==
  /\ wpc'[w] = wpc[w] /\ wjob'[w] = wjob[w] /\ wbase'[w] = wbase[w] /\ wrows'[w] = wrows[w]
  /\ wshown'[w] = wshown[w] /\ wgot'[w] = wgot[w]

Advances(w) ==
  \/ Start(w) \/ OpenTask(w) \/ AlreadyApplied(w) \/ ReadRows(w) \/ CheckRevision(w)
  \/ WriteStaged(w) \/ LoadStaged(w)
  \/ CommitRecords(w) \/ CommitAnalysis(w) \/ LabelPreview(w) \/ SavePreview(w) \/ CommitExport(w)
  \/ Generate(w) /\ Labels(w)

WorkersMove == \A w \in Workers :
  Stays(w) \/ wpc'[w] = "idle" \/ (\E j \in Job : Begin(w, j)) \/ Advances(w)

TaskStep(t) ==
  CreateTask(t) \/ Parsed(t) \/ ParseFailed(t) \/ Cancel(t) \/ Retry(t) \/ ReopenMapping(t)

LEMMA Steps ==
  [Next]_vars =>
    \/ \E t \in Tasks : TaskStep(t)
    \/ \E t \in Tasks : DeleteTask(t)
    \/ \E o \in Operations : CreateOperation(o)
    \/ \E j \in Job : LoseLease(j)
    \/ \E w \in Workers, j \in Job : Begin(w, j)
    \/ \E w \in Workers : Work(w)
    \/ \E w \in Workers, final \in BOOLEAN : wpc[w] # "idle" /\ Raise(w, final)
    \/ \E w \in Workers : Crash(w)
    \/ UNCHANGED vars
BY DEF Next, Conflict, Invalid, Transient, TaskStep

LEMMA KeptTasks == UNCHANGED taskVars => \A t \in Tasks : Kept(t)
BY DEF taskVars, Kept

LEMMA ReviseMoves ==
  ASSUME TasksTyped, NEW t \in Tasks, NEW newRows, NEW newCounted, NEW newStatus \in TaskStatus,
         Exists(t), newStatus \notin {"none", "deleted", "completed"},
         Revise(t, newRows, newCounted, newStatus)
  PROVE  TasksMove
<1>1. Revised(t)
  <2>1. past'[t] = [past[t] EXCEPT ![rev[t] + 1] = newRows] /\ rows'[t] = newRows
    BY DEF TasksTyped, Revise
  <2> QED
    BY <2>1 DEF TasksTyped, Revise, Revised
<1>2. ASSUME NEW u \in Tasks, u # t PROVE Kept(u)
  BY <1>2 DEF TasksTyped, Revise, Kept
<1> QED
  BY <1>1, <1>2 DEF TasksMove

LEMMA WorkTasksMove ==
  ASSUME TypeOK, NEW w \in Workers, Work(w)
  PROVE  TasksMove
<1>0. wpc[w] # "idle" => Task(w) \in Tasks
  BY WorksFor DEF TypeOK
<1>1. CASE CommitRecords(w)
  BY <1>0, <1>1, ReviseMoves DEF CommitRecords, Commits, At, TypeOK, TaskStatus
<1>2. CASE CommitAnalysis(w)
  BY <1>0, <1>2, ReviseMoves DEF CommitAnalysis, Commits, At, KeepRecords, TypeOK, TaskStatus
<1>3. CASE LabelTask(w)
  <2>1. Kept(Task(w))
    BY <1>0, <1>3 DEF LabelTask, Generated, Kept, TypeOK, TasksTyped, At, Exists
  <2> QED
    BY <1>0, <1>3, <2>1 DEF LabelTask, Generated, TasksMove, Kept, TypeOK, TasksTyped
<1>4. CASE UNCHANGED taskVars
  BY <1>4, KeptTasks DEF TasksMove
<1> QED
  BY <1>1, <1>2, <1>3, <1>4 DEF Work, Start, OpenTask, AlreadyApplied, ReadRows, CheckRevision,
     WriteStaged, LoadStaged, LabelPreview, SavePreview, CommitExport, Report, Generate, Generated,
     taskVars

LEMMA NextTasksMove ==
  ASSUME TypeOK, [Next]_vars
  PROVE  TasksMove
<1>1. ASSUME NEW t \in Tasks, CreateTask(t) \/ Parsed(t) \/ ParseFailed(t) PROVE TasksMove
  BY <1>1 DEF CreateTask, Parsed, ParseFailed, SetStatus, TasksMove, Kept, StatusMoves, TypeOK,
     TasksTyped
<1>2. ASSUME NEW t \in Tasks, Cancel(t) \/ Retry(t) \/ ReopenMapping(t) PROVE TasksMove
  <2>1. Exists(t)
    BY <1>2 DEF Cancel, Retry, ReopenMapping, Editable, Exists
  <2> QED
    BY <1>2, <2>1, ReviseMoves DEF Cancel, Retry, ReopenMapping, KeepRecords, TypeOK, TaskStatus
<1>3. ASSUME NEW t \in Tasks, DeleteTask(t) PROVE TasksMove
  BY <1>3 DEF DeleteTask, TasksMove, Kept, TypeOK, TasksTyped
<1>4. CASE UNCHANGED taskVars
  BY <1>4, KeptTasks DEF TasksMove
<1> QED
  BY <1>1, <1>2, <1>3, <1>4, Steps, WorkTasksMove DEF TaskStep, CreateOperation, LoseLease, Begin,
     Raise, Crash, vars

LEMMA FailedMoves ==
  ASSUME TypeOK, NEW j \in Job, NEW fails, FailObject(j, fails), UNCHANGED base,
         fails => Unlock(j)
  PROVE  OperationsMove
<1> SUFFICES ASSUME NEW o \in Operations
             PROVE  \/ ostat'[o] = ostat[o] /\ base'[o] = base[o]
                    \/ /\ ostat[o] = "processing" /\ ostat'[o] = "failed"
                       /\ base'[o] = base[o] /\ holder'[<<o, "run">>] = NoWorker
  BY DEF OperationsMove
<1>1. CASE ostat'[o] # ostat[o]
  <2>1. j = <<o, "run">> /\ fails /\ ostat[o] = "processing" /\ ostat'[o] = "failed"
    BY <1>1, Jobs DEF FailObject, TypeOK, OperationsTyped
  <2> QED
    BY <2>1, Jobs DEF Unlock, TypeOK, JobsTyped
<1> QED
  BY <1>1

LEMMA NextOperationsMove ==
  ASSUME TypeOK, [Next]_vars
  PROVE  OperationsMove
<1>1. CASE UNCHANGED <<ostat, base>>
  BY <1>1 DEF OperationsMove
<1>2. ASSUME NEW o \in Operations, CreateOperation(o) PROVE OperationsMove
  BY <1>2 DEF CreateOperation, OperationsMove, TypeOK, OperationsTyped
<1>3. ASSUME NEW t \in Tasks, DeleteTask(t) PROVE OperationsMove
  <2>1. \A o \in Operations : TaskOf[o] # t => ostat'[o] = ostat[o] /\ base'[o] = base[o]
    BY <1>3 DEF DeleteTask
  <2> QED
    BY <1>3, <2>1 DEF OperationsMove
<1>4. ASSUME NEW j \in Job, LoseLease(j) PROVE OperationsMove
  BY <1>4, FailedMoves DEF LoseLease
<1>5. ASSUME NEW w \in Workers, NEW final \in BOOLEAN, wpc[w] # "idle", Raise(w, final)
      PROVE OperationsMove
  BY <1>5, WorksFor, FailedMoves DEF Raise, TypeOK
<1>6. ASSUME NEW w \in Workers, Report(w) PROVE OperationsMove
  BY <1>6, WorksFor DEF Report, OperationsMove, TypeOK, OperationsTyped
<1> QED
  BY <1>1, <1>2, <1>3, <1>4, <1>5, <1>6, Steps DEF TaskStep, CreateTask, Parsed, ParseFailed,
     SetStatus, Cancel, Retry, ReopenMapping, atOnce, Begin, Crash, vars, Work,
     Start, OpenTask, AlreadyApplied, ReadRows, CheckRevision, WriteStaged, LoadStaged,
     CommitRecords, CommitAnalysis, LabelPreview, SavePreview, CommitExport, committing,
     Generate, LabelTask, Generated

LEMMA NextWorkersMove ==
  ASSUME TypeOK, [Next]_vars
  PROVE  WorkersMove
<1>1. CASE UNCHANGED workerVars
  BY <1>1 DEF workerVars, readVars, WorkersMove, Stays
<1>2. ASSUME NEW w \in Workers, NEW j \in Job, Begin(w, j) PROVE WorkersMove
  BY <1>2 DEF Begin, Goto, readVars, WorkersMove, Stays, TypeOK, WorkersTyped
<1>3. ASSUME NEW w \in Workers, Leave(w) PROVE WorkersMove
  BY <1>3 DEF Leave, Goto, WorkersMove, Stays, TypeOK, WorkersTyped
<1>4. ASSUME NEW w \in Workers, Work(w) PROVE WorkersMove
  <2>1. CASE Report(w) \/ LabelTask(w) \/ (Generate(w) /\ ~Labels(w))
    BY <1>3, <2>1 DEF Report, LabelTask, Generate, Generated
  <2>2. CASE Advances(w)
    <3> SUFFICES \A v \in Workers : v # w => Stays(v)
      BY <2>2 DEF WorkersMove
    <3>1. CASE Start(w) \/ OpenTask(w) \/ AlreadyApplied(w) \/ ReadRows(w) \/ CheckRevision(w)
      BY <3>1 DEF Start, OpenTask, AlreadyApplied, ReadRows, CheckRevision, Goto, readVars, Stays,
         TypeOK, WorkersTyped
    <3>2. CASE WriteStaged(w) \/ LoadStaged(w)
      BY <3>2 DEF WriteStaged, LoadStaged, Goto, readVars, Stays, TypeOK, WorkersTyped
    <3>3. CASE CommitRecords(w) \/ CommitAnalysis(w)
      BY <3>3 DEF CommitRecords, CommitAnalysis, committing, Goto, readVars, Stays, TypeOK,
         WorkersTyped
    <3>4. CASE LabelPreview(w) \/ SavePreview(w) \/ CommitExport(w)
      BY <3>4 DEF LabelPreview, SavePreview, CommitExport, committing, Goto, readVars, Stays,
         TypeOK, WorkersTyped
    <3>5. CASE Generate(w) /\ Labels(w)
      BY <3>5 DEF Generate, Goto, readVars, Stays, TypeOK, WorkersTyped
    <3> QED
      BY <2>2, <3>1, <3>2, <3>3, <3>4, <3>5 DEF Advances
  <2> QED
    BY <1>4, <2>1, <2>2 DEF Work, Advances
<1> QED
  BY <1>1, <1>2, <1>3, <1>4, Steps DEF TaskStep, CreateTask, Parsed, ParseFailed,
     SetStatus, Cancel, Retry, ReopenMapping, atOnce, CreateOperation, DeleteTask, LoseLease, Raise,
     Crash, vars

LEMMA NextHoldersMove ==
  ASSUME TypeOK, [Next]_vars
  PROVE  HoldersMove
<1>1. CASE UNCHANGED holder
  BY <1>1 DEF HoldersMove
<1>2. ASSUME NEW w \in Workers, NEW j \in Job, Begin(w, j) PROVE HoldersMove
  BY <1>2 DEF Begin, HoldersMove, TypeOK, JobsTyped
<1>3. ASSUME NEW j \in Job, Unlock(j), Frees(j) PROVE HoldersMove
  BY <1>3 DEF Unlock, HoldersMove, TypeOK, JobsTyped
<1>4. ASSUME NEW t \in Tasks, DeleteTask(t) PROVE HoldersMove
  <2>1. \A j \in Job : holder'[j] = IF TaskOf[j[1]] = t THEN NoWorker ELSE holder[j]
    BY <1>4, Jobs DEF DeleteTask
  <2> QED
    BY <1>4, <2>1 DEF HoldersMove, Frees
<1>5. ASSUME NEW w \in Workers, wpc[w] # "idle", Unlock(wjob[w]), Leave(w), Fenced(w) \/ LabelTask(w)
      PROVE HoldersMove
  <2>1. wpc'[w] = "idle" /\ wjob[w] \in Job
    BY <1>5, WorksFor DEF Leave, Goto, TypeOK, WorkersTyped
  <2>2. Frees(wjob[w])
    BY <1>5, <2>1 DEF Frees
  <2> QED
    BY <1>3, <1>5, <2>1, <2>2
<1>6. ASSUME NEW w \in Workers, Work(w) PROVE HoldersMove
  <2>1. \/ UNCHANGED holder
        \/ /\ wpc[w] # "idle" /\ Unlock(wjob[w]) /\ Leave(w)
           /\ Fenced(w) \/ LabelTask(w)
    BY <1>6 DEF Work, Start, OpenTask, AlreadyApplied, ReadRows, CheckRevision, WriteStaged,
       LoadStaged, CommitRecords, CommitAnalysis, LabelPreview, SavePreview, CommitExport,
       committing, jobVars, Report, Generate, LabelTask, Generated
  <2> QED
    BY <1>1, <1>5, <2>1
<1>7. ASSUME NEW j \in Job, LoseLease(j) PROVE HoldersMove
  BY <1>3, <1>7 DEF LoseLease, Frees
<1>8. ASSUME NEW w \in Workers, NEW final \in BOOLEAN, wpc[w] # "idle", Raise(w, final)
      PROVE HoldersMove
  BY <1>1, <1>5, <1>8 DEF Raise
<1> QED
  BY <1>1, <1>2, <1>4, <1>6, <1>7, <1>8, Steps DEF TaskStep, CreateTask, Parsed, ParseFailed,
     SetStatus, Cancel, Retry, ReopenMapping, atOnce, jobVars, CreateOperation, Crash, vars

LEMMA FailedExports ==
  ASSUME TypeOK, NEW j \in Job, NEW fails, FailObject(j, fails), UNCHANGED <<xrev, xrows>>,
         fails => Unlock(j)
  PROVE  ExportsMove
<1> SUFFICES ASSUME NEW o \in Operations, xstat'[o] # xstat[o]
             PROVE  /\ xstat[o] = "processing" /\ xstat'[o] = "failed"
                    /\ j[1] = o /\ j[2] = "generate" /\ holder'[j] = NoWorker
  BY DEF ExportsMove
<1>1. j[1] = o /\ j[2] = "generate" /\ fails /\ xstat[o] = "processing" /\ xstat'[o] = "failed"
  BY Jobs DEF FailObject, TypeOK, ExportsTyped
<1> QED
  BY <1>1 DEF Unlock, TypeOK, JobsTyped

LEMMA NextExportsMove ==
  ASSUME TypeOK, [Next]_vars,
         \A w \in Workers : wpc[w] = "generating" => wjob[w][2] = "generate"
  PROVE  ExportsMove
<1>1. CASE UNCHANGED exportVars
  BY <1>1 DEF exportVars, ExportsMove
<1>2. ASSUME NEW w \in Workers, CommitExport(w) PROVE ExportsMove
  <2>1. Op(w) \in Operations
    BY <1>2, WorksFor DEF CommitExport, TypeOK
  <2> QED
    BY <1>1, <1>2, <2>1 DEF CommitExport, ExportsMove, TypeOK, ExportsTyped
<1>3. ASSUME NEW w \in Workers, LabelTask(w) PROVE ExportsMove
  BY <1>3, WorksFor DEF LabelTask, Generated, ExportsMove, TypeOK, ExportsTyped
<1>4. ASSUME NEW w \in Workers, Generate(w), ~Labels(w) PROVE ExportsMove
  <2>1. wjob[w] \in Job /\ wjob[w][1] = Op(w) /\ wjob[w][2] = "generate" /\ holder'[wjob[w]] = NoWorker
    BY <1>4, WorksFor DEF Generate, Generated, Unlock, Op, TypeOK, JobsTyped
  <2> QED
    BY <1>4, <2>1, WorksFor DEF Generate, Generated, ExportsMove, TypeOK, ExportsTyped
<1>5. ASSUME NEW t \in Tasks, DeleteTask(t) PROVE ExportsMove
  BY <1>5 DEF DeleteTask, ExportsMove
<1>6. ASSUME NEW j \in Job, LoseLease(j) PROVE ExportsMove
  BY <1>6, FailedExports DEF LoseLease
<1>7. ASSUME NEW w \in Workers, NEW final \in BOOLEAN, wpc[w] # "idle", Raise(w, final)
      PROVE ExportsMove
  BY <1>7, WorksFor, FailedExports DEF Raise, TypeOK
<1>8. ASSUME NEW w \in Workers, Work(w) PROVE ExportsMove
  BY <1>1, <1>2, <1>3, <1>4, <1>8 DEF Work, Start, OpenTask, AlreadyApplied, ReadRows,
     CheckRevision, WriteStaged, LoadStaged, CommitRecords, CommitAnalysis, LabelPreview,
     SavePreview, Report, Generate
<1> QED
  BY <1>1, <1>5, <1>6, <1>7, <1>8, Steps DEF TaskStep, CreateTask, Parsed, ParseFailed,
     SetStatus, Cancel, Retry, ReopenMapping, atOnce, CreateOperation, Begin, Crash, vars

-----------------------------------------------------------------------------
(* Who works for what. *)

(* An operation belongs to a task that was created, and lives with it.     *)
Belonging ==
  \A o \in Operations : /\ ostat[o] # "none" => tstat[TaskOf[o]] # "none"
                        /\ ostat[o] \notin {"none", "deleted"} => Exists(TaskOf[o])
                        /\ ostat[o] = "deleted" => tstat[TaskOf[o]] = "deleted"

(* Decisions and applications are those of an upload that is done.         *)
SourcesDone ==
  \A o \in Operations : Decides(o) /\ ostat[o] # "none" => ostat[Source[o]] \in {"ready", "deleted"}

(* While a worker holds the job of an operation, it is open. *)
HeldIsOpen ==
  \A j \in Job : j[2] = "run" /\ holder[j] # NoWorker => ostat[j[1]] = "processing"

Generating == {"generating", "labelling"}

(* Which bodies come where. *)
Paths ==
  \A w \in Workers : wpc[w] # "idle" =>
    /\ ostat[Op(w)] # "none"
    /\ wpc[w] \in Generating <=> wjob[w][2] = "generate"
    /\ wpc[w] = "staging" => Does(w) = "flexible"
    /\ wpc[w] = "loading" => Replaces(Op(w))
    /\ wpc[w] = "label" => Does(w) = "apply_return"

(* An export that exists is one of an operation, and lives with its task.  *)
ExportsBelong ==
  \A o \in Operations : /\ xstat[o] # "none" => Kind[o] = "export" /\ ostat[o] # "none"
                        /\ xstat[o] \in {"processing", "completed", "failed"} => Exists(TaskOf[o])

Control == Belonging /\ SourcesDone /\ HeldIsOpen /\ Paths /\ ExportsBelong

LEMMA RunJobs ==
  ASSUME TypeOK, Paths, NEW w \in Workers, wpc[w] \notin Generating \cup {"idle"}
  PROVE  wjob[w] = <<Op(w), "run">>
BY WorksFor, Jobs DEF TypeOK, Paths, Op

LEMMA HolderIsOpen ==
  ASSUME TypeOK, HeldIsOpen, Paths, NEW w \in Workers, wpc[w] \notin Generating \cup {"idle"},
         Fenced(w), NoWorker \notin Workers
  PROVE  ostat[Op(w)] = "processing"
BY WorksFor, RunJobs DEF TypeOK, HeldIsOpen, Fenced

(* The moves of an operation, once it is known that results come from the  *)
(* holder of its job.                                                      *)
Moved(o) ==
  \/ ostat'[o] = ostat[o] /\ base'[o] = base[o]
  \/ /\ CreateOperation(o) /\ ostat[o] = "none" /\ ostat'[o] = "processing"
     /\ base'[o] = rev[TaskOf[o]]
  \/ /\ ostat[o] = "processing" /\ ostat'[o] \in {"ready", "failed"} /\ base'[o] = base[o]
     /\ holder'[<<o, "run">>] = NoWorker
  \/ /\ DeleteTask(TaskOf[o]) /\ tstat'[TaskOf[o]] = "deleted"
     /\ ostat'[o] = IF ostat[o] = "none" THEN "none" ELSE "deleted"

LEMMA OperationMoved ==
  ASSUME TypeOK, HeldIsOpen, Paths, [Next]_vars, NEW o \in Operations
  PROVE  Moved(o)
<1>0. TaskOf[o] \in Tasks
  BY OperationsAssumption
<1>1. CASE CreateOperation(o)
  BY <1>1 DEF CreateOperation, Moved, TypeOK, OperationsTyped
<1>2. ASSUME NEW w \in Workers, Op(w) = o, Report(w) PROVE Moved(o)
  <2>1. ostat[o] = "processing" /\ wjob[w] = <<o, "run">> /\ wjob[w] \in Job
    BY <1>2, HolderIsOpen, RunJobs, WorksFor, NullAssumption DEF Report, Generating, TypeOK
  <2>2. ostat'[o] = "ready" /\ base'[o] = base[o]
    BY <1>2 DEF Report, TypeOK, OperationsTyped
  <2>3. holder'[<<o, "run">>] = NoWorker
    BY <1>2, <2>1 DEF Report, Unlock, TypeOK, JobsTyped
  <2> QED
    BY <2>1, <2>2, <2>3 DEF Moved
<1>3. CASE DeleteTask(TaskOf[o])
  <2>1. tstat'[TaskOf[o]] = "deleted"
    BY <1>0, <1>3 DEF DeleteTask, TypeOK, TasksTyped
  <2>2. ostat'[o] = IF ostat[o] = "none" THEN "none" ELSE "deleted"
    BY <1>3 DEF DeleteTask, TypeOK, OperationsTyped
  <2> QED
    BY <1>3, <2>1, <2>2 DEF Moved
<1> QED
  BY <1>1, <1>2, <1>3, NextOperationsMove DEF OperationsMove, Moved

LEMMA RequestedStays ==
  ASSUME TypeOK, HeldIsOpen, Paths, [Next]_vars, NEW o \in Operations, ostat[o] # "none"
  PROVE  ostat'[o] # "none"
BY OperationMoved DEF Moved

LEMMA BelongingKept ==
  ASSUME TypeOK, Belonging, HeldIsOpen, Paths, [Next]_vars
  PROVE  Belonging'
<1> SUFFICES ASSUME NEW o \in Operations
             PROVE  /\ ostat'[o] # "none" => tstat'[TaskOf[o]] # "none"
                    /\ ostat'[o] \notin {"none", "deleted"} => Exists(TaskOf[o])'
                    /\ ostat'[o] = "deleted" => tstat'[TaskOf[o]] = "deleted"
  BY DEF Belonging
<1>0. TaskOf[o] \in Tasks
  BY OperationsAssumption
<1>1. \/ DeleteTask(TaskOf[o])
      \/ /\ tstat[TaskOf[o]] # "none" => tstat'[TaskOf[o]] # "none"
         /\ tstat[TaskOf[o]] = "deleted" => tstat'[TaskOf[o]] = "deleted"
         /\ Exists(TaskOf[o]) => Exists(TaskOf[o])'
  BY <1>0, NextTasksMove DEF TasksMove, Kept, Revised, StatusMoves, Exists
<1>2. CASE DeleteTask(TaskOf[o])
  BY <1>0, <1>2 DEF DeleteTask, TypeOK, TasksTyped
<1>3. CASE ~DeleteTask(TaskOf[o])
  <2>0. Moved(o)
    BY OperationMoved
  <2>1. \/ ostat'[o] = ostat[o]
        \/ CreateOperation(o) /\ ostat'[o] = "processing"
        \/ ostat[o] = "processing" /\ ostat'[o] \in {"ready", "failed"}
    BY <1>3, <2>0 DEF Moved
  <2> QED
    BY <1>1, <1>3, <2>1 DEF Belonging, CreateOperation, Exists
<1> QED
  BY <1>2, <1>3

LEMMA SourcesKept ==
  ASSUME TypeOK, SourcesDone, HeldIsOpen, Paths, [Next]_vars
  PROVE  SourcesDone'
<1> SUFFICES ASSUME NEW o \in Operations, Decides(o), ostat'[o] # "none"
             PROVE  ostat'[Source[o]] \in {"ready", "deleted"}
  BY DEF SourcesDone, Decides
<1>0. Source[o] \in Operations /\ TaskOf[o] \in Tasks /\ TaskOf[Source[o]] = TaskOf[o]
  BY OperationsAssumption
<1>1. CASE ostat[o] = "none"
  <2>1. CreateOperation(o)
    BY <1>1, OperationMoved DEF Moved
  <2> QED
    BY <1>0, <1>1, <2>1 DEF CreateOperation, Decides, TypeOK, OperationsTyped
<1>2. CASE ostat[o] # "none"
  BY <1>0, <1>2, OperationMoved DEF Moved, SourcesDone
<1> QED
  BY <1>1, <1>2

LEMMA HeldIsOpenKept ==
  ASSUME TypeOK, HeldIsOpen, Paths, [Next]_vars
  PROVE  HeldIsOpen'
<1> SUFFICES ASSUME NEW j \in Job, j[2] = "run", holder'[j] # NoWorker
             PROVE  ostat'[j[1]] = "processing"
  BY DEF HeldIsOpen
<1>0. j[1] \in Operations /\ j = <<j[1], "run">> /\ TaskOf[j[1]] \in Tasks
  BY Jobs, OperationsAssumption
<1>1. ASSUME NEW w \in Workers, Begin(w, j) PROVE ostat'[j[1]] = "processing"
  BY <1>1 DEF Begin, Open
<1>2. CASE holder'[j] = holder[j]
  <2>1. ostat[j[1]] = "processing"
    BY <1>2 DEF HeldIsOpen
  <2>2. ~DeleteTask(TaskOf[j[1]])
    BY <1>0 DEF DeleteTask
  <2> QED
    BY <1>0, <2>1, <2>2, OperationMoved DEF Moved
<1> QED
  BY <1>1, <1>2, NextHoldersMove DEF HoldersMove

(* The steps after which a worker goes on. *)
LEMMA AdvancedPaths ==
  ASSUME TypeOK, Paths, NEW w \in Workers, Advances(w)
  PROVE  /\ wpc[w] # "idle" /\ wjob'[w] = wjob[w] /\ Op(w)' = Op(w)
         /\ wpc'[w] \in Generating <=> wjob[w][2] = "generate"
         /\ wpc'[w] = "staging" => Does(w) = "flexible"
         /\ wpc'[w] = "loading" => Replaces(Op(w))
         /\ wpc'[w] = "label" => Does(w) = "apply_return"
<1>1. wpc[w] # "idle" /\ wjob'[w] = wjob[w]
  BY DEF Advances, Start, OpenTask, AlreadyApplied, ReadRows, CheckRevision, WriteStaged,
     LoadStaged, CommitRecords, CommitAnalysis, Commits, LabelPreview, SavePreview, CommitExport,
     committing, Generate
<1>2. Op(w)' = Op(w) /\ Op(w) \in Operations /\ Does(w) \in Kinds
  BY <1>1, WorksFor DEF Op, TypeOK
<1>3. CASE OpenTask(w)
  <2>1. wpc'[w] = AfterOpening(Op(w)) /\ wpc[w] = "opening"
    BY <1>3 DEF OpenTask, Goto, TypeOK, WorkersTyped
  <2> QED
    BY <1>1, <1>2, <2>1, NextPc DEF Paths, Generating
<1>4. CASE CheckRevision(w)
  <2>1. wpc'[w] = AfterChecking(Op(w)) /\ wpc[w] = "checking"
    BY <1>4 DEF CheckRevision, Goto, TypeOK, WorkersTyped
  <2> QED
    BY <1>1, <1>2, <2>1 DEF AfterChecking, Does, Paths, Generating
<1>5. CASE Start(w) \/ AlreadyApplied(w) \/ ReadRows(w) \/ WriteStaged(w) \/ LoadStaged(w)
  <2>1. wpc[w] \notin Generating /\ wpc'[w] \in {"opening", "result", "checking", "commit"}
    BY <1>5 DEF Start, AlreadyApplied, ReadRows, WriteStaged, LoadStaged, Goto, TypeOK,
       WorkersTyped, Generating
  <2> QED
    BY <1>1, <1>2, <2>1 DEF Paths, Generating
<1>6. CASE CommitRecords(w) \/ CommitAnalysis(w) \/ LabelPreview(w) \/ SavePreview(w) \/ CommitExport(w)
  <2>1. /\ wpc[w] \notin Generating /\ wpc'[w] \in {"label", "result"}
        /\ wpc'[w] = "label" => Does(w) = "apply_return"
    BY <1>6 DEF CommitRecords, CommitAnalysis, Commits, LabelPreview, SavePreview, CommitExport,
       Goto, TypeOK, WorkersTyped, Generating
  <2> QED
    BY <1>1, <1>2, <2>1 DEF Paths, Generating
<1>7. CASE Generate(w) /\ Labels(w)
  <2>1. wpc[w] = "generating" /\ wpc'[w] = "labelling"
    BY <1>7 DEF Generate, Goto, TypeOK, WorkersTyped
  <2> QED
    BY <1>1, <1>2, <2>1 DEF Paths, Generating
<1> QED
  BY <1>3, <1>4, <1>5, <1>6, <1>7 DEF Advances

LEMMA BegunPaths ==
  ASSUME TypeOK, NEW w \in Workers, NEW j \in Job, Begin(w, j)
  PROVE  /\ wjob'[w] = j /\ Op(w)' = j[1]
         /\ wpc'[w] = IF j[2] = "run" THEN "started" ELSE "generating"
BY DEF Begin, Goto, TypeOK, WorkersTyped, Op

LEMMA PathsKept ==
  ASSUME TypeOK, HeldIsOpen, Paths, ExportsBelong, [Next]_vars
  PROVE  Paths'
<1> SUFFICES ASSUME NEW w \in Workers, wpc'[w] # "idle"
             PROVE  /\ ostat'[Op(w)'] # "none"
                    /\ wpc'[w] \in Generating <=> wjob'[w][2] = "generate"
                    /\ wpc'[w] = "staging" => Kind[Op(w)'] = "flexible"
                    /\ wpc'[w] = "loading" => Replaces(Op(w)')
                    /\ wpc'[w] = "label" => Kind[Op(w)'] = "apply_return"
  BY DEF Paths, Does, Replaces
<1>1. CASE Stays(w)
  <2>1. Op(w)' = Op(w) /\ Op(w) \in Operations
    BY <1>1, WorksFor DEF Stays, Op, TypeOK
  <2> QED
    BY <1>1, <2>1, RequestedStays DEF Stays, Paths, Does
<1>2. ASSUME NEW j \in Job, Begin(w, j)
      PROVE  /\ ostat'[Op(w)'] # "none"
             /\ wpc'[w] \in Generating <=> wjob'[w][2] = "generate"
             /\ wpc'[w] \notin {"staging", "loading", "label"}
  <2>1. ostat[j[1]] # "none" /\ ostat'[j[1]] = ostat[j[1]]
    BY <1>2, Jobs DEF Begin, Open, ExportsBelong
  <2> QED
    BY <1>2, <2>1, BegunPaths, Jobs DEF Generating
<1>3. CASE Advances(w)
  <2>1. Op(w)' = Op(w) /\ Op(w) \in Operations /\ ostat[Op(w)] # "none"
    BY <1>3, AdvancedPaths, WorksFor DEF TypeOK, Paths
  <2> QED
    BY <1>3, <2>1, AdvancedPaths, RequestedStays DEF Does
<1> QED
  BY <1>1, <1>2, <1>3, NextWorkersMove DEF WorkersMove

LEMMA GeneratingJobs ==
  ASSUME Paths, NEW w \in Workers, wpc[w] \in Generating
  PROVE  wjob[w][2] = "generate"
BY DEF Paths, Generating

LEMMA ExportsKept ==
  ASSUME TypeOK, Belonging, HeldIsOpen, Paths, ExportsBelong, [Next]_vars
  PROVE  ExportsBelong'
<1> SUFFICES ASSUME NEW o \in Operations
             PROVE  /\ xstat'[o] # "none" => Kind[o] = "export" /\ ostat'[o] # "none"
                    /\ xstat'[o] \in {"processing", "completed", "failed"} => Exists(TaskOf[o])'
  BY DEF ExportsBelong
<1>0. TaskOf[o] \in Tasks
  BY OperationsAssumption
<1>1. DeleteTask(TaskOf[o]) \/ (Exists(TaskOf[o]) => Exists(TaskOf[o])')
  BY <1>0, NextTasksMove DEF TasksMove, Kept, Revised, StatusMoves, Exists
<1>2. CASE DeleteTask(TaskOf[o])
  <2>1. xstat'[o] \in {"none", "deleted"} /\ (xstat[o] = "none" => xstat'[o] = "none")
    BY <1>2 DEF DeleteTask, TypeOK, ExportsTyped
  <2> QED
    BY <2>1, RequestedStays DEF ExportsBelong
<1>3. CASE \/ xstat'[o] = xstat[o]
           \/ xstat[o] = "processing" /\ xstat'[o] \in {"completed", "failed"}
  BY <1>1, <1>2, <1>3, RequestedStays DEF ExportsBelong
<1>4. ASSUME NEW w \in Workers, Op(w) = o, xstat[o] = "none", CommitExport(w), ~DeleteTask(TaskOf[o])
      PROVE  Kind[o] = "export" /\ ostat[o] # "none" /\ Exists(TaskOf[o])
  BY <1>4 DEF CommitExport, At, Does, Task, Paths
<1>5. ASSUME NEW w \in Workers, Op(w) = o, LabelTask(w)
      PROVE  Kind[o] = "export" /\ ostat[o] # "none" /\ Exists(TaskOf[o])
  BY <1>5, WorksFor, GeneratingJobs, Jobs DEF LabelTask, At, Task, Paths, Generating, TypeOK, Op
<1>6. \A w \in Workers : wpc[w] = "generating" => wjob[w][2] = "generate"
  BY GeneratingJobs DEF Generating
<1> QED
  BY <1>1, <1>2, <1>3, <1>4, <1>5, <1>6, NextExportsMove, RequestedStays DEF ExportsMove

LEMMA ControlKept ==
  ASSUME TypeOK, Control, [Next]_vars
  PROVE  Control'
BY BelongingKept, SourcesKept, HeldIsOpenKept, PathsKept, ExportsKept DEF Control

-----------------------------------------------------------------------------
(***************************************************************************)
(* The safety of TaskLifecycle for all constants.  Each part of the        *)
(* inductive invariant follows for the worker that moved, step by step,    *)
(* and for everyone else from the list of moves above.                     *)
(***************************************************************************)

-----------------------------------------------------------------------------
(* The parts of the invariant. *)

InBody == {"rows", "checking", "staging", "loading", "commit"}

(* Revisions that were read are not ahead of the task's. *)
Order ==
  /\ \A o \in Operations : tstat[TaskOf[o]] # "deleted" =>
       base[o] <= rev[TaskOf[o]] /\ pbase[o] <= rev[TaskOf[o]] /\ xrev[o] <= rev[TaskOf[o]]
  /\ \A w \in Workers : wpc[w] \in InBody =>
       (tstat[Task(w)] # "deleted" => wbase[w] <= rev[Task(w)])

(* The revision that an operation has to commit against. *)
HasBasis(o) == ~MakesPreview(o) /\ Kind[o] # "download"
Basis(o) == IF Decides(o) THEN pbase[Source[o]] ELSE base[o]

WorkersBase ==
  \A w \in Workers : wpc[w] \in InBody =>
    (tstat[Task(w)] # "deleted" /\ HasBasis(Op(w)) => wbase[w] = Basis(Op(w)))

(* The transaction that completes an export and its task. *)
Labelling ==
  \A w \in Workers : wpc[w] = "labelling" =>
    /\ Fenced(w) /\ xstat[Op(w)] = "processing" /\ xrev[Op(w)] = wbase[w]
    /\ At(Task(w), wbase[w]) => tstat[Task(w)] \in {"ready", "completed"}

(* A task without a mapping has no records. *)
Unmapped == {"none", "processing", "failed", "cancelled", "mapping", "deleted"}

UnmappedEmpty == \A t \in Tasks : tstat[t] \in Unmapped => rows[t] = {}

Counted == \A t \in Tasks : counted[t] = rows[t]

Confirming ==
  \A w \in Workers : wpc[w] \in InBody =>
    (Does(w) = "confirm" /\ At(Task(w), wbase[w]) => tstat[Task(w)] = "mapping")

(* The records a worker has read are the task's, if the revision is. *)
HasRead(w) ==
  \/ wpc[w] = "commit" /\ Does(w) \notin {"confirm", "analyze", "inspect"}
  \/ /\ wpc[w] \in {"checking", "staging"} /\ Does(w) \notin {"confirm", "return", "inspect"}
     /\ ~Replaces(Op(w))

RowsRead ==
  \A w \in Workers : wpc[w] # "idle" =>
    (HasRead(w) /\ At(Task(w), wbase[w]) => wrows[w] = rows[Task(w)])

(* The same of a preview's differences, in its row and in its file. *)
StagedFrom ==
  \A p \in Operations : staged[p] # NoOperation =>
    ostat[p] \in {"ready", "deleted"} /\ Kind[staged[p]] = "flexible" /\ Source[staged[p]] = p

StagedIsBase ==
  \A p \in Operations : staged[p] # NoOperation =>
    (At(TaskOf[p], pbase[p]) => saw[staged[p]] = rows[TaskOf[p]])

PreviewsBelong == \A p \in Operations : pstat[p] # "none" => ostat[p] # "none"

Compared == {"return", "names"}
Shows(p) == pstat[p] \in {"ready", "applied"}

DifferencesOfBase ==
  \A p \in Operations : Kind[p] \in Compared /\ Shows(p) =>
    (At(TaskOf[p], pbase[p]) => saw[p] = rows[TaskOf[p]])

ReadyShows ==
  /\ \A p \in Operations : Kind[p] \in Compared /\ ostat[p] = "ready" => Shows(p)
  /\ \A w \in Workers : wpc[w] = "result" => (Fenced(w) /\ Does(w) \in Compared => Shows(Op(w)))

PastIsRows == \A t \in Tasks : past[t][rev[t]] = rows[t]

(* What has taken effect has moved the task beyond its base. *)
Effects ==
  /\ \A o \in Operations : effects[o] > 0 => ostat[o] # "none" /\ Changes(o)
  /\ \A o \in Operations : effects[o] > 0 /\ Kind[o] # "export" =>
       (tstat[TaskOf[o]] # "deleted" => Basis(o) < rev[TaskOf[o]])
  /\ \A o \in Operations : Kind[o] = "export" => (xstat[o] # "none" <=> effects[o] > 0)
  /\ \A w \in Workers : wpc[w] \in {"label", "result"} => (Changes(Op(w)) => effects[Op(w)] > 0)

-----------------------------------------------------------------------------
(* Revisions only grow, and one that was read comes again only unchanged.  *)

LEMMA RevisionsGrow ==
  ASSUME TypeOK, [Next]_vars, NEW t \in Tasks, tstat'[t] # "deleted"
  PROVE  /\ tstat[t] # "deleted" /\ rev[t] \in Nat /\ rev'[t] \in Nat /\ rev[t] <= rev'[t]
         /\ ~DeleteTask(t)
<1>1. ~DeleteTask(t)
  BY DEF DeleteTask, TypeOK, TasksTyped
<1>2. Kept(t) \/ Revised(t)
  BY <1>1, NextTasksMove DEF TasksMove
<1>3. rev[t] \in Nat /\ rev'[t] \in Nat /\ rev[t] <= rev'[t]
  BY <1>2 DEF Kept, Revised, TypeOK, TasksTyped
<1>4. tstat[t] # "deleted"
  BY <1>2 DEF Kept, Revised, StatusMoves, Exists
<1> QED
  BY <1>1, <1>3, <1>4

LEMMA AtMoved ==
  ASSUME TypeOK, [Next]_vars, NEW t \in Tasks, NEW b \in Nat, tstat[t] # "none",
         tstat[t] # "deleted" => b <= rev[t], tstat'[t] \notin {"none", "deleted"}, rev'[t] = b
  PROVE  At(t, b) /\ Kept(t)
<1>2. tstat[t] # "deleted" /\ rev[t] \in Nat /\ ~DeleteTask(t)
  BY RevisionsGrow
<1>3. Kept(t) \/ Revised(t)
  BY <1>2, NextTasksMove DEF TasksMove
<1>4. ~Revised(t)
  BY <1>2 DEF Revised
<1> QED
  BY <1>2, <1>3, <1>4 DEF At, Exists, Kept

-----------------------------------------------------------------------------
(* Previews: what can change them. *)

(* The worker that makes the preview p, and one that decides on it or      *)
(* applies it.                                                             *)
Makes(w, p) ==
  /\ Op(w) = p /\ Fenced(w) /\ wpc[w] \in {"opening", "commit"}
  /\ \/ OpenTask(w) /\ pstat'[p] = "draft" /\ pbase'[p] = rev[TaskOf[p]]
     \/ /\ SavePreview(w) /\ pbase'[p] = wbase[w] /\ pstat'[p] \in {"structure", "ready"}
        /\ (Kind[p] \in Compared => pstat'[p] = "ready")

Uses(w, p) ==
  /\ Src(w) = p /\ Decides(Op(w)) /\ Fenced(w) /\ wpc[w] \in {"commit", "label"}
  /\ pbase'[p] = pbase[p]
  /\ pstat'[p] = "applied" \/ Kind[p] = "inspect"

PreviewsMove == \A p \in Operations :
  \/ pstat'[p] = pstat[p] /\ pbase'[p] = pbase[p]
  \/ \E w \in Workers : Makes(w, p) \/ Uses(w, p)
  \/ DeleteTask(TaskOf[p])

Writes(w) == WriteStaged(w) \/ SavePreview(w)

FilesMove == \A p \in Operations :
  /\ \/ saw'[p] = saw[p]
     \/ \E w \in Workers : Op(w) = p /\ Writes(w) /\ saw'[p] = wrows[w]
     \/ DeleteTask(TaskOf[p])
  /\ \/ staged'[p] = staged[p]
     \/ \E w \in Workers : Src(w) = p /\ WriteStaged(w) /\ staged'[p] = Op(w)
     \/ DeleteTask(TaskOf[p])

LEMMA WorkPreviewsMove ==
  ASSUME TypeOK, Paths, NEW w \in Workers, Work(w)
  PROVE  PreviewsMove
<1>1. CASE UNCHANGED <<pstat, pbase>>
  BY <1>1 DEF PreviewsMove
<1>2. CASE OpenTask(w)
  <2>1. Op(w) \in Operations /\ wpc[w] = "opening"
    BY <1>2, WorksFor DEF OpenTask, TypeOK
  <2>2. CASE Kind[Op(w)] \in {"return", "inspect"}
    <3>1. /\ Fenced(w) /\ pstat' = [pstat EXCEPT ![Op(w)] = "draft"]
          /\ pbase' = [pbase EXCEPT ![Op(w)] = rev[TaskOf[Op(w)]]]
      BY <1>2, <2>2 DEF OpenTask, Base, Decides, MakesPreview
    <3> QED
      BY <1>2, <2>1, <3>1 DEF PreviewsMove, Makes, TypeOK, PreviewsTyped
  <2> QED
    BY <1>1, <1>2, <2>2 DEF OpenTask
<1>3. CASE SavePreview(w) /\ Does(w) = "flexible"
  <2>1. /\ Src(w) \in Operations /\ Kind[Src(w)] = "inspect" /\ Decides(Op(w))
    BY <1>3, WorksFor, OperationsAssumption DEF SavePreview, TypeOK, Src, Does, Decides
  <2>2. /\ Fenced(w) /\ wpc[w] = "commit" /\ \E status : pstat' = [pstat EXCEPT ![Src(w)] = status]
        /\ pbase' = [pbase EXCEPT ![Src(w)] = @]
    BY <1>3 DEF SavePreview, Does
  <2> QED
    BY <2>1, <2>2 DEF PreviewsMove, Uses, TypeOK, PreviewsTyped
<1>4. CASE SavePreview(w) /\ Does(w) # "flexible"
  <2>1. Op(w) \in Operations /\ MakesPreview(Op(w)) /\ wpc[w] = "commit" /\ Fenced(w)
    BY <1>4, WorksFor DEF SavePreview, TypeOK, Does
  <2>2. /\ pbase' = [pbase EXCEPT ![Op(w)] = wbase[w]]
        /\ \E status \in {"structure", "ready"} :
             /\ pstat' = [pstat EXCEPT ![Op(w)] = status]
             /\ Kind[Op(w)] \in Compared => status = "ready"
    BY <1>4 DEF SavePreview, Does, Compared
  <2>3. Makes(w, Op(w))
    BY <1>4, <2>1, <2>2 DEF Makes, TypeOK, PreviewsTyped
  <2> QED
    BY <2>1, <2>2, <2>3 DEF PreviewsMove, TypeOK, PreviewsTyped
<1>5. CASE CommitRecords(w) \/ LabelPreview(w)
  <2>1. wpc[w] \in {"commit", "label"} /\ Fenced(w) /\ pbase' = pbase
    BY <1>5 DEF CommitRecords, Commits, LabelPreview
  <2>2. pstat' = pstat \/ (pstat' = [pstat EXCEPT ![Src(w)] = "applied"] /\ Decides(Op(w)))
    BY <1>5 DEF CommitRecords, LabelPreview, Replaces, Decides, Paths, Does
  <2>3. Src(w) \in Operations
    BY <2>1, WorksFor DEF TypeOK
  <2> QED
    BY <2>1, <2>2, <2>3 DEF PreviewsMove, Uses, TypeOK, PreviewsTyped
<1> QED
  BY <1>1, <1>2, <1>3, <1>4, <1>5 DEF Work, Start, AlreadyApplied, ReadRows, CheckRevision,
     WriteStaged, LoadStaged, CommitAnalysis, CommitExport, Report, Generate, LabelTask, Generated,
     previewVars

LEMMA NextPreviewsMove ==
  ASSUME TypeOK, Paths, [Next]_vars
  PROVE  PreviewsMove
<1>1. CASE UNCHANGED previewVars
  BY <1>1 DEF previewVars, PreviewsMove
<1>2. ASSUME NEW t \in Tasks, DeleteTask(t) PROVE PreviewsMove
  BY <1>2 DEF DeleteTask, PreviewsMove
<1> QED
  BY <1>1, <1>2, Steps, WorkPreviewsMove DEF TaskStep, CreateTask, Parsed, ParseFailed,
     SetStatus, Cancel, Retry, ReopenMapping, atOnce, CreateOperation, LoseLease, Begin, Raise,
     Crash, vars

LEMMA NextFilesMove ==
  ASSUME TypeOK, [Next]_vars
  PROVE  FilesMove
<1>1. CASE UNCHANGED <<saw, staged>>
  BY <1>1 DEF FilesMove
<1>2. ASSUME NEW w \in Workers, Writes(w) PROVE FilesMove
  <2>1. Op(w) \in Operations /\ Src(w) \in Operations
    BY <1>2, WorksFor DEF Writes, WriteStaged, SavePreview, TypeOK
  <2>2. saw' = [saw EXCEPT ![Op(w)] = wrows[w]]
    BY <1>2 DEF Writes, WriteStaged, SavePreview
  <2>3. staged' = staged \/ (WriteStaged(w) /\ staged' = [staged EXCEPT ![Src(w)] = Op(w)])
    BY <1>2 DEF Writes, WriteStaged, SavePreview
  <2> QED
    BY <1>2, <2>1, <2>2, <2>3 DEF FilesMove, TypeOK, PreviewsTyped
<1>3. ASSUME NEW t \in Tasks, DeleteTask(t) PROVE FilesMove
  BY <1>3 DEF DeleteTask, FilesMove
<1>4. ASSUME NEW w \in Workers, Work(w) PROVE FilesMove
  BY <1>1, <1>2, <1>4 DEF Work, Writes, Start, OpenTask, AlreadyApplied, ReadRows, CheckRevision,
     LoadStaged, CommitRecords, CommitAnalysis, LabelPreview, CommitExport, Report, Generate,
     LabelTask, Generated, previewVars
<1> QED
  BY <1>1, <1>3, <1>4, Steps DEF TaskStep, CreateTask, Parsed, ParseFailed, SetStatus, Cancel,
     Retry, ReopenMapping, atOnce, CreateOperation, LoseLease, Begin, Raise, Crash, vars, previewVars

-----------------------------------------------------------------------------
(* The order of revisions. *)

LEMMA SourcePinned ==
  ASSUME TypeOK, Control, NEW p \in Operations, ostat[p] \in {"ready", "deleted"},
         NEW w \in Workers
  PROVE  ~Makes(w, p)
BY HolderIsOpen, NullAssumption DEF Control, Makes, Generating

LEMMA BasisKept ==
  ASSUME TypeOK, Control, [Next]_vars, NEW o \in Operations, ostat[o] # "none",
         tstat'[TaskOf[o]] # "deleted"
  PROVE  Basis(o)' = Basis(o)
<1>0. Source[o] \in Operations /\ TaskOf[o] \in Tasks /\ TaskOf[Source[o]] = TaskOf[o]
  BY OperationsAssumption
<1>1. ~DeleteTask(TaskOf[o])
  BY <1>0, RevisionsGrow
<1>2. CASE Decides(o)
  <2>1. ostat[Source[o]] \in {"ready", "deleted"}
    BY <1>2 DEF Control, SourcesDone
  <2>2. pbase'[Source[o]] = pbase[Source[o]]
    BY <1>0, <1>1, <2>1, SourcePinned, NextPreviewsMove DEF PreviewsMove, Uses, Control
  <2> QED
    BY <1>2, <2>2 DEF Basis, Decides
<1>3. CASE ~Decides(o)
  <2>1. Moved(o)
    BY OperationMoved DEF Control
  <2>2. base'[o] = base[o]
    BY <1>1, <2>1 DEF Moved
  <2> QED
    BY <1>3, <2>2 DEF Basis, Decides
<1> QED
  BY <1>2, <1>3

(* A worker in its body: it stayed, or it took one of these steps. *)
Body(w) ==
  OpenTask(w) \/ ReadRows(w) \/ CheckRevision(w) \/ WriteStaged(w) \/ LoadStaged(w)

LEMMA InBodySteps ==
  ASSUME TypeOK, [Next]_vars, NEW w \in Workers, wpc'[w] \in InBody
  PROVE  /\ Op(w)' = Op(w) /\ Task(w)' = Task(w) /\ wpc[w] # "idle"
         /\ \/ Stays(w)
            \/ /\ OpenTask(w) /\ wbase'[w] = Base(Op(w)) /\ wpc[w] = "opening"
               /\ wpc'[w] = AfterOpening(Op(w))
            \/ Body(w) /\ ~OpenTask(w) /\ wpc[w] \in InBody /\ wbase'[w] = wbase[w]
<1>1. Stays(w) \/ Body(w)
  <2>1. ASSUME NEW j \in Job, Begin(w, j) PROVE FALSE
    BY <2>1, BegunPaths DEF InBody
  <2>2. CASE Start(w) \/ AlreadyApplied(w) \/ (Generate(w) /\ Labels(w))
    BY <2>2 DEF Start, AlreadyApplied, Generate, Goto, InBody, TypeOK, WorkersTyped
  <2>3. CASE CommitRecords(w) \/ CommitAnalysis(w) \/ LabelPreview(w) \/ SavePreview(w)
             \/ CommitExport(w)
    BY <2>3 DEF CommitRecords, CommitAnalysis, LabelPreview, SavePreview, CommitExport, Goto, InBody,
       TypeOK, WorkersTyped
  <2> QED
    BY <2>1, <2>2, <2>3, NextWorkersMove DEF WorkersMove, Advances, Body, InBody
<1>2. CASE Stays(w)
  BY <1>2 DEF Stays, Op, Task, InBody
<1>3. CASE Body(w)
  <2>1. wjob'[w] = wjob[w] /\ wpc[w] # "idle"
    BY <1>3 DEF Body, OpenTask, ReadRows, CheckRevision, WriteStaged, LoadStaged, readVars
  <2>2. CASE OpenTask(w)
    BY <2>1, <2>2 DEF OpenTask, Op, Task, Goto, TypeOK, WorkersTyped
  <2>3. CASE ~OpenTask(w)
    BY <1>3, <2>1, <2>3 DEF Body, ReadRows, CheckRevision, WriteStaged, LoadStaged, readVars, Op,
       Task, InBody
  <2> QED
    BY <2>2, <2>3
<1> QED
  BY <1>1, <1>2, <1>3

LEMMA OrderKept ==
  ASSUME TypeOK, Control, Order, [Next]_vars
  PROVE  Order'
<1>1. ASSUME NEW o \in Operations, tstat'[TaskOf[o]] # "deleted"
      PROVE  /\ base'[o] <= rev'[TaskOf[o]] /\ pbase'[o] <= rev'[TaskOf[o]]
             /\ xrev'[o] <= rev'[TaskOf[o]]
  <2> DEFINE t == TaskOf[o]
  <2>0. t \in Tasks
    BY OperationsAssumption
  <2>1. /\ tstat[t] # "deleted" /\ rev[t] \in Nat /\ rev'[t] \in Nat /\ rev[t] <= rev'[t]
        /\ ~DeleteTask(t)
    BY <1>1, <2>0, RevisionsGrow
  <2>2. /\ base[o] \in Nat /\ pbase[o] \in Nat /\ xrev[o] \in Nat
        /\ base[o] <= rev[t] /\ pbase[o] <= rev[t] /\ xrev[o] <= rev[t]
    BY <2>1 DEF Order, TypeOK, OperationsTyped, PreviewsTyped, ExportsTyped
  <2>3. base'[o] = base[o] \/ base'[o] = rev[t]
    BY <2>1, OperationMoved DEF Moved, Control
  <2>4. pbase'[o] = pbase[o] \/ pbase'[o] \in 0..rev[t]
    <3>1. ASSUME NEW w \in Workers, Makes(w, o) PROVE pbase'[o] \in 0..rev[t]
      <4>1. CASE wpc[w] = "commit"
        <5>1. wbase[w] <= rev[t] /\ wbase[w] \in Nat
          BY <2>1, <3>1, <4>1 DEF Makes, Order, InBody, Task, TypeOK, WorkersTyped
        <5>2. pbase'[o] = wbase[w]
          BY <3>1, <4>1 DEF Makes, OpenTask
        <5> QED
          BY <2>1, <5>1, <5>2
      <4>2. CASE wpc[w] = "opening"
        BY <2>1, <3>1, <4>2 DEF Makes, SavePreview
      <4> QED
        BY <3>1, <4>1, <4>2 DEF Makes
    <3> QED
      BY <2>1, <3>1, NextPreviewsMove DEF PreviewsMove, Uses, Control
  <2>5. xrev'[o] = xrev[o] \/ xrev'[o] \in 0..rev[t]
    <3>1. ASSUME NEW w \in Workers, Op(w) = o, xstat[o] = "none", CommitExport(w)
          PROVE  xrev'[o] \in 0..rev[t]
      <4>1. wbase[w] <= rev[t] /\ wbase[w] \in Nat
        BY <2>1, <3>1 DEF CommitExport, Order, InBody, Task, TypeOK, WorkersTyped
      <4>2. xrev'[o] = wbase[w]
        BY <3>1 DEF CommitExport, TypeOK, ExportsTyped
      <4> QED
        BY <2>1, <4>1, <4>2
    <3>2. ASSUME NEW w \in Workers, Op(w) = o, LabelTask(w) PROVE xrev'[o] = xrev[o]
      BY <3>2 DEF LabelTask, Generated
    <3>3. \A w \in Workers : wpc[w] = "generating" => wjob[w][2] = "generate"
      BY GeneratingJobs DEF Generating, Control
    <3> QED
      BY <2>1, <3>1, <3>2, <3>3, NextExportsMove DEF ExportsMove
  <2> QED
    BY <2>1, <2>2, <2>3, <2>4, <2>5
<1>2. ASSUME NEW w \in Workers, wpc'[w] \in InBody, tstat'[Task(w)'] # "deleted"
      PROVE  wbase'[w] <= rev'[Task(w)']
  <2>0. /\ Op(w)' = Op(w) /\ Task(w)' = Task(w) /\ wpc[w] # "idle"
    BY <1>2, InBodySteps
  <2>1. Op(w) \in Operations /\ Task(w) \in Tasks /\ Src(w) \in Operations /\ TaskOf[Src(w)] = Task(w)
    BY <2>0, WorksFor DEF TypeOK
  <2>2. /\ tstat[Task(w)] # "deleted" /\ rev[Task(w)] \in Nat /\ rev'[Task(w)] \in Nat
        /\ rev[Task(w)] <= rev'[Task(w)]
    BY <1>2, <2>0, <2>1, RevisionsGrow
  <2>3. (wbase'[w] = wbase[w] /\ wpc[w] \in InBody) \/ wbase'[w] = Base(Op(w))
    BY <1>2, InBodySteps DEF Stays
  <2>4. Base(Op(w)) \in Nat /\ Base(Op(w)) <= rev[Task(w)]
    BY <2>1, <2>2 DEF Base, Order, Src, Task, TypeOK, OperationsTyped, PreviewsTyped
  <2>5. wbase[w] \in Nat
    BY DEF TypeOK, WorkersTyped
  <2>6. wpc[w] \in InBody => wbase[w] <= rev[Task(w)]
    BY <2>2 DEF Order
  <2> QED
    BY <2>0, <2>2, <2>3, <2>4, <2>5, <2>6
<1> QED
  BY <1>1, <1>2 DEF Order

LEMMA WorkersBaseKept ==
  ASSUME TypeOK, Control, WorkersBase, [Next]_vars
  PROVE  WorkersBase'
<1> SUFFICES ASSUME NEW w \in Workers, wpc'[w] \in InBody, tstat'[Task(w)'] # "deleted",
                    HasBasis(Op(w)')
             PROVE  wbase'[w] = Basis(Op(w))'
  BY DEF WorkersBase, HasBasis, MakesPreview
<1>0. /\ Op(w)' = Op(w) /\ Task(w)' = Task(w) /\ wpc[w] # "idle"
  BY InBodySteps
<1>1. Op(w) \in Operations /\ Task(w) \in Tasks /\ ostat[Op(w)] # "none"
  BY <1>0, WorksFor DEF TypeOK, Control, Paths
<1>2. Basis(Op(w))' = Basis(Op(w)) /\ tstat[Task(w)] # "deleted"
  <2>1. \A o \in Operations : ostat[o] # "none" /\ tstat'[TaskOf[o]] # "deleted" =>
          Basis(o)' = Basis(o)
    BY BasisKept
  <2> QED
    BY <1>0, <1>1, <2>1, RevisionsGrow DEF Task, Basis, Decides
<1>3. (wbase'[w] = wbase[w] /\ wpc[w] \in InBody) \/ wbase'[w] = Base(Op(w))
  BY InBodySteps DEF Stays
<1>4. Base(Op(w)) = Basis(Op(w))
  BY <1>0 DEF Base, Basis, HasBasis
<1> QED
  BY <1>0, <1>2, <1>3, <1>4 DEF WorkersBase

-----------------------------------------------------------------------------
(* The worker that labels, and the records of a task.                      *)

LEMMA LabellingAlone ==
  ASSUME TypeOK, Control, Labelling, NEW v \in Workers, NEW w \in Workers,
         wpc[v] = "labelling", wpc[w] = "labelling", Op(v) = Op(w)
  PROVE  v = w
<1>1. wjob[v] = wjob[w]
  BY WorksFor, GeneratingJobs, Jobs DEF Op, Control, Generating, TypeOK
<1> QED
  BY <1>1 DEF Labelling, Fenced

LEMMA LabellingKept ==
  ASSUME TypeOK, Control, Order, Labelling, [Next]_vars
  PROVE  Labelling'
<1> SUFFICES ASSUME NEW w \in Workers, wpc'[w] = "labelling"
             PROVE  /\ Fenced(w)' /\ xstat'[Op(w)'] = "processing" /\ xrev'[Op(w)'] = wbase'[w]
                    /\ At(Task(w), wbase[w])' => tstat'[Task(w)'] \in {"ready", "completed"}
  BY DEF Labelling
<1>1. CASE Stays(w)
  <2> DEFINE o == Op(w)
             t == Task(w)
  <2>0. /\ wpc[w] = "labelling" /\ Op(w)' = o /\ Task(w)' = t /\ wbase'[w] = wbase[w]
        /\ wjob'[w] = wjob[w]
    BY <1>1 DEF Stays, Op, Task
  <2>1. /\ o \in Operations /\ t \in Tasks /\ TaskOf[o] = t /\ wjob[w] \in Job
        /\ wjob[w] = <<o, "generate">> /\ wjob[w][1] = o
    BY <2>0, WorksFor, GeneratingJobs, Jobs DEF Op, Task, TypeOK, Control, Generating
  <2>2. Fenced(w) /\ xstat[o] = "processing" /\ xrev[o] = wbase[w]
    BY <2>0 DEF Labelling
  <2>3. ~DeleteTask(t)
    BY <2>0, <2>1 DEF DeleteTask
  <2>4. holder'[wjob[w]] = w
    <3>1. ~LoseLease(wjob[w])
      BY <2>0 DEF LoseLease
    <3>2. ASSUME NEW v \in Workers, wpc'[v] = "idle", wjob[v] = wjob[w], Fenced(v) \/ LabelTask(v)
          PROVE FALSE
      <4>1. v = w
        BY <2>0, <2>2, <3>2, LabellingAlone DEF Fenced, LabelTask, Op
      <4> QED
        BY <1>1, <2>0, <3>2, <4>1 DEF Stays
    <3>3. ASSUME NEW v \in Workers, Begin(v, wjob[w]) PROVE FALSE
      BY <2>2, <3>3, NullAssumption DEF Begin, Fenced
    <3>4. ~Frees(wjob[w])
      BY <2>1, <2>3, <3>1, <3>2 DEF Frees
    <3> QED
      BY <2>1, <2>2, <3>3, <3>4, NextHoldersMove DEF HoldersMove, Fenced
  <2>5. xstat'[o] = "processing" /\ xrev'[o] = xrev[o]
    <3>1. ASSUME NEW v \in Workers, Op(v) = o, LabelTask(v) PROVE FALSE
      <4>1. v = w
        BY <2>0, <3>1, LabellingAlone DEF LabelTask
      <4>2. wpc'[w] = "idle"
        BY <3>1, <4>1 DEF LabelTask, Generated, Leave, Goto, TypeOK, WorkersTyped
      <4> QED
        BY <1>1, <2>0, <4>2 DEF Stays
    <3>2. ASSUME NEW j \in Job, j[1] = o, j[2] = "generate", holder'[j] = NoWorker PROVE FALSE
      BY <2>1, <2>4, <3>2, Jobs, NullAssumption
    <3>3. \A v \in Workers : wpc[v] = "generating" => wjob[v][2] = "generate"
      BY GeneratingJobs DEF Generating, Control
    <3> QED
      BY <2>1, <2>2, <2>3, <3>1, <3>2, <3>3, NextExportsMove DEF ExportsMove
  <2>6. ASSUME tstat'[t] \notin {"none", "deleted"}, rev'[t] = wbase[w] PROVE tstat'[t] \in {"ready", "completed"}
    <3>1. Exists(t)
      BY <2>1, <2>2 DEF Control, ExportsBelong
    <3>2. wbase[w] \in Nat /\ wbase[w] <= rev[t]
      BY <2>1, <2>2, <3>1 DEF Order, TypeOK, WorkersTyped, Exists
    <3>3. tstat[t] # "none"
      BY <3>1 DEF Exists
    <3>4. At(t, wbase[w]) /\ Kept(t)
      BY <2>1, <2>6, <3>2, <3>3, AtMoved
    <3> QED
      BY <2>0, <3>4 DEF Kept, StatusMoves, Labelling
  <2> QED
    BY <2>0, <2>2, <2>4, <2>5, <2>6 DEF Fenced, At, Exists
<1>2. CASE ~Stays(w)
  <2>1. Generate(w) /\ Labels(w)
    <3>1. ASSUME NEW j \in Job, Begin(w, j) PROVE FALSE
      BY <3>1, BegunPaths
    <3>2. Advances(w)
      BY <1>2, <3>1, NextWorkersMove DEF WorkersMove
    <3>3. wpc[w] # "generating" => wpc'[w] # "labelling"
      BY <3>2, WorksFor, NextPc DEF Advances, Start, OpenTask, AlreadyApplied, ReadRows,
         CheckRevision, WriteStaged, LoadStaged, CommitRecords, CommitAnalysis, LabelPreview,
         SavePreview, CommitExport, Generate, Goto, TypeOK, WorkersTyped
    <3> QED
      BY <3>2, <3>3 DEF Advances, Start, OpenTask, AlreadyApplied, ReadRows, CheckRevision,
         WriteStaged, LoadStaged, CommitRecords, CommitAnalysis, Commits, LabelPreview,
         SavePreview, CommitExport
  <2>2. wjob'[w] = wjob[w] /\ wbase'[w] = rev[Task(w)] /\ holder' = holder /\ UNCHANGED <<tstat, xstat, xrev>>
    BY <2>1 DEF Generate, jobVars, exportVars, taskVars, TypeOK, WorkersTyped
  <2> QED
    BY <2>1, <2>2 DEF Generate, Labels, Fenced, Op, Task
<1> QED
  BY <1>1, <1>2

LEMMA UnmappedKept ==
  ASSUME TypeOK, UnmappedEmpty, [Next]_vars
  PROVE  UnmappedEmpty'
<1> SUFFICES ASSUME NEW t \in Tasks, tstat'[t] \in Unmapped PROVE rows'[t] = {}
  BY DEF UnmappedEmpty
<1>1. CASE Kept(t)
  BY <1>1 DEF Kept, StatusMoves, Unmapped, UnmappedEmpty
<1>2. CASE DeleteTask(t)
  BY <1>2 DEF DeleteTask, TypeOK, TasksTyped
<1>3. CASE Revised(t) /\ ~Kept(t)
  <2>1. ASSUME NEW u \in Tasks, TaskStep(u) PROVE rows'[t] = {}
    <3>1. u = t
      BY <1>3, <2>1 DEF TaskStep, CreateTask, Parsed, ParseFailed, SetStatus, Cancel, Retry,
         ReopenMapping, KeepRecords, Revise, Kept, TypeOK, TasksTyped
    <3>2. CASE CreateTask(t) \/ Parsed(t) \/ ParseFailed(t)
      BY <1>3, <3>2 DEF CreateTask, Parsed, ParseFailed, SetStatus, Revised, TypeOK, TasksTyped
    <3>3. CASE Cancel(t) \/ Retry(t)
      BY <3>3 DEF Cancel, Retry, KeepRecords, Revise, UnmappedEmpty, Unmapped, TypeOK, TasksTyped
    <3>4. CASE ReopenMapping(t)
      BY <3>4 DEF ReopenMapping, Revise, TypeOK, TasksTyped
    <3> QED
      BY <2>1, <3>1, <3>2, <3>3, <3>4 DEF TaskStep
  <2>2. ASSUME NEW w \in Workers, CommitRecords(w) PROVE rows'[t] = {}
    <3>1. (tstat'[t] = tstat[t] /\ rows'[t] = rows[t]) \/ tstat'[t] \in {"maintenance", "ready"}
      BY <2>2 DEF CommitRecords, Revise, TypeOK, TasksTyped
    <3> QED
      BY <3>1 DEF Unmapped, UnmappedEmpty
  <2>3. ASSUME NEW w \in Workers, CommitAnalysis(w) PROVE rows'[t] = {}
    <3>1. rows'[t] = rows[t] /\ (tstat'[t] = tstat[t] \/ tstat[t] = "mapping")
      BY <2>3 DEF CommitAnalysis, KeepRecords, Revise, TypeOK, TasksTyped
    <3> QED
      BY <3>1 DEF Unmapped, UnmappedEmpty
  <2>4. ~UNCHANGED <<rev, rows>>
    BY <1>3 DEF Revised, TypeOK, TasksTyped
  <2>5. ASSUME NEW u \in Tasks, DeleteTask(u) PROVE FALSE
    BY <1>3, <2>5 DEF DeleteTask, Revised, Kept, TypeOK, TasksTyped
  <2> QED
    BY <2>1, <2>2, <2>3, <2>4, <2>5, Steps DEF CreateOperation, LoseLease, Begin, Raise, Crash,
       vars, taskVars, Work, Start, OpenTask, AlreadyApplied, ReadRows, CheckRevision, WriteStaged,
       LoadStaged, LabelPreview, SavePreview, CommitExport, Report, Generate, LabelTask, Generated
<1> QED
  BY <1>1, <1>2, <1>3, NextTasksMove DEF TasksMove

LEMMA PastKept ==
  ASSUME TypeOK, PastIsRows, [Next]_vars
  PROVE  PastIsRows'
<1> SUFFICES ASSUME NEW t \in Tasks PROVE past'[t][rev'[t]] = rows'[t]
  BY DEF PastIsRows
<1>1. CASE Kept(t)
  BY <1>1 DEF Kept, PastIsRows
<1>2. CASE Revised(t)
  BY <1>2, BoundsAssumption DEF Revised, TypeOK, TasksTyped
<1>3. CASE DeleteTask(t)
  BY <1>3, BoundsAssumption DEF DeleteTask, TypeOK, TasksTyped
<1> QED
  BY <1>1, <1>2, <1>3, NextTasksMove DEF TasksMove

-----------------------------------------------------------------------------
(* What was read.  All of these speak of a worker in its body, so the      *)
(* revision it works on is not ahead of the task's, and AtMoved applies.   *)

LEMMA AtInBody ==
  ASSUME TypeOK, Control, Order, [Next]_vars, NEW w \in Workers, wpc[w] \in InBody,
         tstat'[Task(w)] \notin {"none", "deleted"}, rev'[Task(w)] = wbase[w]
  PROVE  At(Task(w), wbase[w]) /\ Kept(Task(w))
<1>0. PICK t \in Tasks, b \in Nat : t = Task(w) /\ b = wbase[w]
  BY WorksFor DEF InBody, TypeOK, WorkersTyped
<1>1. tstat[t] # "none"
  BY <1>0, WorksFor DEF Control, Paths, Belonging, InBody, Task, TypeOK
<1>2. tstat[t] # "deleted" => b <= rev[t]
  BY <1>0 DEF Order
<1>3. tstat'[t] \notin {"none", "deleted"} /\ rev'[t] = b
  BY <1>0
<1>4. At(t, b) /\ Kept(t)
  BY <1>1, <1>2, <1>3, AtMoved
<1> QED
  BY <1>0, <1>4

LEMMA CommitsWhatItRead ==
  ASSUME TypeOK, UnmappedEmpty, Confirming, RowsRead, NEW w \in Workers, CommitRecords(w)
  PROVE  /\ Does(w) = "confirm" => rows[Task(w)] = {}
         /\ Does(w) # "confirm" => wrows[w] = rows[Task(w)]
         /\ NewRecords(w) = NewCounted(w) /\ rows[Task(w)] \subseteq NewRecords(w)
<1>0. /\ wpc[w] = "commit" /\ At(Task(w), wbase[w]) /\ Task(w) \in Tasks
      /\ Does(w) \in {"confirm", "edit", "apply_return", "apply_names"}
  BY WorksFor DEF CommitRecords, Commits, TypeOK
<1>1. Does(w) = "confirm" => rows[Task(w)] = {}
  BY <1>0 DEF Confirming, InBody, UnmappedEmpty, Unmapped
<1>2. Does(w) # "confirm" => wrows[w] = rows[Task(w)]
  BY <1>0 DEF RowsRead, HasRead
<1> QED
  BY <1>0, <1>1, <1>2 DEF NewRecords, NewCounted, Replaces, Does

LEMMA CountedKept ==
  ASSUME TypeOK, UnmappedEmpty, Counted, Confirming, RowsRead, [Next]_vars
  PROVE  Counted'
<1> SUFFICES ASSUME NEW t \in Tasks PROVE counted'[t] = rows'[t]
  BY DEF Counted
<1>0. counted[t] = rows[t]
  BY DEF Counted
<1>1. CASE UNCHANGED <<rows, counted>>
  BY <1>0, <1>1
<1>2. ASSUME NEW u \in Tasks, TaskStep(u) PROVE counted'[t] = rows'[t]
  BY <1>0, <1>2 DEF TaskStep, CreateTask, Parsed, ParseFailed, SetStatus, Cancel, Retry,
     ReopenMapping, KeepRecords, Revise, Counted, TypeOK, TasksTyped
<1>3. ASSUME NEW u \in Tasks, DeleteTask(u) PROVE counted'[t] = rows'[t]
  BY <1>0, <1>3 DEF DeleteTask, TypeOK, TasksTyped
<1>4. ASSUME NEW w \in Workers, CommitRecords(w) PROVE counted'[t] = rows'[t]
  <2>1. NewRecords(w) = NewCounted(w)
    BY <1>4, CommitsWhatItRead
  <2>2. /\ rows' = [rows EXCEPT ![Task(w)] = NewRecords(w)]
        /\ counted' = [counted EXCEPT ![Task(w)] = NewCounted(w)]
    BY <1>4 DEF CommitRecords, Revise
  <2> QED
    BY <1>0, <2>1, <2>2 DEF TypeOK, TasksTyped
<1>5. ASSUME NEW w \in Workers, CommitAnalysis(w) PROVE counted'[t] = rows'[t]
  BY <1>0, <1>5 DEF CommitAnalysis, KeepRecords, Revise, Counted, TypeOK, TasksTyped
<1> QED
  BY <1>1, <1>2, <1>3, <1>4, <1>5, Steps DEF CreateOperation, LoseLease, Begin, Raise, Crash,
     vars, taskVars, Work, Start, OpenTask, AlreadyApplied, ReadRows, CheckRevision, WriteStaged,
     LoadStaged, LabelPreview, SavePreview, CommitExport, Report, Generate, LabelTask, Generated

LEMMA ConfirmingKept ==
  ASSUME TypeOK, Control, Order, Labelling, Confirming, [Next]_vars
  PROVE  Confirming'
<1> SUFFICES ASSUME NEW w \in Workers, wpc'[w] \in InBody, Kind[Op(w)'] = "confirm",
                    tstat'[Task(w)'] \notin {"none", "deleted"}, rev'[Task(w)'] = wbase'[w]
             PROVE  tstat'[Task(w)'] = "mapping"
  BY DEF Confirming, Does, At, Exists
<1>0. /\ Op(w)' = Op(w) /\ Task(w)' = Task(w) /\ wpc[w] # "idle" /\ Task(w) \in Tasks
      /\ Op(w) \in Operations /\ Task(w) = TaskOf[Op(w)] /\ Does(w) = "confirm"
  BY InBodySteps, WorksFor DEF TypeOK, Does, Task
<1>1. CASE Stays(w)
  <2>1. At(Task(w), wbase[w]) /\ Kept(Task(w)) /\ wpc[w] \in InBody
    BY <1>0, <1>1, AtInBody DEF Stays
  <2>2. tstat[Task(w)] = "mapping"
    BY <1>0, <2>1 DEF Confirming
  <2>3. ASSUME NEW v \in Workers, Task(v) = Task(w), LabelTask(v) PROVE FALSE
    BY <2>2, <2>3 DEF LabelTask, Labelling
  <2> QED
    BY <1>0, <2>1, <2>2, <2>3 DEF Kept, StatusMoves
<1>2. CASE OpenTask(w)
  <2>1. xstat[Op(w)] = "none"
    BY <1>0 DEF Control, ExportsBelong, Does
  <2> QED
    BY <1>0, <1>2, <2>1 DEF OpenTask, Opens, StatusAllowed, Does, taskVars
<1>3. CASE Body(w) /\ ~OpenTask(w)
  <2>1. UNCHANGED <<tstat, rev>> /\ wbase'[w] = wbase[w] /\ wpc[w] \in InBody
    BY <1>3 DEF Body, ReadRows, CheckRevision, WriteStaged, LoadStaged, taskVars, readVars, InBody
  <2> QED
    BY <1>0, <2>1 DEF Confirming, At, Exists
<1> QED
  BY <1>1, <1>2, <1>3, InBodySteps

LEMMA RowsReadKept ==
  ASSUME TypeOK, Control, Order, WorkersBase, RowsRead, StagedIsBase, [Next]_vars
  PROVE  RowsRead'
<1> SUFFICES ASSUME NEW w \in Workers, HasRead(w)', wpc'[w] \in InBody,
                    tstat'[Task(w)'] \notin {"none", "deleted"}, rev'[Task(w)'] = wbase'[w]
             PROVE  wrows'[w] = rows'[Task(w)']
  BY DEF RowsRead, HasRead, InBody, At, Exists
<1>0. /\ Op(w)' = Op(w) /\ Task(w)' = Task(w) /\ wpc[w] # "idle" /\ Task(w) \in Tasks
      /\ Op(w) \in Operations /\ Does(w) \in Kinds /\ Task(w) = TaskOf[Op(w)] /\ Does(w)' = Does(w)
  BY InBodySteps, WorksFor DEF TypeOK, Does, Task
<1>1. \/ wpc'[w] = "commit" /\ Does(w) \notin {"confirm", "analyze", "inspect"}
      \/ /\ wpc'[w] \in {"checking", "staging"} /\ Does(w) \notin {"confirm", "return", "inspect"}
         /\ ~Replaces(Op(w))
  BY <1>0 DEF HasRead, Replaces
<1>2. CASE Stays(w)
  <2>1. At(Task(w), wbase[w]) /\ Kept(Task(w)) /\ wpc[w] \in InBody
    BY <1>0, <1>2, AtInBody DEF Stays
  <2>2. HasRead(w)
    BY <1>1, <1>2 DEF HasRead, Stays
  <2> QED
    BY <1>0, <1>2, <2>1, <2>2 DEF RowsRead, Kept, Stays
<1>3. CASE OpenTask(w) /\ wpc'[w] = AfterOpening(Op(w))
  BY <1>1, <1>3, <1>0 DEF AfterOpening, Replaces, Does, Kinds
<1>4. CASE ReadRows(w)
  BY <1>0, <1>4 DEF ReadRows, taskVars, TypeOK, WorkersTyped
<1>5. CASE CheckRevision(w)
  <2>1. /\ wpc[w] = "checking" /\ wpc'[w] = AfterChecking(Op(w)) /\ UNCHANGED <<tstat, rev, rows>>
        /\ wbase'[w] = wbase[w] /\ wrows'[w] = wrows[w] /\ At(Task(w), wbase[w])
    BY <1>5 DEF CheckRevision, Goto, taskVars, readVars, TypeOK, WorkersTyped
  <2>2. HasRead(w)
    BY <1>0, <1>1, <2>1 DEF AfterChecking, HasRead, Does, Replaces
  <2> QED
    BY <1>0, <2>1, <2>2 DEF RowsRead
<1>6. CASE WriteStaged(w)
  <2>1. /\ wpc[w] = "staging" /\ UNCHANGED <<tstat, rev, rows, wbase, wrows>>
    BY <1>6 DEF WriteStaged, taskVars, readVars
  <2>2. Does(w) = "flexible"
    BY <2>1 DEF Control, Paths
  <2>3. HasRead(w)
    BY <2>1, <2>2 DEF HasRead, Replaces, Does
  <2> QED
    BY <1>0, <2>1, <2>3 DEF RowsRead, At, Exists
<1>7. CASE LoadStaged(w)
  <2>1. /\ wpc[w] = "loading" /\ UNCHANGED <<tstat, rev, rows, wbase>> /\ staged[Src(w)] # NoOperation
        /\ wrows'[w] = saw[staged[Src(w)]]
    BY <1>7 DEF LoadStaged, taskVars, TypeOK, WorkersTyped
  <2>2. Does(w) = "apply_return"
    BY <2>1 DEF Control, Paths, Replaces, Does
  <2>3. Src(w) \in Operations /\ TaskOf[Src(w)] = Task(w)
    BY <1>0, WorksFor DEF TypeOK
  <2>4. wbase[w] = pbase[Src(w)]
    BY <1>0, <2>1, <2>2 DEF WorkersBase, InBody, HasBasis, MakesPreview, Basis, Decides, Does, Src
  <2>5. At(TaskOf[Src(w)], pbase[Src(w)])
    BY <1>0, <2>1, <2>3, <2>4 DEF At, Exists
  <2> QED
    BY <1>0, <2>1, <2>3, <2>5 DEF StagedIsBase
<1> QED
  BY <1>2, <1>3, <1>4, <1>5, <1>6, <1>7, InBodySteps DEF Body

-----------------------------------------------------------------------------
(* Previews. *)

LEMMA PinnedPreview ==
  ASSUME TypeOK, Control, [Next]_vars, NEW p \in Operations, ostat[p] \in {"ready", "deleted"},
         tstat'[TaskOf[p]] # "deleted"
  PROVE  /\ pbase'[p] = pbase[p] /\ ostat'[p] = ostat[p]
         /\ pstat'[p] = pstat[p] \/ pstat'[p] = "applied" \/ Kind[p] = "inspect"
<1>0. ~DeleteTask(TaskOf[p])
  BY OperationsAssumption, RevisionsGrow
<1>1. Moved(p)
  BY OperationMoved DEF Control
<1> QED
  BY <1>0, <1>1, SourcePinned, NextPreviewsMove DEF PreviewsMove, Uses, Control, Moved

LEMMA WritesRows ==
  ASSUME TypeOK, Control, RowsRead, NEW w \in Workers, Writes(w), At(Task(w), wbase[w]),
         Does(w) # "inspect"
  PROVE  wrows[w] = rows[Task(w)]
<1>1. CASE WriteStaged(w)
  BY <1>1 DEF WriteStaged, RowsRead, HasRead, Replaces, Control, Paths, Does
<1>2. CASE SavePreview(w)
  BY <1>2 DEF SavePreview, RowsRead, HasRead, MakesPreview, Does
<1> QED
  BY <1>1, <1>2 DEF Writes

LEMMA StagedFromKept ==
  ASSUME TypeOK, Control, StagedFrom, [Next]_vars
  PROVE  StagedFrom'
<1> SUFFICES ASSUME NEW p \in Operations, staged'[p] # NoOperation
             PROVE  /\ ostat'[p] \in {"ready", "deleted"} /\ Kind[staged'[p]] = "flexible"
                    /\ Source[staged'[p]] = p
  BY DEF StagedFrom
<1>1. ~DeleteTask(TaskOf[p])
  BY DEF DeleteTask, TypeOK, PreviewsTyped
<1>2. Moved(p)
  BY OperationMoved DEF Control
<1>3. CASE staged'[p] = staged[p]
  BY <1>1, <1>2, <1>3 DEF StagedFrom, Moved
<1>4. ASSUME NEW w \in Workers, Src(w) = p, WriteStaged(w), staged'[p] = Op(w)
      PROVE  /\ ostat'[p] \in {"ready", "deleted"} /\ Kind[Op(w)] = "flexible" /\ Source[Op(w)] = p
  <2>1. wpc[w] # "idle" /\ Does(w) = "flexible" /\ ostat[Op(w)] # "none" /\ Op(w) \in Operations
    BY <1>4, WorksFor DEF WriteStaged, Control, Paths, TypeOK
  <2>2. ostat[p] \in {"ready", "deleted"}
    BY <1>4, <2>1 DEF Control, SourcesDone, Decides, Does, Src
  <2> QED
    BY <1>4, <2>1, <2>2 DEF WriteStaged, Does, Src
<1> QED
  BY <1>1, <1>3, <1>4, NextFilesMove DEF FilesMove

LEMMA StagedIsBaseKept ==
  ASSUME TypeOK, Control, Order, WorkersBase, RowsRead, StagedFrom, StagedIsBase, [Next]_vars
  PROVE  StagedIsBase'
<1> SUFFICES ASSUME NEW p \in Operations, staged'[p] # NoOperation,
                    tstat'[TaskOf[p]] \notin {"none", "deleted"}, rev'[TaskOf[p]] = pbase'[p]
             PROVE  saw'[staged'[p]] = rows'[TaskOf[p]]
  BY DEF StagedIsBase, At, Exists
<1>0. PICK q \in Operations : q = staged'[p]
  BY NextTyped DEF TypeOK, PreviewsTyped
<1>1. StagedFrom'
  BY StagedFromKept
<1>2. /\ ostat'[p] \in {"ready", "deleted"} /\ Kind[q] = "flexible" /\ Source[q] = p
      /\ TaskOf[q] = TaskOf[p] /\ TaskOf[p] \in Tasks /\ ~DeleteTask(TaskOf[p])
  BY <1>0, <1>1, OperationsAssumption, RevisionsGrow DEF StagedFrom
<1>3. ASSUME NEW w \in Workers, Op(w) = q, Writes(w) PROVE wrows[w] = rows'[TaskOf[p]]
  <2>1. /\ wpc[w] \in InBody /\ Does(w) = "flexible" /\ ostat[q] # "none" /\ Src(w) = p
        /\ Task(w) = TaskOf[p] /\ UNCHANGED <<tstat, rev, rows, ostat>>
    BY <1>2, <1>3 DEF Writes, WriteStaged, SavePreview, taskVars, InBody, Does, Src, Task, Control, Paths
  <2>2. pbase'[p] = pbase[p]
    <3>1. ostat[p] \in {"ready", "deleted"}
      BY <1>2, <2>1
    <3> QED
      BY <3>1, PinnedPreview
  <2>3. wbase[w] = pbase[p]
    BY <1>3, <2>1 DEF WorkersBase, HasBasis, MakesPreview, Basis, Decides, Does, Src
  <2>4. At(Task(w), wbase[w])
    BY <2>1, <2>2, <2>3 DEF At, Exists
  <2> QED
    BY <1>3, <2>1, <2>4, WritesRows
<1>4. CASE staged'[p] = staged[p] /\ saw'[q] = saw[q]
  <2>1. ostat[p] \in {"ready", "deleted"}
    BY <1>0, <1>4 DEF StagedFrom
  <2>2. pbase'[p] = pbase[p]
    BY <2>1, PinnedPreview
  <2>3. tstat[TaskOf[p]] # "none" /\ (tstat[TaskOf[p]] # "deleted" => pbase[p] <= rev[TaskOf[p]])
        /\ pbase[p] \in Nat
    BY <2>1 DEF Control, Belonging, Order, TypeOK, PreviewsTyped
  <2>4. At(TaskOf[p], pbase[p]) /\ Kept(TaskOf[p])
    BY <1>2, <2>2, <2>3, AtMoved
  <2> QED
    BY <1>0, <1>4, <2>4 DEF StagedIsBase, Kept
<1>5. CASE staged'[p] = staged[p] /\ saw'[q] # saw[q]
  BY <1>0, <1>2, <1>3, <1>5, NextFilesMove DEF FilesMove
<1>6. CASE staged'[p] # staged[p]
  <2>1. PICK w \in Workers : Src(w) = p /\ WriteStaged(w) /\ staged'[p] = Op(w)
    BY <1>2, <1>6, NextFilesMove DEF FilesMove
  <2>2. saw'[q] = wrows[w]
    BY <1>0, <2>1 DEF WriteStaged, TypeOK, PreviewsTyped
  <2> QED
    BY <1>0, <1>3, <2>1, <2>2 DEF Writes
<1> QED
  BY <1>4, <1>5, <1>6

LEMMA PreviewsBelongKept ==
  ASSUME TypeOK, Control, PreviewsBelong, [Next]_vars
  PROVE  PreviewsBelong'
<1> SUFFICES ASSUME NEW p \in Operations, pstat'[p] # "none" PROVE ostat[p] # "none"
  BY RequestedStays DEF PreviewsBelong, Control
<1>1. ASSUME NEW w \in Workers, Makes(w, p) PROVE ostat[p] # "none"
  BY <1>1 DEF Makes, Control, Paths
<1>2. ASSUME NEW w \in Workers, Uses(w, p) PROVE ostat[p] # "none"
  <2>1. wpc[w] # "idle" /\ Op(w) \in Operations /\ ostat[Op(w)] # "none" /\ Source[Op(w)] = p
    BY <1>2, WorksFor DEF Uses, TypeOK, Control, Paths, Src
  <2> QED
    BY <1>2, <2>1 DEF Uses, Control, SourcesDone
<1>3. CASE DeleteTask(TaskOf[p])
  BY <1>3 DEF DeleteTask, TypeOK, PreviewsTyped, PreviewsBelong
<1> QED
  BY <1>1, <1>2, <1>3, NextPreviewsMove DEF PreviewsMove, PreviewsBelong, Control

LEMMA DifferencesKept ==
  ASSUME TypeOK, Control, Order, RowsRead, PreviewsBelong, ReadyShows, DifferencesOfBase, [Next]_vars
  PROVE  DifferencesOfBase'
<1> SUFFICES ASSUME NEW p \in Operations, Kind[p] \in Compared, pstat'[p] \in {"ready", "applied"},
                    tstat'[TaskOf[p]] \notin {"none", "deleted"}, rev'[TaskOf[p]] = pbase'[p]
             PROVE  saw'[p] = rows'[TaskOf[p]]
  BY DEF DifferencesOfBase, Shows, At, Exists
<1>0. TaskOf[p] \in Tasks /\ ~DeleteTask(TaskOf[p])
  BY OperationsAssumption, RevisionsGrow
<1>1. ASSUME NEW w \in Workers, Op(w) = p, SavePreview(w) PROVE saw'[p] = rows'[TaskOf[p]]
  <2>1. /\ wpc[w] = "commit" /\ Does(w) \in Compared /\ Task(w) = TaskOf[p]
        /\ UNCHANGED <<tstat, rev, rows>>
    BY <1>1 DEF SavePreview, taskVars, Does, Task
  <2>2. pbase'[p] = wbase[w] /\ saw'[p] = wrows[w]
    BY <1>1, <2>1 DEF SavePreview, Does, Compared, TypeOK, PreviewsTyped
  <2>3. At(Task(w), wbase[w])
    BY <2>1, <2>2 DEF At, Exists
  <2> QED
    BY <1>1, <2>1, <2>2, <2>3, WritesRows DEF Writes, Compared
<1>2. CASE saw'[p] # saw[p]
  <2>1. PICK w \in Workers : Op(w) = p /\ Writes(w)
    BY <1>0, <1>2, NextFilesMove DEF FilesMove
  <2>2. ~WriteStaged(w)
    BY <2>1 DEF WriteStaged, Control, Paths, Does, Compared
  <2> QED
    BY <1>1, <2>1, <2>2 DEF Writes
<1>3. CASE saw'[p] = saw[p] /\ ~\E w \in Workers : Op(w) = p /\ SavePreview(w)
  <2>1. pstat[p] \in {"ready", "applied"} /\ pbase'[p] = pbase[p] /\ ostat[p] # "none"
    <3>1. ASSUME NEW w \in Workers, Uses(w, p)
          PROVE  pstat[p] \in {"ready", "applied"} /\ pbase'[p] = pbase[p] /\ ostat[p] # "none"
      <4>1. /\ wpc[w] \notin Generating \cup {"idle"} /\ Op(w) \in Operations
            /\ TaskOf[Op(w)] = TaskOf[p] /\ Source[Op(w)] = p /\ Fenced(w)
        BY <3>1, WorksFor DEF Uses, Generating, TypeOK, Src, Task
      <4>2. ostat[Op(w)] = "processing"
        BY <4>1, HolderIsOpen, NullAssumption DEF Control
      <4>3. ostat[p] \in {"ready", "deleted"} /\ Exists(TaskOf[p])
        BY <3>1, <4>1, <4>2 DEF Control, SourcesDone, Belonging, Uses
      <4>4. ostat[p] = "ready"
        BY <4>3 DEF Control, Belonging, Exists
      <4> QED
        BY <3>1, <4>4 DEF Uses, ReadyShows, Shows
    <3>2. ASSUME NEW w \in Workers, Makes(w, p) PROVE FALSE
      BY <1>3, <3>2 DEF Makes
    <3>3. CASE pstat'[p] = pstat[p] /\ pbase'[p] = pbase[p]
      <4>1. pstat[p] \in {"ready", "applied"}
        BY <3>3
      <4> QED
        BY <3>3, <4>1 DEF PreviewsBelong
    <3> QED
      BY <1>0, <3>1, <3>2, <3>3, NextPreviewsMove DEF PreviewsMove, Control
  <2>2. tstat[TaskOf[p]] # "none" /\ (tstat[TaskOf[p]] # "deleted" => pbase[p] <= rev[TaskOf[p]])
        /\ pbase[p] \in Nat
    BY <2>1 DEF Control, Belonging, Order, TypeOK, PreviewsTyped
  <2>3. At(TaskOf[p], pbase[p]) /\ Kept(TaskOf[p])
    BY <1>0, <2>1, <2>2, AtMoved
  <2> QED
    BY <1>3, <2>1, <2>3 DEF DifferencesOfBase, Shows, Kept
<1> QED
  BY <1>1, <1>2, <1>3

LEMMA ReadyShowsKept ==
  ASSUME TypeOK, Control, ReadyShows, [Next]_vars
  PROVE  ReadyShows'
<1>1. ASSUME NEW p \in Operations, Kind[p] \in Compared, ostat'[p] = "ready"
      PROVE  pstat'[p] \in {"ready", "applied"}
  <2>1. CASE ostat[p] = "ready"
    <3>1. ~DeleteTask(TaskOf[p])
      BY <1>1 DEF DeleteTask, TypeOK, OperationsTyped
    <3>2. pstat[p] \in {"ready", "applied"}
      BY <1>1, <2>1 DEF ReadyShows, Shows
    <3> QED
      BY <1>1, <2>1, <3>1, <3>2, SourcePinned, NextPreviewsMove DEF PreviewsMove, Uses, Compared, Control
  <2>2. CASE ostat[p] # "ready"
    <3>1. PICK w \in Workers : Op(w) = p /\ Report(w)
      <4>1. ~CreateOperation(p) /\ ~DeleteTask(TaskOf[p])
        BY <1>1, <2>2 DEF CreateOperation, DeleteTask, TypeOK, OperationsTyped
      <4> QED
        BY <1>1, <2>2, <4>1, NextOperationsMove DEF OperationsMove
    <3>2. pstat[p] \in {"ready", "applied"} /\ pstat' = pstat
      BY <1>1, <3>1 DEF Report, ReadyShows, Shows, Does, previewVars
    <3> QED
      BY <3>2
  <2> QED
    BY <2>1, <2>2
<1>2. ASSUME NEW w \in Workers, wpc'[w] = "result", Fenced(w)', Kind[Op(w)'] \in Compared
      PROVE  pstat'[Op(w)'] \in {"ready", "applied"}
  <2>1. CASE Stays(w)
    <3>0. wpc[w] = "result" /\ Op(w)' = Op(w) /\ wjob'[w] = wjob[w] /\ Does(w) \in Compared
      BY <1>2, <2>1 DEF Stays, Op, Does
    <3>1. Op(w) \in Operations /\ wjob[w] \in Job /\ wjob[w] = <<Op(w), "run">>
      BY <3>0, WorksFor, RunJobs DEF TypeOK, Control, Generating
    <3>2. holder'[wjob[w]] = w
      BY <1>2, <3>0 DEF Fenced
    <3>3. Fenced(w)
      <4>1. ASSUME NEW v \in Workers, holder'[wjob[w]] = v, Begin(v, wjob[w]) PROVE FALSE
        BY <3>0, <3>2, <4>1 DEF Begin
      <4> QED
        BY <3>1, <3>2, <4>1, NullAssumption, NextHoldersMove DEF HoldersMove, Fenced
    <3>4. pstat[Op(w)] \in {"ready", "applied"}
      BY <3>0, <3>3 DEF ReadyShows, Shows
    <3>5. ASSUME NEW v \in Workers, Makes(v, Op(w)) PROVE FALSE
      <4>1. wjob[v] = wjob[w]
        BY <3>1, <3>5, RunJobs DEF Makes, Control, Generating
      <4> QED
        BY <3>0, <3>3, <3>5, <4>1 DEF Makes, Fenced
    <3>6. ~DeleteTask(TaskOf[Op(w)])
      BY <3>1, <3>2, NullAssumption DEF DeleteTask, Op
    <3>7. pstat'[Op(w)] = pstat[Op(w)] \/ pstat'[Op(w)] = "applied" \/ Does(w) = "inspect"
      BY <3>1, <3>5, <3>6, NextPreviewsMove DEF PreviewsMove, Uses, Control, Does
    <3> QED
      BY <3>0, <3>4, <3>7 DEF Compared
  <2>2. CASE Advances(w)
    <3>0. /\ Op(w)' = Op(w) /\ Op(w) \in Operations /\ Does(w) \in Compared
          /\ ostat[Op(w)] # "none"
      BY <1>2, <2>2, AdvancedPaths, WorksFor DEF TypeOK, Control, Paths, Does
    <3>1. CASE SavePreview(w)
      BY <3>0, <3>1 DEF SavePreview, Compared, Does, TypeOK, PreviewsTyped
    <3>2. CASE OpenTask(w)
      BY <1>2, <3>0, <3>2 DEF OpenTask, AfterOpening, Compared, Does, Goto, TypeOK, WorkersTyped
    <3>3. CASE Start(w) \/ ReadRows(w) \/ CheckRevision(w) \/ WriteStaged(w) \/ LoadStaged(w)
      BY <1>2, <3>0, <3>3, NextPc DEF Start, ReadRows, CheckRevision, WriteStaged, LoadStaged, Goto,
         TypeOK, WorkersTyped
    <3>4. CASE AlreadyApplied(w) \/ CommitRecords(w) \/ CommitAnalysis(w) \/ CommitExport(w)
      BY <3>0, <3>4 DEF AlreadyApplied, CommitRecords, CommitAnalysis, CommitExport, Compared
    <3>5. CASE LabelPreview(w)
      BY <3>0, <3>5 DEF LabelPreview, Control, Paths, Compared
    <3>6. CASE Generate(w) /\ Labels(w)
      BY <1>2, <3>6 DEF Generate, Goto, TypeOK, WorkersTyped
    <3> QED
      BY <2>2, <3>1, <3>2, <3>3, <3>4, <3>5, <3>6 DEF Advances
  <2> QED
    BY <1>2, <2>1, <2>2, BegunPaths, NextWorkersMove DEF WorkersMove
<1> QED
  BY <1>1, <1>2 DEF ReadyShows, Shows, Does

-----------------------------------------------------------------------------
(* Commits. *)

(* The steps with which an operation takes effect. *)
Effect(w) == CommitRecords(w) \/ CommitAnalysis(w) \/ (CommitExport(w) /\ xstat[Op(w)] = "none")

EffectsMove == \A o \in Operations :
  \/ effects'[o] = effects[o]
  \/ \E w \in Workers : Op(w) = o /\ Effect(w) /\ effects'[o] = effects[o] + 1

LEMMA NextEffectsMove ==
  ASSUME TypeOK, [Next]_vars
  PROVE  EffectsMove
<1>1. CASE UNCHANGED effects
  BY <1>1 DEF EffectsMove
<1>2. ASSUME NEW w \in Workers, Effect(w) PROVE EffectsMove
  <2>1. wpc[w] # "idle" /\ effects' = [effects EXCEPT ![Op(w)] = @ + 1]
    BY <1>2 DEF Effect, CommitRecords, CommitAnalysis, Commits, CommitExport
  <2>2. Op(w) \in Operations
    BY <2>1, WorksFor DEF TypeOK
  <2> QED
    BY <1>2, <2>1, <2>2 DEF EffectsMove, TypeOK, OperationsTyped
<1>3. ASSUME NEW w \in Workers, Work(w) PROVE EffectsMove
  BY <1>1, <1>2, <1>3 DEF Work, Effect, Start, OpenTask, AlreadyApplied, ReadRows, CheckRevision,
     WriteStaged, LoadStaged, LabelPreview, SavePreview, CommitExport, Report, Generate, LabelTask,
     Generated
<1> QED
  BY <1>1, <1>3, Steps DEF TaskStep, CreateTask, Parsed, ParseFailed, SetStatus, Cancel, Retry,
     ReopenMapping, atOnce, CreateOperation, DeleteTask, LoseLease, Begin, Raise, Crash, vars

LEMMA EffectsGrow ==
  ASSUME TypeOK, [Next]_vars, NEW o \in Operations
  PROVE  effects[o] \in Nat /\ effects'[o] \in Nat /\ effects[o] <= effects'[o]
BY NextEffectsMove DEF EffectsMove, TypeOK, OperationsTyped

LEMMA EffectOf ==
  ASSUME TypeOK, Control, NEW w \in Workers, Effect(w)
  PROVE  /\ wpc[w] = "commit" /\ Op(w) \in Operations /\ Task(w) = TaskOf[Op(w)]
         /\ Changes(Op(w)) /\ ostat[Op(w)] # "none"
         /\ At(Task(w), wbase[w])
<1>1. /\ wpc[w] = "commit" /\ At(Task(w), wbase[w])
      /\ Does(w) \in {"confirm", "analyze", "edit", "apply_return", "apply_names", "export"}
  BY DEF Effect, CommitRecords, CommitAnalysis, Commits, CommitExport
<1> QED
  BY <1>1, WorksFor DEF TypeOK, Control, Paths, Changes, Does, Task

LEMMA CommitsAtBasis ==
  ASSUME TypeOK, Control, WorkersBase, NEW w \in Workers, CommitRecords(w) \/ CommitAnalysis(w)
  PROVE  /\ Basis(Op(w)) = rev[Task(w)] /\ Exists(Task(w)) /\ Kind[Op(w)] # "export"
         /\ Task(w) \in Tasks /\ rev'[Task(w)] = rev[Task(w)] + 1
<1>1. /\ wpc[w] = "commit" /\ At(Task(w), wbase[w]) /\ Task(w) \in Tasks
      /\ Does(w) \in {"confirm", "analyze", "edit", "apply_return", "apply_names"}
  BY WorksFor DEF CommitRecords, CommitAnalysis, Commits, TypeOK
<1>2. wbase[w] = Basis(Op(w))
  BY <1>1 DEF WorkersBase, InBody, HasBasis, MakesPreview, At, Exists, Does
<1>3. rev'[Task(w)] = rev[Task(w)] + 1
  BY <1>1 DEF CommitRecords, CommitAnalysis, KeepRecords, Revise, TypeOK, TasksTyped
<1> QED
  BY <1>1, <1>2, <1>3 DEF At, Does

(* Neither the operation itself nor another application of its preview has *)
(* taken effect before.                                                    *)
LEMMA FirstEffect ==
  ASSUME TypeOK, Control, WorkersBase, Effects, NEW w \in Workers, Effect(w)
  PROVE  /\ effects[Op(w)] = 0
         /\ \A b \in Operations :
              Applies(b) /\ Applies(Op(w)) /\ Source[b] = Source[Op(w)] => effects[b] = 0
<1>0. Op(w) \in Operations /\ Task(w) = TaskOf[Op(w)] /\ \A b \in Operations : effects[b] \in Nat
  BY EffectOf DEF TypeOK, OperationsTyped
<1>1. CASE CommitExport(w) /\ xstat[Op(w)] = "none"
  BY <1>0, <1>1 DEF CommitExport, Effects, Applies, Does
<1>2. CASE CommitRecords(w) \/ CommitAnalysis(w)
  <2>1. /\ Basis(Op(w)) = rev[Task(w)] /\ Exists(Task(w)) /\ Kind[Op(w)] # "export"
        /\ rev[Task(w)] \in Nat
    BY <1>2, CommitsAtBasis DEF TypeOK, TasksTyped
  <2>2. ASSUME NEW b \in Operations, TaskOf[b] = Task(w), Basis(b) = Basis(Op(w)),
               Kind[b] # "export"
        PROVE  effects[b] = 0
    BY <1>0, <2>1, <2>2 DEF Effects, Exists
  <2>3. ASSUME NEW b \in Operations, Applies(b), Applies(Op(w)), Source[b] = Source[Op(w)]
        PROVE  effects[b] = 0
    <3>1. TaskOf[b] = Task(w) /\ Kind[b] # "export"
      BY <1>0, <2>3, OperationsAssumption DEF Applies
    <3>2. Basis(b) = Basis(Op(w))
      BY <2>3 DEF Applies, Basis, Decides
    <3> QED
      BY <2>2, <3>1, <3>2
  <2> QED
    BY <1>0, <2>1, <2>2, <2>3
<1> QED
  BY <1>1, <1>2 DEF Effect

LEMMA EffectsKept ==
  ASSUME TypeOK, Control, WorkersBase, Labelling, Effects, [Next]_vars
  PROVE  Effects'
<1>1. ASSUME NEW o \in Operations, effects'[o] > 0
      PROVE  ostat'[o] # "none" /\ Changes(o)
  <2>1. effects[o] > 0 \/ \E w \in Workers : Op(w) = o /\ Effect(w)
    BY <1>1, NextEffectsMove DEF EffectsMove
  <2>2. ostat[o] # "none" /\ Changes(o)
    BY <2>1, EffectOf DEF Effects
  <2> QED
    BY <2>2, RequestedStays DEF Control
<1>2. ASSUME NEW o \in Operations, effects'[o] > 0, Kind[o] # "export", tstat'[TaskOf[o]] # "deleted"
      PROVE  Basis(o)' < rev'[TaskOf[o]]
  <2>0. TaskOf[o] \in Tasks /\ Source[o] \in Operations
    BY OperationsAssumption
  <2>1. /\ tstat[TaskOf[o]] # "deleted" /\ rev[TaskOf[o]] \in Nat /\ rev'[TaskOf[o]] \in Nat
        /\ rev[TaskOf[o]] <= rev'[TaskOf[o]]
    BY <1>2, <2>0, RevisionsGrow
  <2>2. ostat[o] # "none" /\ Basis(o) \in Nat
    <3>1. ostat[o] # "none"
      BY <1>2, NextEffectsMove, EffectOf DEF EffectsMove, Effects
    <3> QED
      BY <2>0, <3>1 DEF Basis, TypeOK, OperationsTyped, PreviewsTyped
  <2>3. Basis(o)' = Basis(o)
    BY <1>2, <2>2, BasisKept
  <2>4. CASE effects[o] > 0
    BY <1>2, <2>1, <2>2, <2>3, <2>4 DEF Effects
  <2>5. ASSUME NEW w \in Workers, Op(w) = o, Effect(w) PROVE Basis(o)' < rev'[TaskOf[o]]
    <3>1. CommitRecords(w) \/ CommitAnalysis(w)
      BY <1>2, <2>5 DEF Effect, CommitExport, Does
    <3>2. Basis(o) = rev[TaskOf[o]] /\ rev'[TaskOf[o]] = rev[TaskOf[o]] + 1
      BY <2>5, <3>1, CommitsAtBasis DEF Task
    <3> QED
      BY <2>1, <2>3, <3>2
  <2> QED
    BY <1>2, <2>4, <2>5, NextEffectsMove DEF EffectsMove
<1>3. ASSUME NEW o \in Operations, Kind[o] = "export"
      PROVE  xstat'[o] # "none" <=> effects'[o] > 0
  <2>0. /\ xstat[o] # "none" <=> effects[o] > 0
        /\ effects[o] \in Nat /\ effects'[o] \in Nat /\ effects[o] <= effects'[o]
    BY <1>3, EffectsGrow DEF Effects
  <2>1. ASSUME NEW w \in Workers, Op(w) = o, Effect(w)
        PROVE  CommitExport(w) /\ xstat[o] = "none" /\ xstat'[o] # "none"
    <3>1. CommitExport(w) /\ xstat[o] = "none"
      BY <1>3, <2>1 DEF Effect, CommitRecords, CommitAnalysis, Does
    <3> QED
      BY <2>1, <3>1 DEF CommitExport, TypeOK, ExportsTyped
  <2>2. CASE xstat[o] # "none"
    <3>1. xstat'[o] # "none"
      <4>1. ASSUME NEW w \in Workers, Op(w) = o, LabelTask(w) PROVE xstat'[o] = "completed"
        BY <4>1 DEF LabelTask, Generated, TypeOK, ExportsTyped
      <4>2. CASE DeleteTask(TaskOf[o])
        BY <2>2, <4>2 DEF DeleteTask, TypeOK, ExportsTyped
      <4>3. \A w \in Workers : wpc[w] = "generating" => wjob[w][2] = "generate"
        BY GeneratingJobs DEF Generating, Control
      <4> QED
        BY <2>2, <4>1, <4>2, <4>3, NextExportsMove DEF ExportsMove
    <3> QED
      BY <2>0, <2>2, <3>1
  <2>3. CASE xstat[o] = "none" /\ effects'[o] > 0
    BY <2>0, <2>1, <2>3, NextEffectsMove DEF EffectsMove
  <2>4. CASE xstat[o] = "none" /\ xstat'[o] # "none"
    <3>1. ~DeleteTask(TaskOf[o])
      BY <2>4 DEF DeleteTask, TypeOK, ExportsTyped
    <3>2. ASSUME NEW w \in Workers, Op(w) = o, CommitExport(w) PROVE effects'[o] > 0
      <4>1. effects'[o] = effects[o] + 1
        BY <2>4, <3>2 DEF CommitExport, TypeOK, OperationsTyped
      <4> QED
        BY <2>0, <4>1
    <3>3. ASSUME NEW w \in Workers, Op(w) = o, LabelTask(w) PROVE FALSE
      BY <1>3, <2>4, <3>3 DEF LabelTask, Labelling
    <3>4. \A w \in Workers : wpc[w] = "generating" => wjob[w][2] = "generate"
      BY GeneratingJobs DEF Generating, Control
    <3> QED
      BY <2>4, <3>1, <3>2, <3>3, <3>4, NextExportsMove DEF ExportsMove
  <2> QED
    BY <2>2, <2>3, <2>4
<1>4. ASSUME NEW w \in Workers, wpc'[w] \in {"label", "result"}, Changes(Op(w)')
      PROVE  effects'[Op(w)'] > 0
  <2>1. CASE Stays(w)
    <3>1. Op(w)' = Op(w) /\ Op(w) \in Operations /\ wpc[w] \in {"label", "result"}
      BY <1>4, <2>1, WorksFor DEF Stays, Op, TypeOK
    <3>2. effects[Op(w)] > 0
      BY <1>4, <3>1 DEF Effects
    <3> QED
      BY <3>1, <3>2, EffectsGrow
  <2>2. CASE Advances(w)
    <3>0. Op(w)' = Op(w) /\ Op(w) \in Operations /\ Changes(Op(w))
      BY <1>4, <2>2, AdvancedPaths, WorksFor DEF TypeOK, Control
    <3>1. CASE Effect(w)
      <4>1. effects' = [effects EXCEPT ![Op(w)] = @ + 1]
        BY <3>1 DEF Effect, CommitRecords, CommitAnalysis, Commits, CommitExport
      <4> QED
        BY <3>0, <4>1 DEF TypeOK, OperationsTyped
    <3>2. CASE CommitExport(w) /\ xstat[Op(w)] # "none"
      BY <3>0, <3>2, EffectsGrow DEF CommitExport, Effects, Does
    <3>3. CASE OpenTask(w)
      <4>1. wpc'[w] = AfterOpening(Op(w))
        BY <3>3 DEF OpenTask, Goto, TypeOK, WorkersTyped
      <4>2. Kind[Op(w)] = "export" /\ xstat[Op(w)] # "none"
        BY <1>4, <3>0, <4>1 DEF AfterOpening, Changes
      <4> QED
        BY <3>0, <4>2, EffectsGrow DEF Effects
    <3>4. CASE LabelPreview(w)
      BY <3>0, <3>4, EffectsGrow DEF LabelPreview, Effects
    <3>5. CASE AlreadyApplied(w) \/ SavePreview(w)
      BY <3>0, <3>5 DEF AlreadyApplied, SavePreview, MakesPreview, Changes, Does
    <3>6. CASE Start(w) \/ ReadRows(w) \/ CheckRevision(w) \/ WriteStaged(w) \/ LoadStaged(w)
      BY <1>4, <3>0, <3>6, NextPc DEF Start, ReadRows, CheckRevision, WriteStaged, LoadStaged, Goto,
         TypeOK, WorkersTyped
    <3>7. CASE Generate(w) /\ Labels(w)
      BY <1>4, <3>7 DEF Generate, Goto, TypeOK, WorkersTyped
    <3> QED
      BY <2>2, <3>1, <3>2, <3>3, <3>4, <3>5, <3>6, <3>7 DEF Advances, Effect
  <2> QED
    BY <1>4, <2>1, <2>2, BegunPaths, NextWorkersMove DEF WorkersMove
<1> QED
  BY <1>1, <1>2, <1>3, <1>4 DEF Effects, Changes

LEMMA OnceKept ==
  ASSUME TypeOK, Control, WorkersBase, Effects, TakesEffectOnce, [Next]_vars
  PROVE  TakesEffectOnce'
<1>0. \A o \in Operations : effects[o] \in Nat /\ effects'[o] \in Nat /\ effects[o] <= effects'[o]
  BY EffectsGrow
<1>1. ASSUME NEW o \in Operations PROVE effects'[o] <= 1
  <2>1. ASSUME NEW w \in Workers, Op(w) = o, Effect(w), effects'[o] = effects[o] + 1
        PROVE  effects'[o] <= 1
    BY <2>1, FirstEffect
  <2> QED
    BY <2>1, NextEffectsMove DEF EffectsMove, TakesEffectOnce
<1>2. ASSUME NEW o \in Operations, ostat'[o] = "ready", Changes(o) PROVE effects'[o] = 1
  <2>1. CASE ostat[o] = "ready"
    BY <1>0, <1>1, <1>2, <2>1 DEF TakesEffectOnce
  <2>2. CASE ostat[o] # "ready"
    <3>1. PICK w \in Workers : Op(w) = o /\ Report(w)
      <4>1. ~CreateOperation(o) /\ ~DeleteTask(TaskOf[o])
        BY <1>2, <2>2 DEF CreateOperation, DeleteTask, TypeOK, OperationsTyped
      <4> QED
        BY <1>2, <2>2, <4>1, NextOperationsMove DEF OperationsMove
    <3>2. effects[o] > 0
      BY <1>2, <3>1 DEF Report, Effects
    <3> QED
      BY <1>0, <1>1, <3>2
  <2> QED
    BY <2>1, <2>2
<1>3. ASSUME NEW a \in Operations, NEW b \in Operations,
             a # b, Applies(a), Applies(b), Source[a] = Source[b]
      PROVE  effects'[a] + effects'[b] <= 1
  <2>0. effects[a] + effects[b] <= 1
    BY <1>3 DEF TakesEffectOnce
  <2>1. ASSUME NEW v \in Workers, NEW w \in Workers, Op(v) = a, Op(w) = b, Effect(v), Effect(w)
        PROVE  FALSE
    <3>1. effects' = [effects EXCEPT ![a] = @ + 1] /\ effects' = [effects EXCEPT ![b] = @ + 1]
      BY <2>1 DEF Effect, CommitRecords, CommitAnalysis, Commits, CommitExport
    <3> QED
      BY <1>0, <1>3, <3>1 DEF TypeOK, OperationsTyped
  <2>2. ASSUME NEW w \in Workers, Op(w) = a, Effect(w) PROVE effects[a] = 0 /\ effects[b] = 0
    BY <1>3, <2>2, FirstEffect
  <2>3. ASSUME NEW w \in Workers, Op(w) = b, Effect(w) PROVE effects[a] = 0 /\ effects[b] = 0
    BY <1>3, <2>3, FirstEffect
  <2>4. /\ effects'[a] = effects[a] \/ (effects'[a] = effects[a] + 1 /\ \E w \in Workers : Op(w) = a /\ Effect(w))
        /\ effects'[b] = effects[b] \/ (effects'[b] = effects[b] + 1 /\ \E w \in Workers : Op(w) = b /\ Effect(w))
    BY NextEffectsMove DEF EffectsMove
  <2> QED
    BY <1>0, <2>0, <2>1, <2>2, <2>3, <2>4
<1> QED
  BY <1>1, <1>2, <1>3 DEF TakesEffectOnce, Changes, Applies

-----------------------------------------------------------------------------
(* Exports. *)

LEMMA SnapshotsKept ==
  ASSUME TypeOK, Control, Order, Labelling, RowsRead, PastIsRows, ExportOfItsRevision, [Next]_vars
  PROVE  ExportOfItsRevision'
<1> SUFFICES ASSUME NEW o \in Operations, xstat'[o] \in {"processing", "completed", "failed"}
             PROVE  xrows'[o] = past'[TaskOf[o]][xrev'[o]]
  BY DEF ExportOfItsRevision
<1> DEFINE t == TaskOf[o]
<1>0. t \in Tasks /\ ~DeleteTask(t)
  <2>1. ~DeleteTask(t)
    BY DEF DeleteTask, TypeOK, ExportsTyped
  <2> QED
    BY <2>1, OperationsAssumption
<1>1. CASE /\ xstat[o] \in {"processing", "completed", "failed"}
           /\ xrev'[o] = xrev[o] /\ xrows'[o] = xrows[o]
  <2>1. xrev[o] <= rev[t] /\ xrev[o] \in 0..MaxRevision /\ rev[t] \in Nat
    <3>1. Exists(t)
      BY <1>1 DEF Control, ExportsBelong
    <3> QED
      BY <1>0, <3>1 DEF Order, Exists, TypeOK, TasksTyped, ExportsTyped
  <2>2. past'[t][xrev[o]] = past[t][xrev[o]]
    <3>1. CASE Kept(t)
      BY <3>1 DEF Kept
    <3>2. CASE Revised(t)
      BY <1>0, <2>1, <3>2 DEF Revised, TypeOK, TasksTyped
    <3> QED
      BY <1>0, <3>1, <3>2, NextTasksMove DEF TasksMove
  <2> QED
    BY <1>1, <2>2 DEF ExportOfItsRevision
<1>2. ASSUME NEW w \in Workers, Op(w) = o, xstat[o] = "none", CommitExport(w)
      PROVE  xrows'[o] = past'[t][xrev'[o]]
  <2>1. /\ xrev'[o] = wbase[w] /\ xrows'[o] = wrows[w] /\ past' = past
        /\ wbase[w] = rev[t] /\ At(Task(w), wbase[w]) /\ Task(w) = t
    BY <1>2 DEF CommitExport, taskVars, At, Task, TypeOK, ExportsTyped
  <2>2. wrows[w] = rows[t]
    BY <1>2, <2>1 DEF CommitExport, RowsRead, HasRead
  <2> QED
    BY <1>0, <2>1, <2>2 DEF PastIsRows
<1>3. ASSUME NEW w \in Workers, Op(w) = o, LabelTask(w)
      PROVE  xstat[o] = "processing" /\ xrev'[o] = xrev[o] /\ xrows'[o] = xrows[o]
  BY <1>3 DEF LabelTask, Generated, Labelling
<1>4. \A w \in Workers : wpc[w] = "generating" => wjob[w][2] = "generate"
  BY GeneratingJobs DEF Generating, Control
<1> QED
  BY <1>0, <1>1, <1>2, <1>3, <1>4, NextExportsMove DEF ExportsMove

LEMMA CompletionKept ==
  ASSUME TypeOK, Control, Labelling, CompletedByItsExport, [Next]_vars
  PROVE  CompletedByItsExport'
<1> SUFFICES ASSUME NEW t \in Tasks, tstat'[t] = "completed"
             PROVE  \E o \in Operations :
                      TaskOf[o] = t /\ xstat'[o] = "completed" /\ xrev'[o] = rev'[t]
  BY DEF CompletedByItsExport
<1>1. Kept(t) /\ ~DeleteTask(t)
  <2>1. ~DeleteTask(t)
    BY DEF DeleteTask, TypeOK, TasksTyped
  <2> QED
    BY <2>1, NextTasksMove DEF TasksMove, Revised
<1>2. CASE tstat[t] = "completed"
  <2>1. PICK o \in Operations : TaskOf[o] = t /\ xstat[o] = "completed" /\ xrev[o] = rev[t]
    BY <1>2 DEF CompletedByItsExport
  <2>2. ASSUME NEW w \in Workers, Op(w) = o, LabelTask(w) PROVE FALSE
    BY <2>1, <2>2 DEF LabelTask, Labelling
  <2>3. xstat'[o] = "completed" /\ xrev'[o] = xrev[o]
    <3>1. \A w \in Workers : wpc[w] = "generating" => wjob[w][2] = "generate"
      BY GeneratingJobs DEF Generating, Control
    <3> QED
      BY <1>1, <2>1, <2>2, <3>1, NextExportsMove DEF ExportsMove
  <2> QED
    BY <1>1, <2>1, <2>3 DEF Kept
<1>3. ASSUME NEW w \in Workers, Task(w) = t, LabelTask(w)
      PROVE  \E o \in Operations : TaskOf[o] = t /\ xstat'[o] = "completed" /\ xrev'[o] = rev'[t]
  <2>1. Op(w) \in Operations /\ TaskOf[Op(w)] = t /\ wpc[w] = "labelling"
    BY <1>3, WorksFor DEF LabelTask, TypeOK, Task
  <2>2. xstat'[Op(w)] = "completed" /\ xrev'[Op(w)] = xrev[Op(w)] /\ rev' = rev
    BY <1>3, <2>1 DEF LabelTask, Generated, TypeOK, ExportsTyped
  <2>3. xrev[Op(w)] = rev[t]
    BY <1>3, <2>1 DEF LabelTask, Labelling, At
  <2> QED
    BY <2>1, <2>2, <2>3
<1> QED
  BY <1>1, <1>2, <1>3 DEF Kept, StatusMoves

-----------------------------------------------------------------------------
(* The inductive invariant. *)

Read == Order /\ WorkersBase /\ Labelling /\ UnmappedEmpty /\ Counted /\ Confirming /\ RowsRead

Shown == StagedFrom /\ StagedIsBase /\ PreviewsBelong /\ ReadyShows /\ DifferencesOfBase

Results == PastIsRows /\ Effects /\ TakesEffectOnce /\ ExportOfItsRevision /\ CompletedByItsExport

Inv == TypeOK /\ Control /\ Read /\ Shown /\ Results

LEMMA InitInv == Init => Inv
<1> SUFFICES ASSUME Init PROVE Inv
  OBVIOUS
<1>0. /\ \A o \in Operations : TaskOf[o] \in Tasks /\ Source[o] \in Operations
      /\ \A j \in Job : j[1] \in Operations
      /\ 0 \in 0..MaxRevision
  BY OperationsAssumption, Jobs, BoundsAssumption
<1>1. TypeOK
  BY InitTyped
<1>2. Control
  BY <1>0 DEF Init, Control, Belonging, SourcesDone, HeldIsOpen, Paths, ExportsBelong
<1>3. Read
  BY <1>0 DEF Init, Read, Order, WorkersBase, Labelling, UnmappedEmpty, Counted, Confirming,
     RowsRead, InBody
<1>4. Shown
  BY <1>0 DEF Init, Shown, StagedFrom, StagedIsBase, PreviewsBelong, ReadyShows,
     DifferencesOfBase, Shows
<1>5. Results
  <2>1. PastIsRows /\ Effects
    BY <1>0 DEF Init, PastIsRows, Effects
  <2>2. TakesEffectOnce
    BY DEF Init, TakesEffectOnce
  <2>3. ExportOfItsRevision /\ CompletedByItsExport
    BY DEF Init, ExportOfItsRevision, CompletedByItsExport
  <2> QED
    BY <2>1, <2>2, <2>3 DEF Results
<1> QED
  BY <1>1, <1>2, <1>3, <1>4, <1>5 DEF Inv

LEMMA NextInv == Inv /\ [Next]_vars => Inv'
<1> SUFFICES ASSUME Inv, [Next]_vars PROVE Inv'
  OBVIOUS
<1> USE DEF Inv
<1>1. TypeOK' /\ Control'
  BY NextTyped, ControlKept
<1>2. Read'
  BY OrderKept, WorkersBaseKept, LabellingKept, UnmappedKept, CountedKept, ConfirmingKept,
     RowsReadKept DEF Read, Shown
<1>3. Shown'
  BY StagedFromKept, StagedIsBaseKept, PreviewsBelongKept, ReadyShowsKept, DifferencesKept
     DEF Read, Shown
<1>4. Results'
  BY PastKept, EffectsKept, OnceKept, SnapshotsKept, CompletionKept DEF Read, Results
<1> QED
  BY <1>1, <1>2, <1>3, <1>4

(* The invariant holds in every reachable state. *)
LEMMA Invariance == Spec => []Inv
<1> QED
  BY InitInv, NextInv, PTL DEF Spec

(* The counts of a task, from which its status comes, are always those of  *)
(* the records it has, however its operations interleave and repeat.       *)
THEOREM Counts == Spec => []CountsMatchRecords
<1>1. Inv => CountsMatchRecords
  BY DEF Inv, Read, Counted, CountsMatchRecords
<1> QED
  BY <1>1, Invariance, PTL

(* An operation commits at most once over its attempts and has committed   *)
(* when it is ready; two applications of a preview do not both commit.     *)
THEOREM Once == Spec => []TakesEffectOnce
<1>1. Inv => TakesEffectOnce
  BY DEF Inv, Results
<1> QED
  BY <1>1, Invariance, PTL

(* The snapshot that an export is generated from holds the records of the  *)
(* revision the export names.                                              *)
THEOREM Snapshots == Spec => []ExportOfItsRevision
<1>1. Inv => ExportOfItsRevision
  BY DEF Inv, Results
<1> QED
  BY <1>1, Invariance, PTL

(* A completed task has a complete export of its current revision.         *)
THEOREM Completion == Spec => []CompletedByItsExport
<1>1. Inv => CompletedByItsExport
  BY DEF Inv, Results
<1> QED
  BY <1>1, Invariance, PTL

(* No commit drops the change of another one from the records: only a new  *)
(* mapping and the deletion of the task do.                                *)
THEOREM NothingLost == Spec => NoChangeLost
<1>1. ASSUME Inv, [Next]_vars, NEW t \in Tasks
      PROVE  rows[t] \subseteq rows'[t] \/ tstat'[t] \in {"mapping", "deleted"}
  <2>0. TypeOK /\ UnmappedEmpty /\ Confirming /\ RowsRead
    BY <1>1 DEF Inv, Read
  <2>1. CASE UNCHANGED rows
    BY <2>1
  <2>2. ASSUME NEW u \in Tasks, TaskStep(u)
        PROVE  rows[t] \subseteq rows'[t] \/ tstat'[t] = "mapping"
    BY <2>0, <2>2 DEF TaskStep, CreateTask, Parsed, ParseFailed, SetStatus, Cancel, Retry,
       ReopenMapping, KeepRecords, Revise, TypeOK, TasksTyped
  <2>3. ASSUME NEW u \in Tasks, DeleteTask(u)
        PROVE  rows[t] \subseteq rows'[t] \/ tstat'[t] = "deleted"
    BY <2>0, <2>3 DEF DeleteTask, TypeOK, TasksTyped
  <2>4. ASSUME NEW w \in Workers, CommitRecords(w) PROVE rows[t] \subseteq rows'[t]
    <3>1. rows[Task(w)] \subseteq NewRecords(w)
      BY <2>0, <2>4, CommitsWhatItRead
    <3>2. rows' = [rows EXCEPT ![Task(w)] = NewRecords(w)]
      BY <2>4 DEF CommitRecords, Revise
    <3> QED
      BY <2>0, <3>1, <3>2 DEF TypeOK, TasksTyped
  <2>5. ASSUME NEW w \in Workers, CommitAnalysis(w) PROVE rows[t] \subseteq rows'[t]
    BY <2>0, <2>5 DEF CommitAnalysis, KeepRecords, Revise, TypeOK, TasksTyped
  <2> QED
    BY <1>1, <2>1, <2>2, <2>3, <2>4, <2>5, Steps DEF CreateOperation, LoseLease, Begin, Raise,
       Crash, vars, taskVars, Work, Start, OpenTask, AlreadyApplied, ReadRows, CheckRevision,
       WriteStaged, LoadStaged, LabelPreview, SavePreview, CommitExport, Report, Generate,
       LabelTask, Generated
<1>2. Inv /\ [Next]_vars =>
        [\A t \in Tasks : rows[t] \subseteq rows'[t] \/ tstat'[t] \in {"mapping", "deleted"}]_vars
  BY <1>1
<1> QED
  BY <1>2, Invariance, PTL DEF Spec, NoChangeLost

(* What an application puts into the records are differences of the very   *)
(* records it changes, of the revision at which its preview was made.      *)
THEOREM Applications == Spec => AppliedToItsBase
<1>1. ASSUME Inv, [Next]_vars, NEW w \in Workers,
             wpc[w] = "commit", wpc'[w] \in {"label", "result"}, Applies(Op(w))
      PROVE  (IF Replaces(Op(w)) THEN wrows[w] ELSE saw[Src(w)]) = rows[Task(w)]
  <2>0. /\ TypeOK /\ Control /\ WorkersBase /\ RowsRead /\ DifferencesOfBase /\ ReadyShows
    BY <1>1 DEF Inv, Read, Shown
  <2>1. /\ Op(w) \in Operations /\ Src(w) \in Operations /\ TaskOf[Src(w)] = Task(w)
        /\ Does(w) \in {"apply_return", "apply_names"} /\ ostat[Op(w)] # "none"
    BY <1>1, <2>0, WorksFor DEF TypeOK, Applies, Does, Control, Paths
  <2>2. At(Task(w), wbase[w])
    <3>1. Advances(w)
      BY <1>1, <2>0, NextWorkersMove DEF WorkersMove, Stays, Begin
    <3>2. CommitRecords(w)
      BY <1>1, <2>1, <3>1 DEF Advances, Start, OpenTask, AlreadyApplied, ReadRows, CheckRevision,
         WriteStaged, LoadStaged, CommitAnalysis, LabelPreview, SavePreview, MakesPreview,
         CommitExport, Generate, Does
    <3> QED
      BY <3>2 DEF CommitRecords, Commits
  <2>3. wrows[w] = rows[Task(w)]
    BY <1>1, <2>0, <2>1, <2>2 DEF RowsRead, HasRead
  <2>4. CASE ~Replaces(Op(w))
    <3>1. Kind[Src(w)] \in Compared
      BY <2>1, <2>4, OperationsAssumption DEF Replaces, Compared, Does, Src
    <3>2. ostat[Src(w)] = "ready"
      BY <2>0, <2>1, <2>2 DEF Control, SourcesDone, Belonging, Decides, Does, Src, At, Exists
    <3>3. wbase[w] = pbase[Src(w)]
      BY <1>1, <2>0, <2>1, <2>2 DEF WorkersBase, InBody, HasBasis, MakesPreview, Basis, Decides,
         Does, Src, At, Exists
    <3> QED
      BY <2>0, <2>1, <2>2, <2>4, <3>1, <3>2, <3>3 DEF DifferencesOfBase, ReadyShows
  <2> QED
    BY <2>3, <2>4
<1>2. Inv /\ [Next]_vars =>
        [\A w \in Workers :
           wpc[w] = "commit" /\ wpc'[w] \in {"label", "result"} /\ Applies(Op(w)) =>
             (IF Replaces(Op(w)) THEN wrows[w] ELSE saw[Src(w)]) = rows[Task(w)]]_vars
  BY <1>1
<1> QED
  BY <1>2, Invariance, PTL DEF Spec, AppliedToItsBase
=============================================================================
