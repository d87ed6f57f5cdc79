----------------------------- MODULE TaskLifecycle -----------------------------
(***************************************************************************)
(* What the queued operations of a task do to it (workflow/tasks.py,       *)
(* operations.py, name_confirmation.py).                                   *)
(*                                                                         *)
(* A task has records; each change of them takes the next revision.  Slow  *)
(* requests are operations: a worker reads the task, works for minutes and *)
(* commits against the revision it read.  Other operations and users move  *)
(* the task on meanwhile; workers crash or lose their lease and the        *)
(* operation is run again from its start.                                  *)
(*                                                                         *)
(* The dispatch of executions is the module Executions.  Of it remain      *)
(* here: a job is held by one worker at a time, a worker that lost it may  *)
(* go on unaware, and after its last attempt an object has failed.         *)
(*                                                                         *)
(* The records of a task are the set of operations whose changes are in    *)
(* them.                                                                   *)
(***************************************************************************)
EXTENDS Integers, FiniteSets

CONSTANTS
  Tasks, Operations, Workers,
  NoWorker, NoOperation,
  TaskOf,        \* the task of an operation
  Kind,          \* what an operation does
  Source,        \* for a preview's decisions or its application: the upload
  Scenarios,     \* bound: the sets of operations requested together
  After,         \* bound: what is done in its scenario before an operation is requested
  MaxRevision,   \* bound: no task is revised beyond it
  Attempts       \* how often an operation is run; the code has one number for all

(* return: upload of a maintenance file, compared at once.  inspect: upload *)
(* of a file with another structure, flexible: decisions on it.  names:    *)
(* upload of a list of product names.                                      *)
Kinds == {"confirm", "analyze", "edit", "download", "return", "inspect", "flexible", "names",
          "apply_return", "apply_names", "export"}

ASSUME OperationsAssumption ==
  /\ TaskOf \in [Operations -> Tasks]
  /\ Kind \in [Operations -> Kinds]
  /\ Source \in [Operations -> Operations]
  /\ Scenarios \subseteq SUBSET Operations /\ After \in [Operations -> SUBSET Operations]
  /\ \A o \in Operations :
       /\ TaskOf[Source[o]] = TaskOf[o]
       /\ Kind[o] = "flexible" => Kind[Source[o]] = "inspect"
       /\ Kind[o] = "apply_return" => Kind[Source[o]] \in {"return", "inspect"}
       /\ Kind[o] = "apply_names" => Kind[Source[o]] = "names"

ASSUME BoundsAssumption == MaxRevision \in Nat /\ Attempts \in [Operations -> Nat \ {0}]

ASSUME NullAssumption == NoWorker \notin Workers /\ NoOperation \notin Operations

NoJob == <<>>

(* The execution of an operation, and of the export it has created. *)
Job == (Operations \X {"run"}) \cup ({o \in Operations : Kind[o] = "export"} \X {"generate"})

TaskStatus == {"none", "processing", "failed", "cancelled", "mapping", "maintenance", "ready",
               "completed", "deleted"}
Editable == {"maintenance", "ready", "completed"}
WorkStatus == {"none", "processing", "ready", "completed", "failed", "deleted"}
PreviewStatus == {"none", "draft", "structure", "row_review", "ready", "applied", "deleted"}
Pc == {"idle", "started", "opening", "rows", "checking", "staging", "loading", "commit", "label",
       "result", "generating", "labelling"}

VARIABLES
  tstat, rev, rows, counted,   \* tasks: status, revision, records, what the counts were made from
  ostat, base,                 \* operations: status, base_revision
  pstat, pbase, shown, staged, \* previews: status, base_revision, decisions in the row, in staged.json
  saw,                         \* the records a preview's differences were made from
  xstat, xrev, xrows,          \* exports: status, revision, snapshot file
  holder, tries,               \* jobs: the worker with the lease, attempts
  wpc, wjob, wbase, wrows, wshown, wgot,  \* workers
  past, effects                \* history: records of each revision, commits of each operation

taskVars == <<tstat, rev, rows, counted, past>>
previewVars == <<pstat, pbase, shown, staged, saw>>
exportVars == <<xstat, xrev, xrows>>
jobVars == <<holder, tries>>
readVars == <<wbase, wrows, wshown, wgot>>
workerVars == <<wpc, wjob, readVars>>
vars == <<taskVars, ostat, base, previewVars, exportVars, jobVars, workerVars, effects>>

Records == SUBSET Operations

TasksTyped ==
  /\ tstat \in [Tasks -> TaskStatus] /\ rev \in [Tasks -> 0..MaxRevision]
  /\ rows \in [Tasks -> Records] /\ counted \in [Tasks -> Records]
  /\ past \in [Tasks -> [0..MaxRevision -> Records]]

OperationsTyped ==
  /\ ostat \in [Operations -> WorkStatus] /\ base \in [Operations -> 0..MaxRevision]
  /\ effects \in [Operations -> Nat]

PreviewsTyped ==
  /\ pstat \in [Operations -> PreviewStatus] /\ pbase \in [Operations -> 0..MaxRevision]
  /\ shown \in [Operations -> Operations \cup {NoOperation}]
  /\ staged \in [Operations -> Operations \cup {NoOperation}]
  /\ saw \in [Operations -> Records]

ExportsTyped ==
  /\ xstat \in [Operations -> WorkStatus] /\ xrev \in [Operations -> 0..MaxRevision]
  /\ xrows \in [Operations -> Records]

JobsTyped ==
  /\ holder \in [Job -> Workers \cup {NoWorker}] /\ tries \in [Job -> Nat]
  /\ \A j \in Job : tries[j] <= Attempts[j[1]]

WorkersTyped ==
  /\ wpc \in [Workers -> Pc] /\ wjob \in [Workers -> Job \cup {NoJob}]
  /\ wbase \in [Workers -> 0..MaxRevision] /\ wrows \in [Workers -> Records]
  /\ wshown \in [Workers -> Operations \cup {NoOperation}]
  /\ wgot \in [Workers -> Operations \cup {NoOperation}]
  /\ \A w \in Workers : wpc[w] # "idle" => wjob[w] \in Job

TypeOK ==
  TasksTyped /\ OperationsTyped /\ PreviewsTyped /\ ExportsTyped /\ JobsTyped /\ WorkersTyped

Init ==
  /\ tstat = [t \in Tasks |-> "none"] /\ rev = [t \in Tasks |-> 0]
  /\ rows = [t \in Tasks |-> {}] /\ counted = [t \in Tasks |-> {}]
  /\ past = [t \in Tasks |-> [r \in 0..MaxRevision |-> {}]]
  /\ ostat = [o \in Operations |-> "none"] /\ base = [o \in Operations |-> 0]
  /\ pstat = [o \in Operations |-> "none"] /\ pbase = [o \in Operations |-> 0]
  /\ shown = [o \in Operations |-> NoOperation] /\ staged = [o \in Operations |-> NoOperation]
  /\ saw = [o \in Operations |-> {}]
  /\ xstat = [o \in Operations |-> "none"] /\ xrev = [o \in Operations |-> 0]
  /\ xrows = [o \in Operations |-> {}]
  /\ holder = [j \in Job |-> NoWorker] /\ tries = [j \in Job |-> 0]
  /\ wpc = [w \in Workers |-> "idle"] /\ wjob = [w \in Workers |-> NoJob]
  /\ wbase = [w \in Workers |-> 0] /\ wrows = [w \in Workers |-> {}]
  /\ wshown = [w \in Workers |-> NoOperation] /\ wgot = [w \in Workers |-> NoOperation]
  /\ effects = [o \in Operations |-> 0]

-----------------------------------------------------------------------------
(* Shared conditions and changes. *)

Exists(t) == tstat[t] \notin {"none", "deleted"}

SlipAt(t, b) == Exists(t)   \* slip: the base revision is not compared

(* The compare-and-set of store.claim, and the comparison of snapshot. *)
At(t, b) == Exists(t) /\ rev[t] = b

(* The next revision of t with these records, counts and status. *)
Revise(t, newRows, newCounted, newStatus) ==
  /\ rev[t] < MaxRevision
  /\ rev' = [rev EXCEPT ![t] = @ + 1]
  /\ rows' = [rows EXCEPT ![t] = newRows]
  /\ counted' = [counted EXCEPT ![t] = newCounted]
  /\ tstat' = [tstat EXCEPT ![t] = newStatus]
  /\ past' = [past EXCEPT ![t][rev[t] + 1] = newRows]

KeepRecords(t, newStatus) == Revise(t, rows[t], counted[t], newStatus)

-----------------------------------------------------------------------------
(* Users: requests that are handled at once. *)

atOnce == <<ostat, base, previewVars, exportVars, jobVars, workerVars, effects>>

SetStatus(t, from, to) ==
  /\ tstat[t] \in from /\ tstat' = [tstat EXCEPT ![t] = to]
  /\ UNCHANGED <<rev, rows, counted, past>> /\ UNCHANGED atOnce

CreateTask(t) == SetStatus(t, {"none"}, "processing")
(* Parsing, and its failure, as Executions reports them: no new revision.  *)
Parsed(t) == SetStatus(t, {"processing"}, "mapping")
ParseFailed(t) == SetStatus(t, {"processing"}, "failed")

Cancel(t) ==
  /\ tstat[t] \in {"processing", "mapping", "failed"} /\ KeepRecords(t, "cancelled")
  /\ UNCHANGED atOnce

Retry(t) ==
  /\ tstat[t] \in {"failed", "cancelled"} /\ counted[t] = {} /\ KeepRecords(t, "processing")
  /\ UNCHANGED atOnce

ReopenMapping(t) ==
  /\ tstat[t] \in Editable /\ Revise(t, {}, {}, "mapping")
  /\ UNCHANGED atOnce

CreateOperation(o) ==
  /\ ostat[o] = "none" /\ Exists(TaskOf[o])
  /\ \E asked \in Scenarios :
       /\ {o} \cup {p \in Operations : ostat[p] # "none"} \subseteq asked
       /\ \A p \in After[o] \cap asked : ostat[p] \notin {"none", "processing"}
  /\ Kind[o] \in {"flexible", "apply_return", "apply_names"} => ostat[Source[o]] = "ready"
  /\ ostat' = [ostat EXCEPT ![o] = "processing"]
  /\ base' = [base EXCEPT ![o] = rev[TaskOf[o]]]
  /\ UNCHANGED <<taskVars, previewVars, exportVars, jobVars, workerVars, effects>>

(* The rows and the files of the task and of what belongs to it.  An export *)
(* whose transaction is open holds the row of its execution, which the     *)
(* deletion updates first.                                                 *)
DeleteTask(t) ==
  LET gone == {o \in Operations : TaskOf[o] = t}
      Deleted(stat) == [o \in Operations |->
                          IF o \in gone /\ stat[o] # "none" THEN "deleted" ELSE stat[o]]
      Cleared(f, null) == [o \in Operations |-> IF o \in gone THEN null ELSE f[o]]
  IN  /\ Exists(t) /\ tstat[t] # "processing"
      /\ \A w \in Workers : wpc[w] = "labelling" => wjob[w][1] \notin gone
      /\ tstat' = [tstat EXCEPT ![t] = "deleted"]
      /\ rows' = [rows EXCEPT ![t] = {}] /\ counted' = [counted EXCEPT ![t] = {}]
      /\ rev' = [rev EXCEPT ![t] = 0] /\ past' = [past EXCEPT ![t] = [r \in 0..MaxRevision |-> {}]]
      /\ ostat' = Deleted(ostat) /\ pstat' = Deleted(pstat) /\ xstat' = Deleted(xstat)
      /\ holder' = [j \in Job |-> IF j[1] \in gone THEN NoWorker ELSE holder[j]]
      /\ base' = Cleared(base, 0) /\ pbase' = Cleared(pbase, 0) /\ xrev' = Cleared(xrev, 0)
      /\ shown' = Cleared(shown, NoOperation) /\ staged' = Cleared(staged, NoOperation)
      /\ saw' = Cleared(saw, {}) /\ xrows' = Cleared(xrows, {})
      /\ UNCHANGED <<tries, workerVars, effects>>

-----------------------------------------------------------------------------
(* Workers: leases and failures. *)

Op(w) == wjob[w][1]
Task(w) == TaskOf[Op(w)]
Does(w) == Kind[Op(w)]
Src(w) == Source[Op(w)]
Fenced(w) == holder[wjob[w]] = w
Goto(w, pc) == wpc' = [wpc EXCEPT ![w] = pc]

Open(j) == IF j[2] = "run" THEN ostat[j[1]] = "processing" ELSE xstat[j[1]] = "processing"

(* claim: one holder at a time, and only while the object is open. *)
Begin(w, j) ==
  /\ wpc[w] = "idle" /\ Open(j) /\ holder[j] = NoWorker /\ tries[j] < Attempts[j[1]]
  /\ holder' = [holder EXCEPT ![j] = w] /\ tries' = [tries EXCEPT ![j] = @ + 1]
  /\ Goto(w, IF j[2] = "run" THEN "started" ELSE "generating")
  /\ wjob' = [wjob EXCEPT ![w] = j]
  /\ UNCHANGED <<taskVars, ostat, base, previewVars, exportVars, readVars, effects>>

SlipLeave(w) ==   \* slip: the body goes on after its job has ended
  /\ wjob' = [wjob EXCEPT ![w] = NoJob] /\ UNCHANGED <<wpc, readVars>>

Leave(w) ==
  /\ Goto(w, "idle") /\ wjob' = [wjob EXCEPT ![w] = NoJob]
  /\ wbase' = [wbase EXCEPT ![w] = 0] /\ wrows' = [wrows EXCEPT ![w] = {}]
  /\ wshown' = [wshown EXCEPT ![w] = NoOperation] /\ wgot' = [wgot EXCEPT ![w] = NoOperation]

LastTry(j) == tries[j] = Attempts[j[1]]

(* finish or recover of a failed job: its object fails with it. *)
FailObject(j, fails) ==
  /\ ostat' = [ostat EXCEPT ![j[1]] = IF fails /\ j[2] = "run" /\ @ = "processing"
                                      THEN "failed" ELSE @]
  /\ xstat' = [xstat EXCEPT ![j[1]] = IF fails /\ j[2] = "generate" /\ @ = "processing"
                                      THEN "failed" ELSE @]

Unlock(j) == holder' = [holder EXCEPT ![j] = NoWorker]

(* A body that raises; without the lease finish changes nothing. *)
Raise(w, final) ==
  /\ IF Fenced(w) THEN Unlock(wjob[w]) ELSE UNCHANGED holder
  /\ FailObject(wjob[w], Fenced(w) /\ (final \/ LastTry(wjob[w])))
  /\ Leave(w)
  /\ UNCHANGED <<taskVars, base, previewVars, xrev, xrows, tries, effects>>

(* The lease expires, of a worker that died or of one that only stalls. *)
LoseLease(j) ==
  /\ holder[j] # NoWorker
  /\ \A w \in Workers : wpc[w] = "labelling" => wjob[w] # j
  /\ Unlock(j) /\ FailObject(j, LastTry(j))
  /\ UNCHANGED <<taskVars, base, previewVars, xrev, xrows, tries, workerVars, effects>>

Crash(w) ==
  /\ wpc[w] # "idle" /\ Leave(w)
  /\ UNCHANGED <<taskVars, ostat, base, previewVars, exportVars, jobVars, effects>>

-----------------------------------------------------------------------------
(* Workers: reading. *)

StatusAllowed(o) ==
  LET status == tstat[TaskOf[o]] IN
  CASE Kind[o] \in {"confirm", "analyze"} -> status = "mapping"
    [] Kind[o] \in {"edit", "apply_names", "names", "inspect"} -> status \in Editable
    [] Kind[o] = "apply_return" -> Kind[Source[o]] = "inspect" \/ status \in Editable
    [] Kind[o] = "export" -> status \in {"ready", "completed"}
    [] Kind[o] = "download" -> rev[TaskOf[o]] >= 1 /\ status \in Editable
    [] OTHER -> TRUE

PreviewAllowed(o) ==
  CASE Kind[o] = "flexible" -> pstat[Source[o]] \in {"structure", "row_review", "ready"}
    [] Kind[o] = "apply_return" -> pstat[Source[o]] = "ready"
    [] Kind[o] = "apply_names" -> pstat[Source[o]] # "deleted"
    [] OTHER -> TRUE

Decides(o) == Kind[o] \in {"flexible", "apply_return", "apply_names"}
MakesPreview(o) == Kind[o] \in {"return", "inspect", "names"}
Replaces(o) == Kind[o] = "apply_return" /\ Kind[Source[o]] = "inspect"

SlipBase(o) ==   \* slip: a preview's own revision is not used
  IF Kind[o] \in {"confirm", "analyze", "edit", "export"} THEN base[o] ELSE rev[TaskOf[o]]

(* The revision the body works on: of its request, of its preview, or the  *)
(* task's own when the body opens it.                                      *)
Base(o) == IF Decides(o) THEN pbase[Source[o]]
           ELSE IF MakesPreview(o) \/ Kind[o] = "download" THEN rev[TaskOf[o]] ELSE base[o]

(* A second attempt of an export finds the first one's before all else.    *)
Opens(o) ==
  \/ At(TaskOf[o], Base(o)) /\ StatusAllowed(o) /\ PreviewAllowed(o)
  \/ Exists(TaskOf[o]) /\ xstat[o] # "none"

(* run compares the revision before anything else. *)
Start(w) ==
  /\ wpc[w] = "started" /\ At(Task(w), base[Op(w)])
  /\ Goto(w, "opening")
  /\ UNCHANGED <<taskVars, ostat, base, previewVars, exportVars, jobVars, wjob, readVars, effects>>

AfterOpening(o) ==
  CASE Kind[o] \in {"edit", "names", "flexible", "apply_names"} -> "rows"
    [] Kind[o] = "export" -> IF xstat[o] = "none" THEN "rows" ELSE "result"
    [] Kind[o] = "apply_return" -> IF Replaces(o) THEN "checking" ELSE "rows"
    [] Kind[o] \in {"confirm", "return", "inspect"} -> "checking"
    [] Kind[o] = "analyze" -> "commit"
    [] OTHER -> "result"   \* download

(* The service reads the task and its preview.  The row of an uploaded     *)
(* return is written here, before the file is read.                        *)
OpenTask(w) ==
  LET o == Op(w) IN
  /\ wpc[w] = "opening" /\ Opens(o)
  /\ Goto(w, AfterOpening(o))
  /\ wbase' = [wbase EXCEPT ![w] = Base(o)]
  /\ wshown' = [wshown EXCEPT ![w] = IF Decides(o) THEN shown[Source[o]] ELSE NoOperation]
  /\ IF Kind[o] \in {"return", "inspect"}
     THEN /\ Fenced(w)
          /\ pstat' = [pstat EXCEPT ![o] = "draft"] /\ pbase' = [pbase EXCEPT ![o] = Base(o)]
     ELSE UNCHANGED <<pstat, pbase>>
  /\ UNCHANGED <<taskVars, ostat, base, shown, staged, saw, exportVars, jobVars, wjob, wrows, wgot,
                 effects>>

(* inspect_return: the same file was uploaded and applied before.          *)
AlreadyApplied(w) ==
  /\ wpc[w] = "opening" /\ Does(w) = "inspect" /\ Opens(Op(w))
  /\ \E p \in Operations :
       TaskOf[p] = Task(w) /\ Kind[p] \in {"return", "inspect"} /\ pstat[p] = "applied"
  /\ Goto(w, "result")
  /\ UNCHANGED <<taskVars, ostat, base, previewVars, exportVars, jobVars, wjob, readVars, effects>>

ReadRows(w) ==
  /\ wpc[w] = "rows" /\ Exists(Task(w))
  /\ wrows' = [wrows EXCEPT ![w] = rows[Task(w)]]
  /\ Goto(w, IF Does(w) = "return" THEN "commit" ELSE "checking")
  /\ UNCHANGED <<taskVars, ostat, base, previewVars, exportVars, jobVars, wjob, wbase, wshown, wgot,
                 effects>>

AfterChecking(o) ==
  CASE Kind[o] = "return" -> "rows"
    [] Kind[o] = "flexible" -> "staging"
    [] Replaces(o) -> "loading"
    [] OTHER -> "commit"

(* snapshot reads the revision again after the rows; preview_return before. *)
CheckRevision(w) ==
  /\ wpc[w] = "checking" /\ At(Task(w), wbase[w])
  /\ Goto(w, AfterChecking(Op(w)))
  /\ UNCHANGED <<taskVars, ostat, base, previewVars, exportVars, jobVars, wjob, readVars, effects>>

(* preview_flexible_return writes staged.json: a file, so no fence. *)
WriteStaged(w) ==
  /\ wpc[w] = "staging" /\ Goto(w, "commit")
  /\ staged' = [staged EXCEPT ![Src(w)] = Op(w)]
  /\ saw' = [saw EXCEPT ![Op(w)] = wrows[w]]
  /\ UNCHANGED <<taskVars, ostat, base, pstat, pbase, shown, exportVars, jobVars, wjob, readVars,
                 effects>>

LoadStaged(w) ==
  /\ wpc[w] = "loading" /\ staged[Src(w)] # NoOperation /\ Goto(w, "commit")
  /\ wgot' = [wgot EXCEPT ![w] = staged[Src(w)]]
  /\ wrows' = [wrows EXCEPT ![w] = saw[staged[Src(w)]]]
  /\ UNCHANGED <<taskVars, ostat, base, previewVars, exportVars, jobVars, wjob, wbase, wshown, effects>>

-----------------------------------------------------------------------------
(* Workers: committing. *)

committing == <<base, jobVars, wjob, readVars>>

SlipRecords(w) == {Op(w)}   \* slip: the rows it changed replace all of them

(* edit writes the rows it changed, apply of a structure all of them. *)
NewRecords(w) ==
  CASE Does(w) = "confirm" -> rows[Task(w)] \cup {Op(w)}
    [] Replaces(Op(w)) -> wrows[w] \cup {Op(w)}
    [] OTHER -> rows[Task(w)] \cup {Op(w)}

(* The counts and the status come from the records the body has computed. *)
NewCounted(w) == IF Does(w) = "confirm" THEN {Op(w)} ELSE wrows[w] \cup {Op(w)}

Commits(w) ==
  /\ wpc[w] = "commit" /\ Fenced(w) /\ At(Task(w), wbase[w])
  /\ effects' = [effects EXCEPT ![Op(w)] = @ + 1]

CommitRecords(w) ==
  /\ Commits(w) /\ Does(w) \in {"confirm", "edit", "apply_return", "apply_names"}
  /\ \E status \in {"maintenance", "ready"} :
       Revise(Task(w), NewRecords(w), NewCounted(w), status)
  /\ Goto(w, IF Does(w) = "apply_return" /\ ~Replaces(Op(w)) THEN "label" ELSE "result")
  /\ IF Replaces(Op(w)) THEN pstat' = [pstat EXCEPT ![Src(w)] = "applied"] ELSE UNCHANGED pstat
  /\ shown' = IF Replaces(Op(w)) THEN [shown EXCEPT ![Src(w)] = wshown[w]] ELSE shown
  /\ UNCHANGED <<ostat, pbase, staged, saw, exportVars, committing>>

CommitAnalysis(w) ==
  /\ Commits(w) /\ Does(w) = "analyze" /\ tstat[Task(w)] = "mapping"
  /\ KeepRecords(Task(w), "mapping") /\ Goto(w, "result")
  /\ UNCHANGED <<ostat, previewVars, exportVars, committing>>

(* apply_return marks the preview in a transaction after that of the edit. *)
LabelPreview(w) ==
  /\ wpc[w] = "label" /\ Fenced(w) /\ pstat[Src(w)] # "deleted"
  /\ pstat' = [pstat EXCEPT ![Src(w)] = "applied"] /\ Goto(w, "result")
  /\ UNCHANGED <<taskVars, ostat, pbase, shown, staged, saw, exportVars, committing, effects>>

SavePreview(w) ==
  LET o == Op(w)
      p == IF Kind[o] = "flexible" THEN Src(w) ELSE o
  IN  /\ wpc[w] = "commit" /\ Fenced(w) /\ pstat[p] # "deleted"
      /\ MakesPreview(o) \/ Kind[o] = "flexible"
      /\ Kind[o] = "names" => At(Task(w), wbase[w])
      /\ \E status \in CASE Kind[o] = "inspect" -> {"structure"}
                         [] Kind[o] = "flexible" -> {"row_review", "ready"}
                         [] OTHER -> {"ready"} : pstat' = [pstat EXCEPT ![p] = status]
      /\ pbase' = [pbase EXCEPT ![p] = IF Kind[o] = "flexible" THEN @ ELSE wbase[w]]
      /\ shown' = [shown EXCEPT ![p] = o]
      /\ saw' = [saw EXCEPT ![o] = wrows[w]]
      /\ Goto(w, "result")
      /\ UNCHANGED <<taskVars, ostat, staged, exportVars, committing, effects>>

(* create_export locks the task's row at its revision; a second attempt    *)
(* finds the export of the first.                                          *)
CommitExport(w) ==
  LET o == Op(w) IN
  /\ wpc[w] = "commit" /\ Does(w) = "export"
  /\ At(Task(w), wbase[w]) /\ tstat[Task(w)] \in {"ready", "completed"}
  /\ \/ xstat[o] # "none" /\ UNCHANGED <<exportVars, effects>>
     \/ /\ xstat[o] = "none" /\ Fenced(w)
        /\ xstat' = [xstat EXCEPT ![o] = "processing"]
        /\ xrev' = [xrev EXCEPT ![o] = wbase[w]]
        /\ xrows' = [xrows EXCEPT ![o] = wrows[w]]
        /\ effects' = [effects EXCEPT ![o] = @ + 1]
  /\ Goto(w, "result")
  /\ UNCHANGED <<taskVars, ostat, previewVars, committing>>

(* The result file, then the operation's status; finish follows. *)
Report(w) ==
  /\ wpc[w] = "result" /\ Fenced(w)
  /\ ostat' = [ostat EXCEPT ![Op(w)] = "ready"]
  /\ Unlock(wjob[w]) /\ Leave(w)
  /\ UNCHANGED <<taskVars, base, previewVars, exportVars, tries, effects>>

-----------------------------------------------------------------------------
(* Workers: generating an export. *)

SlipLabels(w) == tstat[Task(w)] \in {"ready", "completed"}   \* slip: of any revision
Labels(w) == rev[Task(w)] = xrev[Op(w)] /\ tstat[Task(w)] \in {"ready", "completed"}

Generated(w) ==
  /\ xstat' = [xstat EXCEPT ![Op(w)] = "completed"]
  /\ Unlock(wjob[w]) /\ Leave(w)
  /\ UNCHANGED <<rev, rows, counted, past, ostat, base, previewVars, xrev, xrows, tries, effects>>

(* The export is saved and the task is read.  Its revision may move before *)
(* it is saved in the same transaction, which is rolled back then.         *)
Generate(w) ==
  /\ wpc[w] = "generating" /\ Fenced(w) /\ xstat[Op(w)] = "processing"
  /\ \/ /\ Labels(w) /\ Goto(w, "labelling")
        /\ wbase' = [wbase EXCEPT ![w] = rev[Task(w)]]
        /\ UNCHANGED <<taskVars, ostat, base, previewVars, exportVars, jobVars, wjob, wrows, wshown,
                       wgot, effects>>
     \/ /\ ~Labels(w) /\ Generated(w) /\ UNCHANGED tstat

LabelTask(w) ==
  /\ wpc[w] = "labelling" /\ At(Task(w), wbase[w])
  /\ tstat' = [tstat EXCEPT ![Task(w)] = "completed"]
  /\ Generated(w)

-----------------------------------------------------------------------------
(* Workers: errors. *)

(* A comparison or the fence fails, at the step the body has come to. *)
Blocked(w) ==
  LET o == Op(w)
      t == Task(w)
  IN  \/ wpc[w] = "started" /\ ~At(t, base[o])
      \/ /\ wpc[w] = "opening"
         /\ \/ ~Opens(o)
            \/ Kind[o] \in {"return", "inspect"} /\ ~Fenced(w)
      \/ wpc[w] = "rows" /\ ~Exists(t)
      \/ wpc[w] = "checking" /\ ~At(t, wbase[w])
      \/ wpc[w] = "loading" /\ staged[Src(w)] = NoOperation   \* deleted with the task
      \/ wpc[w] = "commit" /\ Kind[o] # "export" /\ ~Fenced(w)
      \/ /\ wpc[w] = "commit" /\ Kind[o] \notin {"return", "inspect", "flexible"}
         /\ ~At(t, wbase[w])
      \/ wpc[w] = "commit" /\ Kind[o] = "analyze" /\ tstat[t] # "mapping"
      \/ /\ wpc[w] = "commit" /\ Kind[o] = "export"
         /\ tstat[t] \notin {"ready", "completed"} \/ (xstat[o] = "none" /\ ~Fenced(w))
      \/ wpc[w] \in {"label", "result", "generating"} /\ ~Fenced(w)
      \/ wpc[w] = "labelling" /\ ~At(t, wbase[w])

Conflict(w) == wpc[w] # "idle" /\ Blocked(w) /\ Raise(w, TRUE)

(* The file, the rules or the mapping are found invalid; or the disk is    *)
(* full when the result is written, after the commit.                      *)
Invalid(w) == wpc[w] \in {"opening", "commit", "result", "generating"} /\ Raise(w, TRUE)

(* The model does not answer, or the queue is full for an export. *)
Transient(w) ==
  /\ wpc[w] = "commit" /\ Does(w) \in {"analyze", "export"} /\ Raise(w, FALSE)

Work(w) ==
  \/ Start(w) \/ OpenTask(w) \/ AlreadyApplied(w) \/ ReadRows(w) \/ CheckRevision(w)
  \/ WriteStaged(w) \/ LoadStaged(w)
  \/ CommitRecords(w) \/ CommitAnalysis(w) \/ LabelPreview(w) \/ SavePreview(w) \/ CommitExport(w)
  \/ Report(w) \/ Generate(w) \/ LabelTask(w)

Next ==
  \/ \E t \in Tasks :
       \/ CreateTask(t) \/ Parsed(t) \/ ParseFailed(t) \/ Cancel(t) \/ Retry(t)
       \/ ReopenMapping(t) \/ DeleteTask(t)
  \/ \E o \in Operations : CreateOperation(o)
  \/ \E j \in Job : LoseLease(j)
  \/ \E w \in Workers :
       \/ \E j \in Job : Begin(w, j)
       \/ Work(w) \/ Conflict(w) \/ Invalid(w) \/ Transient(w) \/ Crash(w)

Spec == Init /\ [][Next]_vars

-----------------------------------------------------------------------------
(* Properties. *)

Changes(o) == Kind[o] \in {"confirm", "analyze", "edit", "apply_return", "apply_names", "export"}
Applies(o) == Kind[o] \in {"apply_return", "apply_names"}

(* The counts and the status of a task come from the records it has: an    *)
(* edit that worked on older records is never saved over newer ones.       *)
CountsMatchRecords == \A t \in Tasks : Exists(t) => counted[t] = rows[t]

(* No change of the records is lost to another one: records lose a change  *)
(* only when the mapping is confirmed anew or the task is deleted, whatever *)
(* edits, returns and repeated attempts commit, and in whatever order.     *)
NoChangeLost ==
  [][\A t \in Tasks : rows[t] \subseteq rows'[t] \/ tstat'[t] \in {"mapping", "deleted"}]_vars

(* A return or a list of names is applied to the records its differences   *)
(* were made from, although the rows are read after the revision then, and *)
(* the file of a structure's rows is written long before.                  *)
AppliedToItsBase ==
  [][\A w \in Workers :
       wpc[w] = "commit" /\ wpc'[w] \in {"label", "result"} /\ Applies(Op(w)) =>
         (IF Replaces(Op(w)) THEN wrows[w] ELSE saw[Src(w)]) = rows[Task(w)]]_vars

(* An operation commits at most once over all of its attempts, and when it *)
(* is reported ready it has committed; two applications of one preview do  *)
(* not both commit.                                                        *)
TakesEffectOnce ==
  /\ \A o \in Operations :
       /\ effects[o] <= 1
       /\ ostat[o] = "ready" /\ Changes(o) => effects[o] = 1
  /\ \A a, b \in Operations :
       a # b /\ Applies(a) /\ Applies(b) /\ Source[a] = Source[b] => effects[a] + effects[b] <= 1

(* The snapshot of an export holds the records of the revision it names.   *)
ExportOfItsRevision ==
  \A o \in Operations :
    xstat[o] \in {"processing", "completed", "failed"} => xrows[o] = past[TaskOf[o]][xrev[o]]

(* A task is completed only at a revision that has a complete export: a    *)
(* late export of an older revision does not label a newer one.            *)
CompletedByItsExport ==
  \A t \in Tasks : tstat[t] = "completed" =>
    \E o \in Operations : TaskOf[o] = t /\ xstat[o] = "completed" /\ xrev[o] = rev[t]

(* An operation that is refused because the data were updated while it was *)
(* queued has not updated them itself.                                     *)
RefusedForOthersChange ==
  \A w \in Workers :
    wpc[w] = "started" /\ Fenced(w) /\ Exists(Task(w)) /\ ~At(Task(w), base[Op(w)]) =>
      effects[Op(w)] = 0

(* What is saved to the task is what the preview showed when its           *)
(* application read it: the file of its rows is not of other decisions.    *)
AppliesWhatWasShown ==
  \A w \in Workers : wpc[w] = "result" /\ Replaces(Op(w)) => wgot[w] = wshown[w]
=============================================================================
