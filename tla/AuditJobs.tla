----------------------------- MODULE AuditJobs -----------------------------
(***************************************************************************)
(* One audit job: its directory (status.json, the cancel marker), its row  *)
(* in the database and the objects it put in the artifact store.  A worker *)
(* runs the job along the plan of its kind; the thread that submitted it,  *)
(* the cancel and delete requests and the purge rewrite the same files.    *)
(*                                                                         *)
(* Nothing locks status.json.  Every writer reads it, builds the new text, *)
(* writes it to the one status.tmp of the directory, renames that onto     *)
(* status.json and then copies its own text to the row: four steps here.   *)
(***************************************************************************)
EXTENDS Integers, Sequences, FiniteSets

CONSTANTS Kinds,      \* of "comparison", "product", "merchant", "field"
          Calls       \* API requests on the job: cancel or delete

Worker    == "worker"
Submitter == "submitter"
Writers   == Calls \cup {Worker, Submitter}
Terminal  == {"completed", "failed", "cancelled", "manual_review"}
Gone      == [status |-> "gone"]

ASSUME AuditJobsAssumption ==
    /\ Kinds \subseteq {"comparison", "product", "merchant", "field"}
    /\ Worker \notin Calls /\ Submitter \notin Calls

VARIABLES
    jobKind,     \* the kind of the job
    jobFile,     \* status.json, Gone once the directory is removed
    jobStaged,   \* status.tmp, Gone when there is none
    jobRow,      \* the row of comparison_jobs, Gone when purged
    jobMarker,   \* whether cancel.requested exists
    jobStore,    \* the objects of the job in the artifact store
    jobPen,      \* writer -> what it is writing and how far it is
    jobRun,      \* where the worker is
    jobPurge,    \* where the purge of this job is
    jobOld,      \* the retention or the delay after deletion has passed
    jobOverlap   \* history: two writers were at work at the same time

jobVars == <<jobKind, jobFile, jobStaged, jobRow, jobMarker, jobStore, jobPen,
             jobRun, jobPurge, jobOld, jobOverlap>>

-----------------------------------------------------------------------------
(* The plans: what a run of each kind does to the job, in order.  "check"  *)
(* looks for the cancel marker, "work" may raise, "store" puts an object   *)
(* in the artifact store, "write" publishes a status, "last" a terminal    *)
(* one, and "skip" is a branch on what the workbook is like.               *)

Check       == [do |-> "check"]
Work        == [do |-> "work"]
Put(o)      == [do |-> "store", object |-> o]
Write(s, o) == [do |-> "write", to |-> {s}, keys |-> o]
Skip(n)     == [do |-> "skip", steps |-> n]
Last(S)     == [do |-> "last", to |-> S, keys |-> {"report"}]

ComparisonPlan ==
    << Check, Write("validating", {}), Work, Check, Put("snapshot"),
       Write("comparing", {"snapshot"}), Work, Check, Work,
       Skip(2), Put("report"), Last({"manual_review", "completed"}),
       Write("rendering", {}), Check, Work, Put("report"), Last({"completed"}) >>

ProductPlan ==
    << Write("validating", {}), Check, Work, Check,
       Write("catalog_resolving", {}), Work, Check, Work,
       Skip(4), Check, Write("rendering", {}), Work, Check,
       Put("report"), Check, Last({"manual_review", "completed"}) >>

MerchantPlan ==
    << Write("discovering", {}), Check, Work, Write("matching", {}), Check,
       Work, Write("rendering", {}), Work, Put("report"), Last({"completed"}) >>

FieldPlan ==
    << Write("loading_standard", {}), Check, Work, Write("reading_excel", {}),
       Work, Check, Work, Write("comparing", {}), Work, Check, Work,
       Put("report"), Last({"manual_review", "completed"}) >>

Plan == [comparison |-> ComparisonPlan, product |-> ProductPlan,
         merchant |-> MerchantPlan, field |-> FieldPlan]

Statuses == Terminal \cup
    {"queued", "validating", "comparing", "rendering", "catalog_resolving",
     "discovering", "matching", "loading_standard", "reading_excel"}

Doc == [status : Statuses, keys : SUBSET {"snapshot", "report"},
        named : BOOLEAN, asked : BOOLEAN, deleted : BOOLEAN]

-----------------------------------------------------------------------------
(* The four steps of a write.                                              *)

Idle == [at |-> "idle", doc |-> Gone]

(* Read status.json and build the new text from what was read; a cancel    *)
(* writes its marker before the text.                                      *)
Begin(w, at, doc) ==
    /\ jobPen[w] = Idle
    /\ jobPen' = [jobPen EXCEPT ![w] = [at |-> at, doc |-> doc]]
    /\ jobOverlap' = (jobOverlap \/ \E v \in Writers \ {w} : jobPen[v] # Idle)

(* Write status.tmp; the directory may be gone. *)
StageDoc(w) ==
    /\ jobPen[w].at = "stage" /\ jobFile # Gone
    /\ jobStaged' = jobPen[w].doc
    /\ jobPen' = [jobPen EXCEPT ![w].at = "publish"]
    /\ UNCHANGED <<jobKind, jobFile, jobRow, jobMarker, jobStore, jobRun,
                   jobPurge, jobOld, jobOverlap>>

(* Rename status.tmp onto status.json: what it holds now, whoever wrote it. *)
(* A job just deleted is kept for the delay after deletion.                *)
PublishDoc(w) ==
    /\ jobPen[w].at = "publish" /\ jobStaged # Gone
    /\ jobFile' = jobStaged
    /\ jobOld' = (jobOld /\ jobStaged.deleted = jobFile.deleted)
    /\ jobStaged' = Gone
    /\ jobPen' = [jobPen EXCEPT ![w].at = "row"]
    /\ UNCHANGED <<jobKind, jobRow, jobMarker, jobStore, jobRun, jobPurge,
                   jobOverlap>>

(* DatabaseRepository.update_job: the keys of the payload overwrite the    *)
(* row, the snapshot of an earlier payload stays.  A purged row is left.   *)
UpdateJob(doc) ==
    jobRow' = IF jobRow = Gone THEN Gone
              ELSE [status   |-> doc.status,
                    snapshot |-> jobRow.snapshot \/ "snapshot" \in doc.keys,
                    leased   |-> FALSE]

(* After a write the worker goes on with its plan, after a terminal status *)
(* it is done; after the write of a handler the run has ended.             *)
AfterWrite ==
    IF jobRun.at # "run" THEN [jobRun EXCEPT !.at = "ended"]
    ELSE IF Plan[jobKind][jobRun.step].do = "last" THEN [jobRun EXCEPT !.at = "done"]
    ELSE [jobRun EXCEPT !.step = @ + 1]

SaveRow(w) ==
    /\ jobPen[w].at = "row"
    /\ UpdateJob(jobPen[w].doc)
    /\ jobPen' = [jobPen EXCEPT ![w] = Idle]
    /\ jobRun' = IF w = Worker THEN AfterWrite ELSE jobRun
    /\ UNCHANGED <<jobKind, jobFile, jobStaged, jobMarker, jobStore, jobPurge,
                   jobOld, jobOverlap>>

(* The rename finds no status.tmp, or the directory is gone: the call gets *)
(* an error; the run goes to its failure handler, and leaves it if the     *)
(* error comes from a handler or from the write a product run does first.  *)
Escapes == jobRun.at # "run" \/ (jobKind = "product" /\ jobRun.step = 1)

WriteRaises(w) ==
    /\ \/ jobPen[w].at = "publish" /\ jobStaged = Gone
       \/ jobPen[w].at \in {"mark", "stage", "publish"} /\ jobFile = Gone
    /\ jobPen' = [jobPen EXCEPT ![w] = Idle]
    /\ jobRun' = IF w # Worker THEN jobRun
                 ELSE IF Escapes THEN [jobRun EXCEPT !.at = "ended"]
                 ELSE [jobRun EXCEPT !.at = "failing"]
    /\ UNCHANGED <<jobKind, jobFile, jobStaged, jobRow, jobMarker, jobStore,
                   jobPurge, jobOld, jobOverlap>>

-----------------------------------------------------------------------------
(* The run.                                                                *)

AtStep(do) == /\ jobRun.at = "run" /\ jobPen[Worker] = Idle
              /\ Plan[jobKind][jobRun.step].do = do

NextStep == jobRun' = [jobRun EXCEPT !.step = @ + 1]

(* worker.run_job: WorkerControl.start takes the row of a comparison from  *)
(* queued to running by compare-and-set; the other kinds just run.         *)
StartRun ==
    /\ jobRun.at = "queued" /\ jobRow # Gone
    /\ jobKind = "comparison" => jobRow.status = "queued"
    /\ jobRun' = [jobRun EXCEPT !.at = "run"]
    /\ jobRow' = IF jobKind # "comparison" THEN jobRow
                 ELSE [jobRow EXCEPT !.status = "running", !.leased = TRUE]
    /\ UNCHANGED <<jobKind, jobFile, jobStaged, jobMarker, jobStore, jobPen,
                   jobPurge, jobOld, jobOverlap>>

(* AuditService._check_cancelled *)
CheckCancelled ==
    /\ AtStep("check")
    /\ IF jobMarker THEN jobRun' = [jobRun EXCEPT !.at = "cancelling"] ELSE NextStep
    /\ UNCHANGED <<jobKind, jobFile, jobStaged, jobRow, jobMarker, jobStore,
                   jobPen, jobPurge, jobOld, jobOverlap>>

DoWork ==
    /\ AtStep("work")
    /\ NextStep \/ jobRun' = [jobRun EXCEPT !.at = "failing"]
    /\ UNCHANGED <<jobKind, jobFile, jobStaged, jobRow, jobMarker, jobStore,
                   jobPen, jobPurge, jobOld, jobOverlap>>

PutObject ==
    /\ AtStep("store")
    /\ jobStore' = jobStore \cup {Plan[jobKind][jobRun.step].object}
    /\ NextStep
    /\ UNCHANGED <<jobKind, jobFile, jobStaged, jobRow, jobMarker, jobPen,
                   jobPurge, jobOld, jobOverlap>>

WriteStatus ==
    /\ AtStep("write") \/ AtStep("last")
    /\ jobFile # Gone
    /\ LET s == Plan[jobKind][jobRun.step]
       IN  \E status \in s.to :
              Begin(Worker, "stage", [jobFile EXCEPT !.status = status,
                                            !.keys = @ \cup s.keys])
    /\ UNCHANGED <<jobKind, jobFile, jobStaged, jobRow, jobMarker, jobStore,
                   jobRun, jobPurge, jobOld>>

(* Whether the workbook is reported only, or must be reviewed first. *)
Branch ==
    /\ AtStep("skip")
    /\ \E n \in {1, Plan[jobKind][jobRun.step].steps + 1} :
          jobRun' = [jobRun EXCEPT !.step = @ + n]
    /\ UNCHANGED <<jobKind, jobFile, jobStaged, jobRow, jobMarker, jobStore,
                   jobPen, jobPurge, jobOld, jobOverlap>>

(* Slip: the handlers end the run and leave the status to the caller. *)
SlipHandleError ==
    /\ jobRun.at \in {"cancelling", "failing"} /\ jobPen[Worker] = Idle
    /\ jobRun' = [jobRun EXCEPT !.at = "ended"]
    /\ UNCHANGED <<jobKind, jobFile, jobStaged, jobRow, jobMarker, jobStore,
                   jobPen, jobPurge, jobOld, jobOverlap>>

(* The handlers of JobCancelled and of every other exception. *)
HandleError ==
    /\ jobRun.at \in {"cancelling", "failing"} /\ jobPen[Worker] = Idle
    /\ jobFile # Gone
    /\ Begin(Worker, "stage", [jobFile EXCEPT !.status = IF jobRun.at = "failing"
                                                THEN "failed" ELSE "cancelled"])
    /\ UNCHANGED <<jobKind, jobFile, jobStaged, jobRow, jobMarker, jobStore,
                   jobRun, jobPurge, jobOld>>

(* The process of the worker dies; what it staged stays. *)
KillWorker ==
    /\ jobRun.at \in {"run", "cancelling", "failing"}
    /\ jobRun' = [jobRun EXCEPT !.at = "killed"]
    /\ jobPen' = [jobPen EXCEPT ![Worker] = Idle]
    /\ UNCHANGED <<jobKind, jobFile, jobStaged, jobRow, jobMarker, jobStore,
                   jobPurge, jobOld, jobOverlap>>

-----------------------------------------------------------------------------
(* The API.                                                                *)

(* AuditService.record_input_metadata, by the thread that made the job. *)
RecordInputMetadata ==
    /\ jobRun.at = "unsent" /\ ~jobRun.named
    /\ jobRun' = [jobRun EXCEPT !.named = TRUE]
    /\ Begin(Submitter, "stage", [jobFile EXCEPT !.named = TRUE])
    /\ UNCHANGED <<jobKind, jobFile, jobStaged, jobRow, jobMarker, jobStore,
                   jobPurge, jobOld>>

(* The same thread enqueues the run; an error leaves the job queued. *)
EnqueueRun ==
    /\ jobRun.at = "unsent" /\ jobRun.named /\ jobPen[Submitter] = Idle
    /\ \E sent \in {"queued", "refused"} : jobRun' = [jobRun EXCEPT !.at = sent]
    /\ UNCHANGED <<jobKind, jobFile, jobStaged, jobRow, jobMarker, jobStore,
                   jobPen, jobPurge, jobOld, jobOverlap>>

(* AuditService.request_cancel: the marker, then the status read before. *)
RequestCancel(c) ==
    /\ jobFile # Gone /\ ~jobFile.deleted /\ jobFile.status \notin Terminal
    /\ Begin(c, "mark", [jobFile EXCEPT !.asked = TRUE])
    /\ UNCHANGED <<jobKind, jobFile, jobStaged, jobRow, jobMarker, jobStore,
                   jobRun, jobPurge, jobOld>>

WriteMarker(c) ==
    /\ jobPen[c].at = "mark" /\ jobFile # Gone
    /\ jobMarker' = TRUE
    /\ jobPen' = [jobPen EXCEPT ![c].at = "stage"]
    /\ UNCHANGED <<jobKind, jobFile, jobStaged, jobRow, jobStore, jobRun,
                   jobPurge, jobOld, jobOverlap>>

(* AuditService.soft_delete *)
SoftDelete(c) ==
    /\ jobFile # Gone /\ ~jobFile.deleted /\ jobFile.status \in Terminal
    /\ Begin(c, "stage", [jobFile EXCEPT !.deleted = TRUE])
    /\ UNCHANGED <<jobKind, jobFile, jobStaged, jobRow, jobMarker, jobStore,
                   jobRun, jobPurge, jobOld>>

-----------------------------------------------------------------------------
(* AuditService.purge_expired: the objects named by the status, the row,   *)
(* the directory, and a crash between any two of them.                     *)

(* Days pass: no request of today is still at work. *)
GetOld ==
    /\ ~jobOld /\ jobRun.at \notin {"run", "cancelling", "failing", "queued", "unsent"}
    /\ \A w \in Writers : jobPen[w] = Idle
    /\ jobOld' = TRUE
    /\ UNCHANGED <<jobKind, jobFile, jobStaged, jobRow, jobMarker, jobStore,
                   jobPen, jobRun, jobPurge, jobOverlap>>

PurgeObjects ==
    /\ jobPurge = "idle" /\ jobOld /\ jobFile # Gone /\ jobFile.status \in Terminal
    /\ jobStore' = jobStore \ jobFile.keys
    /\ jobPurge' = "row"
    /\ UNCHANGED <<jobKind, jobFile, jobStaged, jobRow, jobMarker, jobPen,
                   jobRun, jobOld, jobOverlap>>

(* Slip: the directory goes first. *)
SlipPurgeRow ==
    /\ jobPurge = "row"
    /\ jobFile' = Gone /\ jobStaged' = Gone /\ jobMarker' = FALSE
    /\ jobPurge' = "idle"
    /\ UNCHANGED <<jobKind, jobRow, jobStore, jobPen, jobRun, jobOld, jobOverlap>>

PurgeRow ==
    /\ jobPurge = "row"
    /\ jobRow' = Gone
    /\ jobPurge' = "tree"
    /\ UNCHANGED <<jobKind, jobFile, jobStaged, jobMarker, jobStore, jobPen,
                   jobRun, jobOld, jobOverlap>>

PurgeTree ==
    /\ jobPurge = "tree"
    /\ jobFile' = Gone /\ jobStaged' = Gone /\ jobMarker' = FALSE
    /\ jobPurge' = "idle"
    /\ UNCHANGED <<jobKind, jobRow, jobStore, jobPen, jobRun, jobOld, jobOverlap>>

PurgeStops ==
    /\ jobPurge # "idle"
    /\ jobPurge' = "idle"
    /\ UNCHANGED <<jobKind, jobFile, jobStaged, jobRow, jobMarker, jobStore,
                   jobPen, jobRun, jobOld, jobOverlap>>

-----------------------------------------------------------------------------
NewDoc == [status |-> "queued", keys |-> {}, named |-> FALSE, asked |-> FALSE,
           deleted |-> FALSE]

JobInit ==
    /\ jobKind \in Kinds
    /\ jobFile = NewDoc
    /\ jobStaged = Gone
    /\ jobRow = [status |-> "queued", snapshot |-> FALSE, leased |-> FALSE]
    /\ jobMarker = FALSE
    /\ jobStore = {}
    /\ jobPen = [w \in Writers |-> Idle]
    /\ jobRun = [at |-> "unsent", step |-> 1, named |-> FALSE]
    /\ jobPurge = "idle"
    /\ jobOld = FALSE
    /\ jobOverlap = FALSE

RunNext == \/ StartRun \/ CheckCancelled \/ DoWork \/ PutObject \/ WriteStatus
           \/ Branch \/ HandleError \/ KillWorker

CallNext == \/ RecordInputMetadata \/ EnqueueRun
            \/ \E c \in Calls : RequestCancel(c) \/ WriteMarker(c) \/ SoftDelete(c)

PurgeNext == GetOld \/ PurgeObjects \/ PurgeRow \/ PurgeTree \/ PurgeStops

JobNext ==
    \/ RunNext \/ CallNext \/ PurgeNext
    \/ \E w \in Writers : StageDoc(w) \/ PublishDoc(w) \/ SaveRow(w) \/ WriteRaises(w)

JobSpec == JobInit /\ [][JobNext]_jobVars

-----------------------------------------------------------------------------
(* Properties.                                                             *)

(* However a run ends (last status, cancel, error), the job is terminal in *)
(* status.json and the row says the same, unless two writers overlapped or *)
(* the process died: no way out of AuditService.run and the other runs     *)
(* forgets to write, and no check comes too late to be written.            *)
SettledAgrees ==
    /\ jobRun.at \in {"done", "ended"} /\ ~jobOverlap
    /\ jobFile # Gone /\ \A w \in Writers : jobPen[w] = Idle
    => /\ jobFile.status \in Terminal
       /\ jobRow # Gone => jobRow.status = jobFile.status

(* A purge can stop between any two steps and be run again: the directory, *)
(* the only record of what is left to do, goes last, so a job without one  *)
(* has no row, and no object if its run came to its end undisturbed.       *)
PurgeLeavesNothing ==
    jobFile = Gone => /\ jobRow = Gone
                      /\ jobRun.at = "done" /\ ~jobOverlap => jobStore = {}

(* status.json can lose the snapshot of the job to a stale writer; the row, *)
(* by which purge_job finds the snapshot, keeps it until the purge.        *)
SnapshotStaysReferenced ==
    [][jobRow # Gone /\ jobRow.snapshot => jobRow' = Gone \/ jobRow'.snapshot]_jobVars

=============================================================================
