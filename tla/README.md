# A verification of ExcelFlow in TLA+

ExcelFlow is a web service that turns customers' workbooks into checked product tables. Users upload
workbooks and templates; slow work (parsing, AI mapping, comparison, exports) runs in RQ workers; the data
base, a directory per job and Redis are where the API, the dispatchers and the workers meet. This directory
holds TLA+ modules for that, TLC runs on small instances, and proofs for every size of instance.

Paths below are relative to `src/excel_auditor/` of the repository unless they begin with `docs/` or `services/`.

## 1. The system

| component | state it keeps | operations | what makes it correct |
|---|---|---|---|
| **Durable executions** `workflow/execution.py`, `repository.py` | rows of `workflow_objects` (status, revision) and `workflow_executions` (status, attempts, token, lease, available_at) | create, claim of a revision, save, schedule, claim, heartbeat, fence, finish, recover, dispatch | every open revision gets one outcome, its own; no stale worker writes; attempts are bounded and not lost |
| **Capacity** `workflow/capacity.py` | `workflow_resource_leases`, the capacity lock | admit, can_run, acquire, heartbeat, close | limits hold over executions and interactive leases together |
| **RQ adapter** `queueing.py` | jobs in Redis | enqueue, is-active | an active job is not doubled, a dead one is replaced |
| **Tasks** `workflow/tasks.py`, `routes.py`, `progress.py` | the task's payload, records, audit revisions | create, parse, confirm, edit, reopen, analyse, export, cancel, retry, delete | a revision is never overwritten by work on another one |
| **Templates** `workflow/templates.py` | the template's payload, sample files, family | create, upload, retry, reparse, learn, update, trial, publish, delete | a published template is fixed; a used one stays |
| **Operations** `workflow/operations.py` | one object per request | create, run, hand-off of an export | the effect happens once and is reported as it happened |
| **Returns, names** `workflow/return_import.py`, `source_merges.py`, `name_confirmation.py` | previews against a task revision | download, inspect, choose, preview, apply | a row keeps its identity; what is applied is what was shown |
| **Mapping runtime** `workflow/mapping_runtime.py` | futures in process, results and a lock in Redis | submit, compute, collect | one request per key, the answer of its own batch |
| **Comparison jobs** `service.py`, `worker.py`, `api.py` | `status.json` per job, cancel marker, idempotency files, quota lock, row, artifacts | create, run, cancel, delete, purge | file and row agree in the end; one job per key; the quota holds |
| **Comparison leases** `worker_control.py`, `persistence.py` | job rows with worker and lease | start, heartbeat, complete, fail, requeue | a job has one worker and attempts left when queued |
| **Product workflow** `product_workflow/` | reviews as rows and in `product-workflow.json`, revisions, `.revision.lock` | run, decide, revise | a revision comes of decided reviews and follows them; no row or column is dropped |
| **Field reconciliation** `field_reconciliation*.py` | mappings, decisions, report, a revision counter, `field-mutation.lock` | upload, confirm, retry, cancel, run | the report shown is that of the revision and its decisions |
| **Accounts** `auth_service.py`, `auth_limits.py` | failure counts in Redis or SQL, the locked row | login, lock, clear, reset | the limit holds whichever store counts |
| **Comparison engine** `engine.py`, `partitioned_join.py`, `record_store.py`, `workbook.py` | none between calls | locate the header row, map columns, join, differences, repairs | a clean report is the truth; repairs are safe and converge |
| **Renderer** `services/excel_renderer/Program.cs`, `service.py` | the workbook it writes | marks, repairs, insertions, new rows, worksheets | every value, colour, comment and reference is where the manifest wants it |
| **Standards** `standard_files.py`, `standard_sources.py`, `snapshots.py`, `pandera_adapter.py`, `validators.py` | records in a run, the snapshot file, its digest, object and row | load, fetch page by page, name columns, validate, write, read back | what is compared is what was supplied, each row once |
| **Merchant products** `product_workflow/merchant_*.py`, `sheet_discovery.py`, `product_matcher.py`, `reconciler.py`, `workbook_writer.py` | none between runs | find worksheets and headers, list products, match, reconcile, write the summary | no product is lost, none is matched past its own, each mark is about its row |
| **Rules** `rules.py`, `api.py`, `persistence.py` | a file and a row per version, drafts | create, edit, publish a draft, publish a schema | a version that was published stays what it is |
| Readers and writers of workbooks, uploads, web client | see section 9 | | |

How they meet. A request of the API opens a transaction, takes the next revision of an object
(`store.claim`) and saves it; if its new status needs work, `save` also writes the execution row
(`schedule`) in the same transaction, after `admit` has counted the queue under the capacity lock.
Any API request and the recovery process then *dispatch*: recover lapsed leases, scan for due rows,
ask RQ whether their job is active, reserve the row by compare-and-set, enqueue the job
`<execution>_<attempt>`. A worker that receives the job *claims* the row (or defers it when all slots
are taken), works for minutes while a thread beats its lease, publishes under `fence`, and *finishes*.
Comparison, product, merchant and field jobs are older and go another way: the API writes a directory with
`status.json`, inserts a row and enqueues; the worker rewrites the same file and copies it to the row. Their
results become a manifest of operations that the renderer, a process of its own, carries out on a copy of
the upload.

What is hard: a worker that stalls past its lease; dispatchers racing each other; RQ losing,
repeating or keeping jobs; users that cancel, retry and delete while an execution of the old revision
still runs; the transaction-free gap between the decision to defer and its write; limits counted over
several tables; files rewritten whole from a stale read, by several writers and without a lock; locks that are
files or directories and are removed by their age; the same fact kept in a file, a row and a cache; and
algorithms that are run again on their own results (repairs, returns, revisions, insertions one after the other).
`PROJECT.json` lists every such hazard at its line.

## 2. Modules

| module | contents |
|---|---|
| `Executions` | the core: objects, executions, capacity, RQ, workers, dispatchers, sessions; its properties |
| `Requests`, `ExecutionsRefinement` | what users are promised, one outcome per revision and no executions in sight; the refinement mapping to it |
| `TaskLifecycle` | what operations, exports and users do to a task, its records and its previews |
| `AuditJobs` | one comparison, product, merchant or field job: its file, row, marker, objects, run and purge |
| `JobAdmission` | idempotency keys, the quota and its lock, the workspace limit, the queue |
| `MappingCache` | the shared futures of a process, its threads, the results and locks in Redis |
| `WorkerLeases` | the compare-and-set steps on the row of a job and the sweep over lapsed leases |
| `LoginLimits` | logins of one account: counters in Redis and SQL, the locked row |
| `MaintenanceReturns` | a workbook goes out, is changed in Excel and comes back, beside edits in the browser |
| `ProductReviews` | rounds of reviews and revisions of one product job |
| `FieldJobs` | the runs, confirms, retries and cancels of one field reconciliation |
| `Comparison` | the join of a worksheet with the standard, the differences, the repairs, the next submission |
| `WorkbookHeaders` | worksheet, header row and columns of a rule; the plan of insertions and its execution |
| `Rendering` | the manifest, its order, and what each operation does to cells, comments, references and worksheets; uses the plan of `WorkbookHeaders` |
| `ProductTables` | rows of a supplier to tables of categories, reviews, and the revision made of the answers |
| `StandardData` | the standard records of one comparison, from an upload or a source to what is read back of the snapshot |
| `MerchantProducts` | a merchant's workbook and the platform's products to the rows, marks and comments of the summary |
| `RuleRegistry` | drafts and published versions of the rules of one schema, by requests beside each other |
| `ExecutionsSafety`, `-Limits`, `-Outcomes` | the theorems about `Executions` and the refinement |
| `TaskLifecycleSafety` | the theorems about `TaskLifecycle` |
| `ServicesProofs` | the theorems about `AuditJobs`, `JobAdmission`, `MappingCache`, `LoginLimits`, `WorkerLeases`, `StandardData`, `MerchantProducts`, `RuleRegistry` |
| `MaintenanceReturnsProofs` | the theorems about `MaintenanceReturns` |
| `ProductReviewsProofs` | the theorems about `ProductReviews` |
| `WorkflowsProofs` | the theorems about `FieldJobs`, `Comparison`, `WorkbookHeaders`, `Rendering`, `ProductTables` |
| `MCExecutions`, `MCTaskLifecycle` | instances of the core |
| `MCServices` (with `MCReturns`, `MCStandards`, `MCMerchants`), `MCWorkflows` (with `MCProducts`, `MCRenderings`) | instances of the others. They share no state, so each behaviour is one of one of them, the one the variable `part` names |

### How `Executions` corresponds to the code

* `rev`, `ostat` are `workflow_objects`. Statuses are those of the code with three merged: *maintenance*
  and *completed* are `ready`, the *completed* of an export too. `"none"` is an id never used,
  `"deleted"` one whose row was removed: the code tells them apart by the executions left behind.
* `op`, `estat`, `attempts`, `token`, `lease`, `due` are `workflow_executions`. A row's id is the pair of
  object and revision, as the uuid5 in `schedule` is. A token (a fresh uuid per claim) is the number of
  the claim. A lease is `fresh`, `waning` or `expired`: the 120 s of a worker start fresh, the 30 s of a
  dispatcher start waning, `Elapse` moves them on. `due` is `available_at <= now`.
* `queued`, `started` are RQ's jobs. `Deliver` hands one to a worker; `JobGoesStale` is the 120 s rule of
  `workflow_job_active`; `LoseJob` is a flushed queue. With `Redis = FALSE` (local mode) the same sets are
  the thread pool, and nobody asks whether a job is active.
* A worker's `wpc` follows `execute`: `claiming`, `deferring` (between the read and the write of a deferral,
  while it holds the capacity lock), `claimed`, `working` (the body has read the object, whose revision is
  `wseen`), then `ending`, `failing` or `retrying` until `finish`.
* A dispatcher's `dpc` follows `dispatch`: `scanning` after `recover`, `rows` with the snapshot left to
  process, then per row `renewing` or `reserving` and `enqueueing`.
* One action is one transaction, because row locks make it one: `ClaimTake` is the update, the re-read and
  the supersession; `Finish` and `Recover` include `_fail_object`; `DeleteTask` includes the children and the
  supersession of their rows; `Insert` and `ReviseOpen` include `admit`. The deferral is two actions since
  its update does not repeat the condition it was decided on.
* `UpdateTemplate` also stands for the two transactions of a trial, which revise a draft in the same way,
  and `BodyPublish` for the last transaction of the five bodies.

Two behaviours of the code that the model keeps, and that are easy to miss: after a cancel and a retry the
*old* execution may read the task at its new revision and publish that (the new execution then finds
nothing to do); and on PostgreSQL a deferral can put a superseded row back to pending, which is harmless
because its next claim supersedes it again.

### How `TaskLifecycle` corresponds to the code

* A task is its status, its revision and its records (`tstat`, `rev`, `rows`); `counted` are the records that
  `record_count`, `error_count` and the status were computed from. A record's content is not modelled: `rows` is
  the set of operations whose changes are in the records, so a lost change is a missing member.
* An operation (`ostat`, `base`) is one of the twelve kinds of `operations.py`, eleven here. Its worker's `wpc`
  follows `run`: `started` before the comparison with `base_revision`, `opening` before the service reads the task, then
  the statements of `snapshot` apart (`rows`, `checking`), `staging` and `loading` for `staged.json`, `commit` for the transaction,
  `label` for the second transaction of `apply_return`, `result` until the operation is saved ready.
* A preview (`pstat`, `pbase`) has the decisions in its row (`shown`) and those in its file (`staged`); `saw` are the
  records its differences were computed from. An export is `xstat`, `xrev` and the snapshot file `xrows`.
* `generate` first saves the export and reads the task (`Generate`), then saves the task in the same transaction
  (`LabelTask`); another transaction may revise the task between the two, and then the export is rolled back and fails.
* Of the dispatch there is only what `Executions` guarantees: `Begin` gives an open job to one worker, `LoseLease` takes it
  away, and a worker that lost it goes on until the fence. `Attempts` is the limit on attempts, given per operation
  so that an instance spends them where they matter. Parsing is two actions, for the same reason.
* `Scenarios` and `After` bound which operations are requested together and in which order; `past` and `effects` are history.

### How the services correspond to the code

* **`AuditJobs`.** Nothing locks `status.json`. Every writer reads it, builds the new text, writes it to the one `status.tmp` of the
  directory, renames that, and copies its own text to the row; these are four steps (`Begin` within the caller's action, then `StageDoc`,
  `PublishDoc`, `SaveRow`), so that the worker, the thread that submitted the job and the cancel and delete requests interleave
  between them (`jobPen`, one per writer). `Plan` is the order of writes and checks of each of the four kinds of run, read off `run` in
  `service.py`, `product_workflow/service.py`, `merchant_service.py` and `field_reconciliation.py`; `HandleError` is their `except` clauses.
  The purge (`GetOld` to `PurgeTree`) may stop anywhere and is tried again.
* **`JobAdmission`.** `admAt` is where a request is in `create_or_get_job` and the route. The key file is created exclusively and
  written later, the lock is a directory that others remove when it is 30 s old (`SeeOldLock` and `RemoveLock` are two steps), the quota
  is counted over status files and the workspace limit over rows. A job's id is the request that drew it.
* **`MappingCache`.** One queue of futures per process (`mapEntries`), one thread per request (`mapCall` follows `compute`: the look
  into Redis, the lock, the second look, the question to the model, the result, the release); the done-callback of a future is a
  step of its own (`Completed`), since it runs after other threads saw the result. Locks and results expire at any time.
* **`WorkerLeases`.** Each method is one transaction with its `WHERE` clause as guard; `requeue_expired` reads rows first and updates
  each later (`ReadLapsed`, `TakeBack`).
* **`LoginLimits`.** A login reads the row, checks the source, verifies, and counts in two counters, each in Redis or, when it raises, in SQL; the
  count it got decides what it writes into the row later. Windows and locks end at any time.
* **`MaintenanceReturns`.** A workbook is a grid of cells with hidden ids; a person inserts, deletes, copies and moves rows and columns and
  edits ids. `Mapped`, `Fate`, `Doubtful`, `Proposed` and `StagedOf` are `reconcile` of `return_import.py`; `Expanded` is
  `expand_shared_changes`. Strict tasks (`StrictStaged`) and standardization tasks go their own ways, as in `tasks.py`.

* **`StandardData`.** `stStep` follows `AuditService.execute` from the standard file or source to `save_snapshot`. An upload is one step (`LoadUpload`), a fetch
  one step per request: `LoseRequest` is an attempt that is tried again, `ReceivePage` a page, cut by the source as it stands then (`ChangeSource` comes between any two).
  `Canonical` is `canonicalize_standard_row` over all parts, by the ranks of name, title and aliases, `Accepted` the pandera schema and the validators. `DamageFile` changes the snapshot between its
  writing and its reading. A row is its fields in their order, so that two fields of one column are told apart.
* **`MerchantProducts`.** The passes of `MerchantReconciliationService.run` in their order, with one action per product in the greedy match (`MatchProduct`), whose
  order is `Top`: the scores as they were before any record was taken (`product_matcher.py:37`). Worksheets are grids with merged ranges; how alike two names are
  (rapidfuzz) is `Likeness`, in whole points.
* **`RuleRegistry`.** A request of `api.py` is a record of what it does next (`ruCall`); every look, exclusive creation, write, rename and transaction is a step of its own, and it may
  leave after each (`LeaveCall`: refused, raised or dead). `ruBase` says whether there is a database, which then serves the versions.

### How the workflows and algorithms correspond to the code

* **`ProductReviews`.** A decision reads `product-workflow.json`, checks the row, updates it and writes the whole file back from
  what it read; a revision run reads the file, takes `.revision.lock`, works, inserts the revision in a transaction, writes
  the file and the last status, and removes the lock. Each of these is a step, and any of them may fail. `DecisionStops` ends a decision between any two of its steps
  (an error, or a dead API): what is committed stays. `RunRaises` is an error at any step of a run: those of `run` write *failed* themselves (`FinishRevision`),
  those before it, or of the except clause, are caught in `rerun_after_reviews_safe` (`RevisionFails`). `KillRevision` is the death of the process, which leaves the lock.
  `AgeRevisionLock` looks at nothing but that there is a lock, as the code does: it may be that of a live run, which then works beside
  the one that took it over, and each removes whatever lock there is at its end (`UnlockRevision`).
* **`FieldJobs`.** Files of the job are variables; a status write is a read and a later write. Runs take no lock, calls hold `field-mutation.lock`.
* **`Comparison`.** An input is a worksheet, a rule and a standard. `Validate` is the check of the standard, `Compare` makes the
  `Differences` that `_compare_records` reports, `Render` writes the repairs and `Resubmit` starts the next pass with what was written. The joins in memory, over
  `DiskBackedRecordMap` and by partitions are told apart by how they compare keys, which is where they differ.
* **`WorkbookHeaders`.** From the sheets of a workbook to the header row (`locate_header_row`), the mapping of every column
  (`map_headers`), the plan (`_manifest`) and the insertions from the right.
* **`Rendering`.** `OperationsOf` is the manifest, `ComesBefore` the order of `Program.cs:55`; each operation is an action. A column is
  known by what it was, so that a cell is `<<column, row>>` wherever it has moved to (`rndGrid`), while comments and references are kept
  by place, as in the file: the three are moved by different code, and the properties relate them.
* **`ProductTables`.** A run is the passes of `normalizer.py` in their order; `Decide` and `Revise` are `rerun_after_reviews`, with the
  catalog frozen by the first run.

## 3. Properties

| property | hazard it answers |
|---|---|
| `RowsEndOnce` | `RetriesLeft`: off-by-one between `claim`, `finish` and `recover` strands a row; `OutcomeIsFinal`: a late dispatcher, finish or deferral reopens an outcome |
| `NoOrphan` | an object in work whose execution is gone, finished, or of the other operation |
| `OnlyLeaseholderPublishes` | a worker that lost its lease publishes |
| `LateCallsDoNoHarm` | `FailsWithItsExecution`: an old execution fails a newer revision; `DeletedStaysDeleted`: a repeated request or a late worker brings a deleted object back |
| `RunningLimit`, `AdmissionLimit` | the limits, over executions and interactive leases |
| `ImplementsRequests` | all of it together: `Executions` implements `Requests` |
| `EveryRequestEnds` | work is lost, or deferred for ever |
| `CountsMatchRecords`, `NoChangeLost` | concurrent edits, returns and reopened mappings; torn reads |
| `AppliedToItsBase` | a preview is applied to records other than those it was compared with |
| `TakesEffectOnce` | a repeated attempt or a second request commits again |
| `ExportOfItsRevision`, `CompletedByItsExport` | an export's snapshot or label belongs to another revision |
| `SettledAgrees` | file and row of a finished job tell two stories, or a way out of a run writes no end |
| `PurgeLeavesNothing` | a purge that stopped half way leaves what nobody finds again |
| `KeysAndQuotaHold` | `OneJobPerKey`, `SlotsAreRun`: a key submitted twice runs twice, a job keeps its slot and never runs; `WithinJobQuota`: requests count the same free slot, a lock is removed and made again |
| `BatchesShareAnswers` | `OneAskPerKey`, `RequestsStayShared`: the model is asked twice for what is on its way; `AnswersFitTheBatch`: a batch takes the answer of another, or waits for one that has failed |
| `QueuedIsRunnable` | a sweep puts back a job that has no attempt left |
| `LimitHolds` | failures slip past two counters, or a late save undoes a lock |
| `IdentityIsKept` | a row that was copied, moved or edited takes the identity of another |
| `AppliedAsShown` | a return changes more than was shown and confirmed |
| `MergesSurviveEdits` | an edit splits a merged value |
| `FetchedAsHeld` | a retry takes a page twice; an exactly full page ends the loop or the last one is left out |
| `ComparedAsSupplied` | a sheet, row or value is lost, mixed up or damaged on its way to the comparison; a row that moved between pages is there twice |
| `NoProductLost` | a platform product is in no row or in two; one without a match was overlooked |
| `ExactNamesMeet` | a product that is merely alike takes the record of one that fits |
| `MarksTellTheirRow` | a mark or its comment tells of another row |
| `PublishedIsServed` | a published version changes, or is announced and not served |
| `RevisionsFollowReviews`, `ReviewsAgree` | a revision from undecided reviews, or past one; a file that knows of a decision or a revision the rows do not have, or that stays behind them where nothing stopped in between |
| `ReportIsCurrent` | the report of an old confirmation, decision or standard; two confirms of one revision |
| `CleanReportAgrees` | a join, a skipped row or a dropped duplicate hides a difference |
| `RepairsAreSafe`, `RepairsConverge` | a repair overwrites what it must not; a repaired workbook is found wrong again |
| `ColumnsKeepTheirFields` | a column is compared as the wrong field, or an insertion moves another |
| `RenderedAsPlanned` | a colour, message, value or reference lands on a neighbour; a worksheet is lost |
| `NothingIsDropped`, `CompletedIsSettled` | a row or column vanishes on the way to a table; a table is completed that is not settled |
| `AnswersAreFollowed` | a revision forgets or misapplies what a person decided |
| `AccountRunsWithinLimit`, `RefusedForOthersChange`, `AppliesWhatWasShown` | what docs and messages say; refuted (section 6) |

`TypeOK`, `RowsMatchObjects`, `WorkersMatchRows`, `SuccessMeansClosed`, `RunningHasToken`, `TokensDiffer`, `OperationsStayOpen`,
`HolderStartedAttempt` and the `...Rule`s of the proof modules are invariants the proofs need (section 7).
`SnapshotStaysReferenced`, `OnlyLapsedTakenBack` and `NothingIsTornApart` are proved and not run.

## 4. Runs

| run (cfg) | instance | shows |
|---|---|---|
| Recovery | 1 task, 2 workers, 2 dispatchers, all faults, 2 attempts | `RowsEndOnce`, `OnlyLeaseholderPublishes` (1.0 M states) |
| Revisions | 1 task revised twice, 2 workers that crash, 2 attempts | `NoOrphan`, `LateCallsDoNoHarm`, `ImplementsRequests` (1.8 M) |
| Templates | 1 template reparsed, learning or deleted, 1 task, 1 worker, 1 session, no Redis | `RunningLimit` (1.4 M) |
| Admission | 1 task, 2 exports, 2 operations, 1 worker | `AdmissionLimit` with hand-off (0.8 M) |
| Liveness | 2 tasks, 1 slot, 1 worker, all faults, fairness | `EveryRequestEnds` (0.1 M) |
| AccountLimit | 1 task, 2 workers, 2 revisions, no faults | **violated**, as section 6 explains |
| Changes | 1 task, 3 revisions; confirm with two edits, with an edit and an export, with names, with a download | `CountsMatchRecords`, `ExportOfItsRevision`, `CompletedByItsExport`, `NoChangeLost` (0.1 M) |
| Returns | 1 task, 2 revisions; confirm with an upload, its application and a second upload; with structure, decisions and their application | `TakesEffectOnce`, `AppliedToItsBase` (0.2 M) |
| Replay | 1 task, 1 operation, 2 attempts | **violated**, section 6 |
| Decisions | 1 task, a structure, two sets of decisions, one application | **violated**, section 6 |
| Services | one of nine parts in a behaviour (below) | `SettledAgrees`, `PurgeLeavesNothing`, `KeysAndQuotaHold`, `BatchesShareAnswers`, `QueuedIsRunnable`, `LimitHolds`, `IdentityIsKept`, `AppliedAsShown`, `MergesSurviveEdits`, `FetchedAsHeld`, `ComparedAsSupplied`, `NoProductLost`, `ExactNamesMeet`, `MarksTellTheirRow`, `PublishedIsServed` (1.2 M) |
| Workflows | one of six parts in a behaviour (below) | `ReportIsCurrent`, `RevisionsFollowReviews`, `ReviewsAgree`, `CleanReportAgrees`, `RepairsAreSafe`, `RepairsConverge`, `ColumnsKeepTheirFields`, `RenderedAsPlanned`, `NothingIsDropped`, `CompletedIsSettled`, `AnswersAreFollowed` (1.6 M) |

**The core.** `MaxRevision` 2 gives submit, cancel and retry, the shortest history in which an old execution and
a new one of the same object are both alive; `MaxAttempts` 2 gives a first, a last and no further attempt; two
workers and two dispatchers are every pair that can race, since each property speaks of one execution and
those that touch it. The limits are 1 or 2, so that they are reached. `Faults` names what may fail in an
instance: `"worker"` (the process dies), `"dispatcher"` (it dies between two steps), `"broker"` (Redis raises or
loses a job); an instance leaves out the faults its question does not need, to stay small. Every lease may
expire in every instance. Workers are symmetric in the safety runs, and so are the exports and the
operations of one task; the liveness run uses no symmetry. Deadlock is checked.

The instances of `TaskLifecycle` have one task, since no operation touches two, and two workers, the one that works
and the one that interferes; users interfere besides. Three revisions are a confirmed mapping and two changes of it.
A scenario has the three or four operations whose order matters (`Scenarios`, `After`); the mapping is confirmed before the
others are requested, since all but the upload of a return is only refused before. A second attempt is given to an export, to
an analysis and to what applies a preview, the bodies that differ when they are run again. Deadlock is
not checked there, nor in Services and Workflows: a behaviour ends when its requests are done.

**Services.** A job of each of the four kinds, with one call beside it. Four submissions for a quota of one, three of them with one key,
of which one has another body: the slot is full, is freed and is taken again. Three mapping
tasks on two processes with a cache of one entry, so that each request evicts another. Three workers and two sweepers with two
attempts and a clock to 6: a job is taken back, started and lost again between the read and the update of a sweep. Two logins,
each used again, up to five failures for a limit of two, so that they cross the limit together and after a lock. Four
tasks of three records and three fields (flexible or strict; distinct; merged over two records with a third of the same article; with gaps), one change
in Excel, one edit, one return. The workbook is downloaded
before the edit, since an edited task is as good as another one to begin with. `FewFaults` keeps kinds of faults apart: locks lapse for one key
and not beside a full cache; a lock or count is cleared early and not beside a failing Redis.

Standards: a source of up to three records in pages of two, with and without a total, which cuts its pages shorter, longer or as asked, may change once and whose requests
are lost; uploads of one or two rows with every clash of alias, name, key and value (`OddRows`), and documents of several sheets. Products: up to four of a supplier in
one or two worksheets (plain, with headers of two rows and merged cells, a summary, a hidden one) and up to three of the platform, of three names of which two are alike. Rules: three
requests over one draft, one version and two contents, two at work at a time (two altogether without a database): one that looks, one that writes in between, and one that comes after.

**Workflows.** Two calls, two runs, two pages of a field job with one confirmed revision and two versions of the standard; two
reviewers, one reviser and two revision workers for two reviews and three revisions. The algorithms run over families of inputs that vary together
what the code decides together: worksheets of up to three rows and records that vary keys and joins (`JoinSheets`,
`RowNumberSheets`, `DiskSheets`), cells and rules (`CellSheets`, `ValidSheets`), each compared, repaired and compared up to three
times; headers, names and automatic header rows (`HeaderBooks`, `AutoBooks`, `NamedBooks`); supplies of rows that vary categories,
headers and values (`CategorySupplies`, `HeaderSupplies`, `ValueSupplies`) through three runs of a job; and for the renderer
findings and repairs of one row, insertions beside what refers to the columns, and worksheets of products (`MarkRenderings`, `InsertRenderings`,
`ProductRenderings`), on sheets of at most `MaxColumn` 4 columns and `MaxRow` 4 rows so that both edges are reached.
Calls, runs and pages are symmetric; the inputs are not. `FewFaults` lets a stale
write, a second run, crossed calls and a killed run happen one kind in a behaviour, and follows crossed calls with a call stopped between rows and file
no further than to the revision before the last; errors and stops of decisions and runs are not bounded otherwise. The proofs do without the constraint.

Mutants. The operators named `Slip...` before some definitions are wrong versions of them, each a bug a
programmer could write (a dropped guard, an off-by-one). Each property fails when its slip replaces the
original; `PROJECT.json` pairs them.

## 5. Fairness

`FairSpec` assumes, and nothing more:

* time passes: `WF` of `Elapse` and `FallDue`;
* the recovery process scans every 30 s (`run_recovery`, `recovery_lifespan`), so `WF` of `Recover`; it may be
  interrupted by a fault each time it tries, but not for ever in the same place, so `SF` of the steps that follow;
* RQ delivers what it holds: `SF` of `Deliver`, because a lost job is enqueued again;
* a worker that holds a job goes on, and a body ends in a result or an error (`job_timeout=900`): `WF`;
* not every worker dies between receiving a job and claiming it: `SF` of `ClaimTake`. The code does not count such
  deaths against the attempts, so nothing weaker would do. Crashes *after* a claim need no assumption:
  `MaxAttempts` bounds them.

Users, heartbeats, faults and sessions have no fairness. The run has no sessions: with one slot, synchronous requests that come again
and again could keep it from the submissions for ever, and nothing in the code prevents that.

## 6. What the checks found

`can_run` counts executions of an object's *current* revision. A task that is cancelled and retried has a new
revision, so its old execution, which nobody stops, no longer counts: the retry is claimed while the old parse
still runs. `docs/deployment.md:25` says that an account runs one heavy task by default and the rest waits;
the run AccountLimit shows two workers with unexpired leases for one account. The limit that does hold, over what is
counted, is `RunningLimit`.

**An operation refused for its own change** (run Replay). `run` compares the task's revision with the one its operation was
created at, on every attempt. When the worker commits and dies before it has saved the operation, the second attempt
finds the revision that the first one made and the operation fails with "排队期间数据已更新，请刷新后重新提交。"
(`workflow/operations.py:67`). The change is in the task, and whoever submits it again, as told, makes it twice.
`TakesEffectOnce` shows that the operation itself never does.

**A preview's file and its row** (run Decisions). `preview_flexible_return` writes `staged.json` before the row of the
preview and without a fence. If another request for the same preview, one that fails before its row, or one that has
lost its lease writes the file, the application reads a row with one set of decisions and saves the rows of another.
`docs/sop-user-guide.md:8` promises that differences are seen before they are saved. `AppliedToItsBase` still holds: the
rows saved were computed from the right revision.

Also seen, not refuted by a run: `docs/production-8c16g.md:3` speaks of at most 50 *waiting* tasks, while `admit`
compares waiting and running together with the sum of both limits, and a hand-off may exceed that sum by the
slot it hands on (`AdmissionLimit` states exactly that).

Found while modelling or proving, where no doc, comment or test says otherwise; the properties excuse exactly these cases, by
a history variable or a named exception, and the hazards in `PROJECT.json` give the lines.

* Comparison jobs: a cancel that read the file before the last status puts a finished job back (`jobOverlap`); two writers share one
  `status.tmp`; a request sent again after a 429 or a crash makes the job as a replay, which nobody enqueues (`SlotsAreRun`); an empty key file
  left by a crash refuses its key for ever; a refused workspace leaves a queued directory that holds a slot; the old owner of a
  stolen quota lock removes the lock of the new one (`admBroken`).
* Field jobs: a confirm after a cancel that came too late is cancelled by the marker left behind; an enqueue whose answer is lost runs twice
  (`fldTwice`); a lock left by a crash answers 409 until somebody removes it.
* Product jobs: two reviewers lose a decision in `product-workflow.json`, and a run writes its revision over a newer one. A decision that raises or
  dies between its row (`product_workflow/service.py:281`) and the file (`:300`) leaves a review resolved in the rows and pending in the file:
  deciding it again is refused, no later decision finds all of them resolved, and the job never gets on. A run that raises or dies between its
  rows (`:107`) and the file (`:154`) leaves a revision whose reviews are not in the file and cannot be decided (`prdParted` for all of these).
  Where decisions overlap another one or a run (`prdCrossed`), a run is asked for twice (`prdTwice`) or its process dies (`prdKilled`), a revision need not be the child of the one
  before, and in the first case its parent may be rejected. A cancel after the upload leaves objects behind. A revision is given the
  decisions on its parent only, earlier ones are forgotten; the last of two aliases of one header wins; a third revision may need a
  schema that the second did not freeze, and then fails.
* Engine: with `empty_primary_key_action=use_row_number` a key cell that cannot be parsed is never reported (`Unread`); formulas are not
  compared in unique columns; `1` and `1.0` are one key in memory and two on disk; appended records without a key are appended again at each
  submission, and row numbers on both sides of ten are taken in the order of their text (`RepairsConverge`).
* Returns: the labels of merged groups made in two returns may be the same; on a strict task with merged values that were set apart the preview shows
  one change and the application spreads it (`AppliedAsShown`, over `Shared`).
* Renderer: a category whose name is another's with `-SKU` removes that worksheet (`SheetsAreThere`); records appended in another order than their
  rows leave tables as they were; a title that a table has already gets a number in the table and none in the header; blank
  cells of an inserted column take the colour of a marked neighbour (`CellsAsPlanned` speaks of the others).
* Standards: a source that cuts its pages shorter than it was asked for, and tells no total, ends the loop at the first page (`standard_sources.py:350`); the rest is not compared and nothing says so.
* Merchant products: of two platform records with one id one is lost (`reconciler.py:50`, `:84`); where two products have one name, a product that is merely alike can take the record another fits exactly, since the order
  keeps scores from before (`product_matcher.py:37`); a data row below a header cell merged sideways can be taken as a second row of headers (`sheet_discovery.py:140`).
* Rules: with files only, two publications of one version write it over each other (`rules.py:38`, `ruClobbered`); a crash between file and row leaves a version that only its own content can complete; all requests of
  a draft share one temporary file (`rules.py:132`).
* A killed comparison is not run again, and nothing calls `WorkerControl.requeue_expired`.

## 7. What is proved

TLC's runs look at one or two of everything. The theorems hold for every set of objects, workers, requests and calls, for all limits, and
for every worksheet, rule, standard and catalog that their modules' assumptions admit. No fairness and nothing about the faults is assumed,
and no constraint.

The assumptions are named where the constants are declared. `Executions`: the four kinds of objects are disjoint and every child has a task
(`KindsAssumption`), the limits are positive (`LimitsAssumption`), there are finitely many ids (`FiniteAssumption`, only where sets are
counted). `TaskLifecycle`: each operation belongs to a task and works on an upload of the right kind (`OperationsAssumption`), it may
be tried at least once (`BoundsAssumption`), the null values are no workers or operations (`NullAssumption`). The other modules have one each
(`AuditJobsAssumption`, `JobAdmissionAssumption`, `MappingCacheAssumption`, `WorkerLeasesAssumption`, `LoginLimitsAssumption`,
`ProductReviewsAssumption`, `FieldJobsAssumption`, `ComparisonAssumption`, `WorkbookHeadersAssumption`, `RenderingAssumption`,
`ProductTablesAssumption`, `StandardDataAssumption`, `MerchantProductsAssumption`, `RuleRegistryAssumption`, `MaintenanceReturnsAssumption`): limits are positive, null values are apart, sets that are counted are finite, and an input is well-formed in
the sense the parsers guarantee (a cell for each column, accepted rules, one id for each reference). TLC evaluates all of them.

| theorem | property | inductive invariant |
|---|---|---|
| `ExecutionsSafety` `Typing` | `RetriesLeft`, `RunningHasToken`, types | `TypeInv` |
| `ExecutionsSafety` `Outcomes`, `RowsEnd`, `NoOrphans` | `OutcomeIsFinal`, `RowsEndOnce`, `NoOrphan` | `TypeInv`, `SafeInv` |
| `ExecutionsLimits` `Running`, `Admission` | `RunningLimit`, `AdmissionLimit` | `SafeInv` with the limit |
| `ExecutionsOutcomes` `Deletion`, `Failures`, `LateCalls`, `Leaseholders` | `DeletedStaysDeleted`, `FailsWithItsExecution`, `LateCallsDoNoHarm`, `OnlyLeaseholderPublishes` | `OutcomeInv` |
| `ExecutionsOutcomes` `Implementation` | `ImplementsRequests` | `OutcomeInv` |
| `TaskLifecycleSafety` `Counts`, `NothingLost`, `Applications`, `Once` | `CountsMatchRecords`, `NoChangeLost`, `AppliedToItsBase`, `TakesEffectOnce` | `Inv` |
| `TaskLifecycleSafety` `Snapshots`, `Completion` | `ExportOfItsRevision`, `CompletedByItsExport` | `Inv` |
| `ServicesProofs` `EndedJobsAgree`, `PurgedJobsAreGone`, `SnapshotsStayReferenced` | `SettledAgrees`, `PurgeLeavesNothing`, `SnapshotStaysReferenced` | `JobIInv` |
| `ServicesProofs` `OneJobIsRunPerKey`, `JobQuotaHolds`, `ActiveJobsAreRun`, `KeysAndQuota` | `OneJobPerKey`, `WithinJobQuota`, `SlotsAreRun`, all of them | `AdmIInv` |
| `ServicesProofs` `OneThreadAsks`, `RequestsAreShared`, `AnswersFit`, `BatchesShare` | `OneAskPerKey`, `RequestsStayShared`, `AnswersFitTheBatch`, all of them | `MapIInv`, `CacheRule` |
| `ServicesProofs` `LoginLimitHolds` | `LimitHolds` | `LimitIInv` |
| `ServicesProofs` `QueuedJobsAreRunnable`, `HoldersStartedTheirAttempt`, `SweepsTakeOnlyLapsed` | `QueuedIsRunnable`, `HolderStartedAttempt`, `OnlyLapsedTakenBack` | `LeaseIInv` |
| `ServicesProofs` `SteadySourceFetched`, `RowsCompared`, `RecordsDiffer`, `SuppliedCompared` | `FetchedAsHeld`, `RowsAsSupplied`, `NoRecordTwice`, `ComparedAsSupplied` | `StandardInv` |
| `ServicesProofs` `PlatformKept`, `NamesMeet`, `MarksRight` | `NoProductLost`, `ExactNamesMeet`, `MarksTellTheirRow` | `MerchantInv` |
| `ServicesProofs` `VersionsAreServed` | `PublishedIsServed` | `RuleInv` |
| `MaintenanceReturnsProofs` `ReturnsFit`, `IdentityKept`, `ShownIsApplied`, `MergesSurvive` | `IdentityIsKept`, `AppliedAsShown`, `MergesSurviveEdits` | `ReturnInv` |
| `ProductReviewsProofs` `RevisionsComeOfReviews`, `RowsAndFileAgree` | `RevisionsFollowReviews`, `ReviewsAgree` | `ReviewIInv` |
| `WorkflowsProofs` `ReportsAreCurrent` | `ReportIsCurrent` | `FieldIInv` |
| `WorkflowsProofs` `CleanReportsAgree`, `PlannedRepairsAreSafe` | `CleanReportAgrees`, `RepairsAreSafe` | `CmpIInv` |
| `WorkflowsProofs` `ColumnsOfTheirFields` | `ColumnsKeepTheirFields` | `HdrIInv` |
| `WorkflowsProofs` `NothingTornApart` | `NothingIsTornApart` | `RndIInv` |
| `WorkflowsProofs` `RowsAndColumnsAreKept`, `CompletedTablesAreSettled`, `RevisionsFollowAnswers` | `NothingIsDropped`, `CompletedIsSettled`, `AnswersAreFollowed` | `TableIInv` |

The argument for `Executions`, from the bottom.

* **`TypeInv`.** That attempts stay in range needs `RetriesLeft`: a claim adds one to the attempts of a waiting
  row. `RetriesLeft` in turn needs `RunningHasToken`, since `finish` decides from the attempts the *worker* read
  (its token) whether to put the row back, and `DeferringRows`, since a deferral writes its row without looking.
* **`Outcomes`.** `Moves` lists how a row's status may change; nothing leaves *succeeded* and *failed*.
  `DeferringRows` is what keeps the unguarded write of a deferral out of them: the row it was decided on was
  waiting, other claims and counts wait for the capacity lock, and only a delete can change it meanwhile.
* **`SafeInv`.** `NoOrphan` alone is not inductive. When a claim supersedes its row the object must have moved
  on: that is `NoOrphan` itself, read backwards. When an execution succeeds, its object must be closed:
  `SuccessMeansClosed`, which holds because a body that ends without publishing found its object revised or
  closed, which needs the order of revisions in `WorkersMatchRows`. A new revision must find its row's id
  free, or `schedule` would skip it silently: `RowsMatchObjects`. Two lemmas carry the steps: `SystemSafe` for
  everything that opens no object, `RevisedSafe` for everything users do.
* **Limits.** A counted set grows only in the transaction that checked the limit. For what runs that is the
  claim (`OthersStartNothing`) or a new session; for what is admitted it is `schedule`, because by `NoOrphan` an open
  object was counted already, whatever its row's status. The hand-off leaves one row out of its count:
  that row is the `Slack`.
* **`OutcomeInv`.** That the holder of the lease publishes for the revision it read is a check in the code for
  tasks, templates and exports; for operations, whose last transaction does not look at the status, it
  rests on `OperationsStayOpen`: while an operation's row runs nobody else can close it, because two workers
  never share a token (`TokensDiffer`) and a delete supersedes the row. `ObjectSteps` then lists all that a step
  can do to the objects, and the three action properties and the refinement follow case by case.

The argument for `TaskLifecycle`. Its invariant `Inv` is a conjunction of named parts, each kept by a lemma of its own.

* **`Control`**: who works for what. An operation lives with its task, decisions and applications are those of an
  upload that is done, and while a worker holds the job of an operation that operation is open. It is what lets a
  fenced step speak of an open operation: nobody else finishes it meanwhile.
* **`Order`** is the reason why comparing revisions is enough. Revisions only grow and no revision that was read is
  ahead of the task's; so if a task is at the revision a worker read, it was there in the step before and has not
  been revised in between (`AtMoved`). With it every part of the form "at this revision, what was read is what is there"
  is kept for everyone the step is not about.
* **`RowsRead`** is that form for the records a worker holds, although `snapshot` reads them in a statement of their own
  and compares the revision only later: what was read out of date is never compared successfully. `StagedIsBase` and
  `DifferencesOfBase` are the same for a preview's file and its row, and they need that a preview's revision does not
  change once its upload is done (`SourcePinned`): only the upload's own job writes it, and that job has ended.
* **`Counts`, `NothingLost`, `Applications`** are then read off the step that commits (`CommitsWhatItRead`). A confirmation does not
  read the records but replaces them; it loses nothing because a task that is `mapping` has none (`UnmappedEmpty`, `Confirming`).
* **`Once`.** What has committed has moved its task beyond its `Basis`, the revision it must commit against (`Effects`), and a
  basis never changes (`BasisKept`). So neither a second attempt nor another application of the preview, which has the same
  basis, passes the comparison again. An export moves nothing; it is found by its id instead.
* **`Snapshots`, `Completion`** add that the records of a past revision stay as they were (`PastIsRows`, `Revised`) and that the worker
  between the two statements of `generate` is alone, holds the job, and has read the export's revision (`Labelling`).

The argument for the services.

* **`JobIInv`** follows the pens. `OnePen` and `PenHolds` say that, unless two writers overlapped, one is at work, and what it staged or
  published is what it holds; `WorkerHolds` ties what the worker holds to the step of its plan; `RowRule` lets the row lag behind the file only while
  somebody writes; `EndRule` says that a run that ended left a terminal status. `PurgeRule` orders what the purge has removed, so that
  the directory, which says what is left to do, goes last.
* **`AdmIInv`** names a job by the request that drew it. `KeysRule`, `OneRecorder` and `RecordsAreClaims` say who may name whom for a key,
  from the exclusive creation of its file on. `WithinJobQuota` alone is not inductive: `LockRule` says that whoever has passed the count and not yet made
  its directory holds the lock and that there is still a free slot. `SlotRule` and `BareRule` say whose job a directory is.
* **`MapIInv`** adds to the types that a request without a future has no thread, and that whoever asks the model holds the lock of its key
  unless it lapsed. `CacheRule` adds one entry for each key and, as long as no request was made past a full cache, an entry for every request that
  has not ended: what is filtered out or evicted has ended, and what is moved to the end is there once. That filtering keeps the order, and
  so one entry for each key, is a matter of ranks (`PlacesNumbered`, `EntriesKept`). **`LeaseIInv`** adds that sweeps read the past (`SweepsReadThePast`): what a sweep has read is an attempt not
  after the present one, so that an update that finds it unchanged finds the lease it read.
* **`StandardInv`**: `StageRule` says at each step what the records are made of, from the supplied parts to the row of the snapshot; what is compared is then followed backwards,
  through the digest, to the rows, and from a row to its fields by `FirstIsMatched`, the least rank. `FetchRule` is the induction over the pages: what was gathered is a prefix of what the source holds, and
  its next slice meets it (`SlicesMeet`), if the source is steady and cuts what was asked for (`cap >= PageSize`; see section 6).
* **`MerchantInv`**: `MatchRule` says that a product that waits has no record, that no record is taken twice, and that a product left without one, and not as ambiguous, has no candidate that is free;
  `ExactRule` that the only record that fits a product fully is free while the product waits. It is kept because the one looked at has the highest score of those left (`ExactIsStrongest`, `ExactIsSpared`);
  scores are compared as they were at first, which for exact ones is as they are. `SummaryRule` says what is in the rows, the marks and the comments.
* **`RuleInv`**: what was seen published stays so (`KeptAfter`): a file is created exclusively and filled by the one who created it (`FileRule`), unless two wrote it, which `ruClobbered` records.
  A publication on its way knows that its file and row are there (`CallRule`), and the drafts shown as published are, as long as no edit overlapped (`DraftRule`, with what is in the temporary file).
* **`ReturnInv`**: the records fit (`RecordsRule`): each has the fields of the task and a number of its own before the next one, which a flexible return must keep although it draws
  numbers for several new rows at once and follows the choices of a person (`Numbers`, over the ranks of the rows that are kept). `FileRule` and `DocumentRule` say that a file knows the revision it was made of, and
  that the document says whether that is past; an edit after the download makes it past. `StagedRule` holds what is staged against the records only while the revision is the one of the preview, which is
  just when an application gets past its check. `IdentityIsKept` then follows from `Doubtful` for a flexible return and from the ids for a strict one (`RowsKnown`, made at the preview in `RowIsKnown`); `AppliedAsShown`
  compares the records after the application with the staged ones, cell by cell (`EditedCells`). For `MergesSurviveEdits` an edit
  must reach the whole of a merged cell or nothing of it (`ReachedAlike`, `CellStaysOne`); that what remains of a range is one again takes the first and the last row above and below
  that are left (`WithinSpan`, `SpanStays`, by `LeastOf`).
* **`LimitIInv`** counts. `FailsRule` says that every failure is in a counter or held by a login that will count it, `OverRule` that whoever passed
  the check before the account was locked accounts for one failure more at most; the bound is a statement about cardinalities, by
  `FiniteSetTheorems`.

The argument for the workflows and algorithms.

* **`ReviewIInv`** has three parts. `BaseRules` hold always: the types, the rows of a revision and its parent (`RowsRule`, `ParentRule`), that what somebody
  read of the file is decided in the rows where it says so (`WorkRule`), and who can be at work beside whom (`TurnRule`, `SameRule`). `LineRule` is about behaviours in which nothing overlapped
  or was killed: the file and whoever works have the latest revision, or a run is about to write it, or it raised before it did and then the job stands
  still (`Stuck`: nothing can be decided, asked for or run, which is why a second revision of one parent cannot come of it). `PartedRule` is about
  behaviours in which nothing stopped between rows and file, whatever overlapped: what the file does not have yet is in the hands of a run or a decision that will write it
  (`Answering`). `ReviewsAgree` is `PartedRule` with nobody at work, and the part of it that is always true is in `BaseRules`.
* **`FieldIInv`**: `CallRule` is what the mutation lock gives, `RunRule` what a run has read, `CurrentRule` is the property in its inductive form: the report
  a status promises is that of what the job has, while a run or a confirm is on its way too.
* **`CmpIInv`** is short, since a comparison is one step; the work is in the lemmas: a key has one row and one record among those that are
  matched, and what is not matched, skipped or doubled makes a difference. That the rendered worksheet is an input again, for the next pass, needs that appended records
  take the rows `LastRow + 1` and on without a gap, which is a count of those before each (`Turn`).
* **`HdrIInv`** puts the plan in order by ranks, and then moves places and grid together: after the insertions done so far each field
  is at its place, shifted by those still to come. The induction over insertions is the invariant itself, one action for each.
* **`RndIInv`** says of each reference and each comment of a user that its columns, as the grid has them now, are those they were (`GridRule`, `AllFit`, `Keeps`),
  for any order the manifest allows. Cells move because columns are renamed, comments by `Shifted` of their place, references by
  `ShiftedRef`; `ShiftedColumns`, `ShiftedReferences` and `MovedKeeps` show that the three agree for merges, formulas and names, for tables, filters and the split,
  which take in columns at their edges, too.
* **`TableIInv`** carries what each pass left (`ResultRule`, `ReviewRule`), what was answered (`AnswersRule`, `DecidedRule`) and that no other spelling of a column
  that has its field is asked about (`SpellingRule`). The last one is needed: without it an answer for one spelling would take the field
  from the other.

Induction. Where an argument needs the least or greatest of something (the first free row, the last alias, the rank in a plan) the proofs
take a minimal counterexample (`LeastOf`, `GreatestOf`, over the well-founded order of the numbers), since induction theorems over an operator
cannot be instantiated by the installed provers.

Only model-checked: `EveryRequestEnds`, since liveness under fairness is out of the prover's reach;
`RepairsConverge`, which relates the
differences of two passes; of `RenderedAsPlanned` the values, colours and messages, the names in tables and the worksheets, which recurse over the
products. The refuted properties `AccountRunsWithinLimit`, `RefusedForOthersChange` and `AppliesWhatWasShown` have no theorem.

## 8. Plan

Done: the core, what it runs, the services beside it, the older workflows, the standards, products and rules they start from, and the algorithms whose results are applied again. Left,
in this order:

| what | properties aimed at | to prove |
|---|---|---|
| `RenderedAsPlanned`: values and colours from `NoteIt` and `Written`, as comments and references are proved | | `CellsAsPlanned` |
| `TemplateLifecycle`: families, trial, the reference from tasks | a used template stays; a trial does not overwrite an edit | its safety |
| the refinement from `TaskLifecycle` to `Executions` | one holder at a time, no publication without the lease | step by step |
| templates of formulas in inserted columns and appended rows | a formula refers to its own row and its fields | |

`TaskLifecycle` takes from `Executions` what its theorems give (one holder at a time, no publication without
the lease, a closed object is not claimed) instead of repeating the dispatch; that it does so soundly is still to be
shown by the refinement.

## 9. What is not modelled

* The content of payloads, files and records beyond what a property tells apart, and what `generate` writes into the workbooks.
* In `TaskLifecycle`: `repair_source_retention`, which nothing calls; the rows of a downloaded maintenance file (they may
  be newer than the revision in it; the upload then compares with the current ones anyway); an operation's creation
  while its task is being deleted, which the code does not exclude (the operation then finds no task and fails).
* `limit(100)` of the dispatch scan and the order of its rows; the four threads of the local pool; synchronous mode
  (`inline_executor_for_tests`), which runs the same bodies without executions; `cleanup()` of old files, disk pressure, the upload lease.
* A template's family is deleted as one in the code and one by one here.
* In `MaintenanceReturns`: rectangular merges, formulas, read-only fields, images, the normalisation of values, a file uploaded again
  after it was applied.
* In `Comparison`: validators across fields and the parsing of values; in `ProductTables`: text similarity, a relation of the instance;
  in `MerchantProducts`: how alike two names are, the catalogue of known headers, dynamic fields and the look of the summary.
* In `StandardData`: formats, hashes and bytes, the saved connections and their secrets; in `RuleRegistry`: the lists of versions, the preview of rules, a temporary
  file that is read half written.
* In `Rendering`: templates of formulas (those of inserted columns are shifted again by the insertions left of them,
  those of appended rows are not), copied validations, drawings and pivots of other worksheets, the shapes of comments, styles beyond a fill, and the Python
  fallback.
* Sessions and the administration of users; upload staging and maintenance; readers and writers of workbooks; the web client. They keep no state that two steps share.
