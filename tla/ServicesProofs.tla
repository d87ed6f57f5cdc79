------------------------- MODULE ServicesProofs -------------------------
(***************************************************************************)
(* The services beside the workflow, for any calls, requests, batches,     *)
(* logins, runs and sweepers and any limits: their invariants and action   *)
(* properties.  Each service has an inductive invariant of its own, and a  *)
(* lemma for each of its actions.                                          *)
(***************************************************************************)
EXTENDS AuditJobs, JobAdmission, MappingCache, WorkerLeases, LoginLimits, StandardData,
        MerchantProducts, RuleRegistry, FiniteSetTheorems, SequenceTheorems,
        WellFoundedInduction, TLAPS

-----------------------------------------------------------------------------
(* AuditJobs: the places of a job, its documents and its files.            *)

AtWork == {"run", "cancelling", "failing"}
PenPlaces == {"mark", "stage", "publish", "row"}
RunType == [at : {"unsent", "queued", "refused", "done", "ended", "killed"} \cup AtWork,
            step : DOMAIN Plan[jobKind], named : BOOLEAN]
Row == [status : Statuses \cup {"running"}, snapshot : BOOLEAN, leased : BOOLEAN]

(* The places of a job and its files.                                      *)
JobTypeOK ==
    /\ jobKind \in Kinds
    /\ jobFile \in {Gone} \cup Doc
    /\ jobStaged \in {Gone} \cup Doc
    /\ jobRow \in {Gone} \cup Row
    /\ jobMarker \in BOOLEAN
    /\ jobStore \in SUBSET {"snapshot", "report"}
    /\ jobPen \in [Writers -> {Idle} \cup [at : PenPlaces, doc : Doc]]
    /\ jobRun \in RunType
    /\ jobPurge \in {"idle", "row", "tree"}
    /\ jobOld \in BOOLEAN /\ jobOverlap \in BOOLEAN

(* Maintenance purges only what is deleted and has no run to come: nothing *)
(* is at work on an expired or missing file, and a missing file has        *)
(* neither a row nor a staged copy.                                        *)
PurgeRule ==
    /\ jobOld \/ jobPurge # "idle" \/ jobFile = Gone
          => jobRun.at \notin AtWork \cup {"unsent", "queued"}
    /\ jobPurge = "tree" => jobRow = Gone
    /\ jobFile = Gone => jobRow = Gone /\ jobStaged = Gone

(* The step of the plan the run is at.                                     *)
Present == Plan[jobKind][jobRun.step]

(* Unless two writers overlapped, one is at work at a time ...             *)
OnePen == \A v, w \in Writers : jobPen[v] # Idle /\ jobPen[w] # Idle => v = w

(* ... what it staged or published is what it holds, and who is not the    *)
(* worker keeps the status and the objects of the file ...                 *)
PenHolds(w) ==
    /\ jobPen[w].at = "publish" => jobStaged = jobPen[w].doc
    /\ jobPen[w].at = "row" => jobFile = jobPen[w].doc
    /\ w # Worker /\ jobPen[w] # Idle =>
          jobPen[w].doc.status = jobFile.status /\ jobPen[w].doc.keys = jobFile.keys

(* ... and the worker adds to the objects of the file what its step of the *)
(* plan adds, and ends in a terminal status once it is told to stop.       *)
WorkerHolds ==
    jobPen[Worker] # Idle =>
        /\ jobFile.keys \subseteq jobPen[Worker].doc.keys
        /\ jobRun.at # "run" => jobPen[Worker].doc.status \in Terminal
        /\ jobRun.at = "run" => /\ Present.do \in {"write", "last"}
                                /\ jobPen[Worker].doc.status \in Present.to
                                /\ Present.keys \subseteq jobPen[Worker].doc.keys

PenRule ==
    ~jobOverlap =>
        /\ OnePen
        /\ jobPen[Worker] # Idle => jobRun.at \in AtWork
        /\ jobFile # Gone /\ jobRun.at # "killed" =>
              (\A w \in Writers : PenHolds(w)) /\ WorkerHolds

(* The row lags behind the file only while a run is at work or was killed. *)
RowRule ==
    ~jobOverlap /\ jobFile # Gone /\ jobRow # Gone /\ (\A w \in Writers : jobPen[w].at # "row")
        => jobRow.status = jobFile.status \/ jobRun.at \in AtWork \cup {"killed"}

(* A run that ended left a terminal status, and the objects it stored are  *)
(* named by the file, or are about to be, or are purged.                   *)
EndRule ==
    ~jobOverlap =>
        /\ jobRun.at \in {"done", "ended"} /\ jobFile # Gone => jobFile.status \in Terminal
        /\ jobRun.at \in {"unsent", "queued"} => jobStore = {}
        /\ jobRun.at = "run" => ("snapshot" \in jobStore =>
              "snapshot" \in jobFile.keys \/ (Present.do = "write" /\ "snapshot" \in Present.keys))
        /\ jobRun.at = "done" => IF jobFile = Gone \/ jobPurge # "idle"
                                 THEN jobStore = {} ELSE jobStore \subseteq jobFile.keys

JobIInv == JobTypeOK /\ PurgeRule /\ PenRule /\ RowRule /\ EndRule

(* What a plan has at one place, and where a run goes from there.          *)
GoodStep(plan, n) ==
    LET s == plan[n] IN
    /\ s.do \in {"check", "work", "store", "write", "last", "skip"}
    /\ s.do \in {"write", "last"} => s.to \subseteq Statuses /\ s.keys \subseteq {"snapshot", "report"}
    /\ s.do = "last" => s.to \subseteq Terminal /\ s.keys = {"report"}
    /\ s.do # "last" => n + 1 \in DOMAIN plan
    /\ s.do = "skip" => s.steps \in Nat /\ n + s.steps + 1 \in DOMAIN plan
    /\ s.do = "store" =>
          /\ s.object \in {"snapshot", "report"}
          /\ s.object = "snapshot" => plan[n + 1].do = "write" /\ "snapshot" \in plan[n + 1].keys

LEMMA ComparisonSteps == \A n \in DOMAIN ComparisonPlan : GoodStep(ComparisonPlan, n)
<1>1. DOMAIN ComparisonPlan = 1..17
    BY DEF ComparisonPlan
<1> SUFFICES ASSUME NEW n \in 1..17 PROVE GoodStep(ComparisonPlan, n)
    BY <1>1
<1>2. n \in {1, 4, 8, 14} \/ n \in {3, 7, 9, 15} \/ n \in {5, 11, 16} \/ n \in {2, 6, 13} \/ n \in {12, 17} \/ n = 10
    OBVIOUS
<1> USE <1>1 DEF GoodStep, Check, Work, Put, Write, Skip, Last, Terminal, Statuses
<1>3. CASE n \in {1, 4, 8, 14}
    BY <1>3 DEF ComparisonPlan
<1>4. CASE n \in {3, 7, 9, 15}
    BY <1>4 DEF ComparisonPlan
<1>5. CASE n \in {5, 11, 16}
    BY <1>5 DEF ComparisonPlan
<1>6. CASE n \in {2, 6, 13}
    BY <1>6 DEF ComparisonPlan
<1>7. CASE n \in {12, 17}
    BY <1>7 DEF ComparisonPlan
<1>8. CASE n = 10
    BY <1>8 DEF ComparisonPlan
<1> QED BY <1>2, <1>3, <1>4, <1>5, <1>6, <1>7, <1>8

LEMMA ProductSteps == \A n \in DOMAIN ProductPlan : GoodStep(ProductPlan, n)
<1>1. DOMAIN ProductPlan = 1..16
    BY DEF ProductPlan
<1> SUFFICES ASSUME NEW n \in 1..16 PROVE GoodStep(ProductPlan, n)
    BY <1>1
<1>2. n \in {2, 4, 7, 10, 13, 15} \/ n \in {3, 6, 8, 12} \/ n \in {14} \/ n \in {1, 5, 11} \/ n \in {16} \/ n \in {9}
    OBVIOUS
<1> USE <1>1 DEF GoodStep, Check, Work, Put, Write, Skip, Last, Terminal, Statuses
<1>3. CASE n \in {2, 4, 7, 10, 13, 15}
    BY <1>3 DEF ProductPlan
<1>4. CASE n \in {3, 6, 8, 12}
    BY <1>4 DEF ProductPlan
<1>5. CASE n \in {14}
    BY <1>5 DEF ProductPlan
<1>6. CASE n \in {1, 5, 11}
    BY <1>6 DEF ProductPlan
<1>7. CASE n \in {16}
    BY <1>7 DEF ProductPlan
<1>8. CASE n \in {9}
    BY <1>8 DEF ProductPlan
<1> QED BY <1>2, <1>3, <1>4, <1>5, <1>6, <1>7, <1>8

LEMMA MerchantSteps == \A n \in DOMAIN MerchantPlan : GoodStep(MerchantPlan, n)
<1>1. DOMAIN MerchantPlan = 1..10
    BY DEF MerchantPlan
<1> SUFFICES ASSUME NEW n \in 1..10 PROVE GoodStep(MerchantPlan, n)
    BY <1>1
<1>2. n \in {2, 5} \/ n \in {3, 6, 8} \/ n \in {9} \/ n \in {1, 4, 7} \/ n \in {10}
    OBVIOUS
<1> USE <1>1 DEF GoodStep, Check, Work, Put, Write, Skip, Last, Terminal, Statuses
<1>3. CASE n \in {2, 5}
    BY <1>3 DEF MerchantPlan
<1>4. CASE n \in {3, 6, 8}
    BY <1>4 DEF MerchantPlan
<1>5. CASE n \in {9}
    BY <1>5 DEF MerchantPlan
<1>6. CASE n \in {1, 4, 7}
    BY <1>6 DEF MerchantPlan
<1>7. CASE n \in {10}
    BY <1>7 DEF MerchantPlan
<1> QED BY <1>2, <1>3, <1>4, <1>5, <1>6, <1>7

LEMMA FieldSteps == \A n \in DOMAIN FieldPlan : GoodStep(FieldPlan, n)
<1>1. DOMAIN FieldPlan = 1..13
    BY DEF FieldPlan
<1> SUFFICES ASSUME NEW n \in 1..13 PROVE GoodStep(FieldPlan, n)
    BY <1>1
<1>2. n \in {2, 6, 10} \/ n \in {3, 5, 7, 9, 11} \/ n \in {12} \/ n \in {1, 4, 8} \/ n \in {13}
    OBVIOUS
<1> USE <1>1 DEF GoodStep, Check, Work, Put, Write, Skip, Last, Terminal, Statuses
<1>3. CASE n \in {2, 6, 10}
    BY <1>3 DEF FieldPlan
<1>4. CASE n \in {3, 5, 7, 9, 11}
    BY <1>4 DEF FieldPlan
<1>5. CASE n \in {12}
    BY <1>5 DEF FieldPlan
<1>6. CASE n \in {1, 4, 8}
    BY <1>6 DEF FieldPlan
<1>7. CASE n \in {13}
    BY <1>7 DEF FieldPlan
<1> QED BY <1>2, <1>3, <1>4, <1>5, <1>6, <1>7

LEMMA PlanSteps ==
    ASSUME jobKind \in Kinds
    PROVE  \A n \in DOMAIN Plan[jobKind] : n \in Nat /\ GoodStep(Plan[jobKind], n)
<1>1. jobKind \in {"comparison", "product", "merchant", "field"}
    BY AuditJobsAssumption
<1>2. CASE jobKind = "comparison"
    BY <1>2, ComparisonSteps DEF Plan, ComparisonPlan
<1>3. CASE jobKind = "product"
    BY <1>3, ProductSteps DEF Plan, ProductPlan
<1>4. CASE jobKind = "merchant"
    BY <1>4, MerchantSteps DEF Plan, MerchantPlan
<1>5. CASE jobKind = "field"
    BY <1>5, FieldSteps DEF Plan, FieldPlan
<1> QED BY <1>1, <1>2, <1>3, <1>4, <1>5

LEMMA PlanStart == ASSUME jobKind \in Kinds PROVE 1 \in DOMAIN Plan[jobKind]
BY AuditJobsAssumption DEF Plan, ComparisonPlan, ProductPlan, MerchantPlan, FieldPlan

LEMMA GoneIsNone == Gone \notin Doc /\ Gone \notin Row
BY DEF Gone, Doc, Row, Statuses, Terminal

LEMMA JobInitially == JobInit => JobIInv
<1> SUFFICES ASSUME JobInit PROVE JobIInv
    OBVIOUS
<1>1. JobTypeOK
    <2>1. NewDoc \in Doc
        BY DEF NewDoc, Doc, Statuses
    <2>2. jobRun \in RunType
        BY PlanStart DEF JobInit, RunType
    <2> QED BY <2>1, <2>2 DEF JobInit, JobTypeOK, RunType, Row, Statuses
<1>2. NewDoc # Gone /\ jobRow # Gone
    BY DEF NewDoc, Gone, JobInit
<1>3. PurgeRule
    BY <1>2 DEF JobInit, PurgeRule, AtWork
<1>4. PenRule
    BY DEF JobInit, PenRule, OnePen, PenHolds, WorkerHolds, Idle, Writers
<1>5. RowRule
    BY DEF JobInit, RowRule, NewDoc
<1>6. EndRule
    BY DEF JobInit, EndRule
<1> QED BY <1>1, <1>3, <1>4, <1>5, <1>6 DEF JobIInv

(* The step of a run at work, and the next one. *)
LEMMA RunSteps ==
    ASSUME JobTypeOK
    PROVE  /\ jobRun.step \in Nat /\ GoodStep(Plan[jobKind], jobRun.step)
           /\ \A n \in DOMAIN Plan[jobKind] : [jobRun EXCEPT !.step = n] \in RunType
           /\ \A at \in {"done", "ended", "killed"} \cup AtWork : [jobRun EXCEPT !.at = at] \in RunType
BY PlanSteps DEF JobTypeOK, RunType, AtWork

(* Only the row, the pens and the run are ever something else than before, *)
(* staged or gone.                                                         *)
LEMMA BeginType ==
    ASSUME JobTypeOK, NEW w \in Writers, NEW at \in PenPlaces, NEW doc \in Doc, Begin(w, at, doc)
    PROVE  /\ jobPen' \in [Writers -> {Idle} \cup [at : PenPlaces, doc : Doc]]
           /\ jobOverlap' \in BOOLEAN
<1>1. jobPen' \in [Writers -> {Idle} \cup [at : PenPlaces, doc : Doc]]
    BY DEF Begin, JobTypeOK
<1>2. jobOverlap' \in BOOLEAN
    BY DEF Begin
<1> QED BY <1>1, <1>2

LEMMA StepDocs ==
    ASSUME JobTypeOK, jobFile # Gone
    PROVE  /\ [jobFile EXCEPT !.named = TRUE] \in Doc
           /\ [jobFile EXCEPT !.asked = TRUE] \in Doc
           /\ [jobFile EXCEPT !.deleted = TRUE] \in Doc
           /\ \A status \in Statuses, keys \in SUBSET {"snapshot", "report"} :
                 /\ [jobFile EXCEPT !.status = status] \in Doc
                 /\ [jobFile EXCEPT !.status = status, !.keys = @ \cup keys] \in Doc
BY DEF JobTypeOK, Doc

LEMMA WriterTypes ==
    ASSUME JobTypeOK, NEW w \in Writers,
           StageDoc(w) \/ PublishDoc(w) \/ SaveRow(w) \/ WriteRaises(w)
    PROVE  JobTypeOK'
<1>1. CASE StageDoc(w)
    BY <1>1 DEF StageDoc, JobTypeOK, Idle, PenPlaces, RunType
<1>2. CASE PublishDoc(w)
    <2>1. jobOld' \in BOOLEAN
        BY <1>2 DEF PublishDoc
    <2>2. jobFile' \in Doc /\ jobStaged' = Gone
        BY <1>2 DEF PublishDoc, JobTypeOK
    <2>3. jobPen' \in [Writers -> {Idle} \cup [at : PenPlaces, doc : Doc]]
        BY <1>2 DEF PublishDoc, JobTypeOK, PenPlaces, Idle
    <2>4. UNCHANGED <<jobKind, jobRow, jobMarker, jobStore, jobRun, jobPurge, jobOverlap>>
        BY <1>2 DEF PublishDoc
    <2> QED BY <2>1, <2>2, <2>3, <2>4 DEF JobTypeOK, RunType
<1>3. CASE SaveRow(w)
    <2>1. jobPen[w].doc \in Doc
        BY <1>3 DEF SaveRow, JobTypeOK, Idle
    <2>2. jobRow' \in {Gone} \cup Row
        <3>1. CASE jobRow = Gone
            BY <1>3, <3>1 DEF SaveRow, UpdateJob
        <3>2. CASE jobRow # Gone
            <4>1. PICK snapshot \in BOOLEAN :
                     jobRow' = [status |-> jobPen[w].doc.status, snapshot |-> snapshot, leased |-> FALSE]
                BY <1>3, <3>2, Zenon DEF SaveRow, UpdateJob
            <4>2. jobPen[w].doc.status \in Statuses
                BY <2>1 DEF Doc
            <4> QED BY <4>1, <4>2 DEF Row
        <3> QED BY <3>1, <3>2
    <2>3. jobRun' \in RunType
        <3>1. CASE w # Worker
            BY <1>3, <3>1 DEF SaveRow, JobTypeOK, RunType
        <3>2. CASE w = Worker
            <4>1. jobRun.at = "run" => Plan[jobKind][jobRun.step].do = "last"
                     \/ jobRun.step + 1 \in DOMAIN Plan[jobKind]
                BY RunSteps DEF GoodStep
            <4>2. jobRun' = AfterWrite
                BY <1>3, <3>2 DEF SaveRow
            <4>3. CASE jobRun.at = "run" /\ Plan[jobKind][jobRun.step].do # "last"
                BY <4>1, <4>2, <4>3, RunSteps DEF AfterWrite
            <4>4. CASE jobRun.at # "run"
                <5>1. [jobRun EXCEPT !.at = "ended"] \in RunType
                    BY RunSteps
                <5>2. jobRun' = [jobRun EXCEPT !.at = "ended"]
                    BY <4>2, <4>4 DEF AfterWrite
                <5> QED BY <5>1, <5>2
            <4>5. CASE jobRun.at = "run" /\ Plan[jobKind][jobRun.step].do = "last"
                <5>1. [jobRun EXCEPT !.at = "done"] \in RunType
                    BY RunSteps
                <5>2. jobRun' = [jobRun EXCEPT !.at = "done"]
                    BY <4>2, <4>5 DEF AfterWrite
                <5> QED BY <5>1, <5>2
            <4> QED BY <4>3, <4>4, <4>5
        <3> QED BY <3>1, <3>2
    <2>4. jobPen' \in [Writers -> {Idle} \cup [at : PenPlaces, doc : Doc]]
        BY <1>3 DEF SaveRow, JobTypeOK, PenPlaces
    <2>5. UNCHANGED <<jobKind, jobFile, jobStaged, jobMarker, jobStore, jobPurge, jobOld, jobOverlap>>
        BY <1>3 DEF SaveRow
    <2> QED BY <2>2, <2>3, <2>4, <2>5 DEF JobTypeOK, PenPlaces, RunType
<1>4. CASE WriteRaises(w)
    <2>1. jobRun' \in RunType
        BY <1>4, RunSteps DEF WriteRaises, JobTypeOK, RunType, AtWork
    <2>2. jobPen' \in [Writers -> {Idle} \cup [at : PenPlaces, doc : Doc]]
        BY <1>4 DEF WriteRaises, JobTypeOK, PenPlaces
    <2>3. UNCHANGED <<jobKind, jobFile, jobStaged, jobRow, jobMarker, jobStore,
                      jobPurge, jobOld, jobOverlap>>
        BY <1>4 DEF WriteRaises
    <2> QED BY <2>1, <2>2, <2>3 DEF JobTypeOK, PenPlaces, RunType
<1> QED BY <1>1, <1>2, <1>3, <1>4

LEMMA RunTypes == ASSUME JobTypeOK, RunNext PROVE JobTypeOK'
<1>1. CASE StartRun
    <2>1. jobRun' \in RunType
        BY <1>1, RunSteps DEF StartRun, AtWork
    <2>2. jobRow' \in {Gone} \cup Row
        BY <1>1 DEF StartRun, JobTypeOK, Row
    <2>3. UNCHANGED <<jobKind, jobFile, jobStaged, jobMarker, jobStore, jobPen,
                      jobPurge, jobOld, jobOverlap>>
        BY <1>1 DEF StartRun
    <2> QED BY <2>1, <2>2, <2>3 DEF JobTypeOK, RunType
<1>2. CASE CheckCancelled \/ DoWork \/ Branch
    <2>1. jobRun' \in RunType
        <3>1. CASE CheckCancelled
            BY <3>1, RunSteps DEF CheckCancelled, AtStep, NextStep, GoodStep, AtWork
        <3>2. CASE DoWork
            BY <3>2, RunSteps DEF DoWork, AtStep, NextStep, GoodStep, AtWork
        <3>3. CASE Branch
            <4>1. GoodStep(Plan[jobKind], jobRun.step) /\ Plan[jobKind][jobRun.step].do = "skip"
                BY <3>3, RunSteps DEF Branch, AtStep
            <4>2. PICK n \in {1, Plan[jobKind][jobRun.step].steps + 1} :
                        jobRun' = [jobRun EXCEPT !.step = @ + n]
                BY <3>3 DEF Branch
            <4>3. CASE n = 1
                BY <4>1, <4>2, <4>3, RunSteps DEF GoodStep
            <4>4. CASE n = Plan[jobKind][jobRun.step].steps + 1
                <5>1. n = Plan[jobKind][jobRun.step].steps + 1
                      /\ Plan[jobKind][jobRun.step].steps \in Nat /\ jobRun.step \in Nat
                      /\ jobRun.step + Plan[jobKind][jobRun.step].steps + 1 \in DOMAIN Plan[jobKind]
                    BY <4>1, <4>4, RunSteps DEF GoodStep
                <5>2. jobRun.step + n \in DOMAIN Plan[jobKind]
                    BY <5>1
                <5>3. [jobRun EXCEPT !.step = jobRun.step + n] \in RunType
                    BY <5>2, RunSteps
                <5> QED BY <4>2, <5>3
            <4> QED BY <4>2, <4>3, <4>4
        <3> QED BY <1>2, <3>1, <3>2, <3>3
    <2>2. UNCHANGED <<jobKind, jobFile, jobStaged, jobRow, jobMarker, jobStore, jobPen,
                      jobPurge, jobOld, jobOverlap>>
        BY <1>2 DEF CheckCancelled, DoWork, Branch
    <2> QED BY <2>1, <2>2 DEF JobTypeOK, RunType
<1>3. CASE PutObject
    <2>1. jobRun' \in RunType /\ jobStore' \in SUBSET {"snapshot", "report"}
        BY <1>3, RunSteps DEF PutObject, AtStep, NextStep, GoodStep, JobTypeOK
    <2> QED BY <1>3, <2>1 DEF PutObject, JobTypeOK, RunType
<1>4. CASE WriteStatus
    <2>1. PICK status \in Present.to :
             Begin(Worker, "stage", [jobFile EXCEPT !.status = status, !.keys = @ \cup Present.keys])
        BY <1>4 DEF WriteStatus, Present
    <2>2. status \in Statuses /\ Present.keys \in SUBSET {"snapshot", "report"} /\ jobFile # Gone
        BY <1>4, <2>1, RunSteps DEF WriteStatus, AtStep, GoodStep, Present
    <2>3. Worker \in Writers /\ "stage" \in PenPlaces
        BY DEF Writers, PenPlaces
    <2>4. /\ jobPen' \in [Writers -> {Idle} \cup [at : PenPlaces, doc : Doc]]
          /\ jobOverlap' \in BOOLEAN
        BY <2>1, <2>2, <2>3, StepDocs, BeginType
    <2> QED BY <1>4, <2>4 DEF WriteStatus, JobTypeOK, RunType
<1>5. CASE HandleError
    <2>1. PICK status \in {"failed", "cancelled"} : Begin(Worker, "stage", [jobFile EXCEPT !.status = status])
        BY <1>5 DEF HandleError
    <2>2. status \in Statuses /\ jobFile # Gone
        BY <1>5 DEF HandleError, Statuses, Terminal
    <2>3. Worker \in Writers /\ "stage" \in PenPlaces
        BY DEF Writers, PenPlaces
    <2>4. /\ jobPen' \in [Writers -> {Idle} \cup [at : PenPlaces, doc : Doc]]
          /\ jobOverlap' \in BOOLEAN
        BY <2>1, <2>2, <2>3, StepDocs, BeginType
    <2> QED BY <1>5, <2>4 DEF HandleError, JobTypeOK, RunType
<1>6. CASE KillWorker
    BY <1>6, RunSteps DEF KillWorker, JobTypeOK, RunType
<1> QED BY <1>1, <1>2, <1>3, <1>4, <1>5, <1>6 DEF RunNext

LEMMA CallTypes == ASSUME JobTypeOK, PurgeRule, CallNext PROVE JobTypeOK'
<1>1. CASE RecordInputMetadata
    <2>1. jobFile # Gone /\ Submitter \in Writers /\ "stage" \in PenPlaces
        BY <1>1 DEF RecordInputMetadata, PurgeRule, Writers, PenPlaces
    <2>2. /\ jobPen' \in [Writers -> {Idle} \cup [at : PenPlaces, doc : Doc]]
          /\ jobOverlap' \in BOOLEAN
        BY <1>1, <2>1, StepDocs, BeginType DEF RecordInputMetadata
    <2>3. jobRun' \in RunType
        BY <1>1 DEF RecordInputMetadata, JobTypeOK, RunType
    <2> QED BY <1>1, <2>2, <2>3 DEF RecordInputMetadata, JobTypeOK, PenPlaces, RunType
<1>2. CASE EnqueueRun
    BY <1>2 DEF EnqueueRun, JobTypeOK, RunType
<1>3. ASSUME NEW c \in Calls, RequestCancel(c) \/ SoftDelete(c) PROVE JobTypeOK'
    <2>1. jobFile # Gone /\ c \in Writers /\ {"mark", "stage"} \subseteq PenPlaces
        BY <1>3 DEF RequestCancel, SoftDelete, Writers, PenPlaces
    <2>2. /\ jobPen' \in [Writers -> {Idle} \cup [at : PenPlaces, doc : Doc]]
          /\ jobOverlap' \in BOOLEAN
        BY <1>3, <2>1, StepDocs, BeginType DEF RequestCancel, SoftDelete
    <2> QED BY <1>3, <2>2 DEF RequestCancel, SoftDelete, JobTypeOK, RunType
<1>4. ASSUME NEW c \in Calls, WriteMarker(c) PROVE JobTypeOK'
    BY <1>4 DEF WriteMarker, JobTypeOK, Idle, Writers, PenPlaces, RunType
<1> QED BY <1>1, <1>2, <1>3, <1>4 DEF CallNext

LEMMA PurgeTypes == ASSUME JobTypeOK, PurgeNext PROVE JobTypeOK'
BY DEF PurgeNext, GetOld, PurgeObjects, PurgeRow, PurgeTree, PurgeStops, JobTypeOK, RunType

LEMMA JobStepTypes == ASSUME JobTypeOK, PurgeRule, JobNext PROVE JobTypeOK'
BY WriterTypes, RunTypes, CallTypes, PurgeTypes DEF JobNext

LEMMA PurgeStep == ASSUME JobTypeOK, PurgeRule, JobNext PROVE PurgeRule'
<1> USE DEF PurgeRule
<1>1. ASSUME NEW w \in Writers, StageDoc(w) PROVE PurgeRule'
    BY <1>1 DEF StageDoc
<1>2. ASSUME NEW w \in Writers, PublishDoc(w) PROVE PurgeRule'
    <2>1. jobFile # Gone /\ jobFile' # Gone /\ (jobOld' => jobOld)
        BY <1>2 DEF PublishDoc, JobTypeOK
    <2> QED BY <1>2, <2>1 DEF PublishDoc
<1>3. ASSUME NEW w \in Writers, SaveRow(w) PROVE PurgeRule'
    <2>1. jobRow = Gone => jobRow' = Gone
        BY <1>3 DEF SaveRow, UpdateJob
    <2>2. jobRun'.at \in {jobRun.at, "done", "ended"}
        BY <1>3 DEF SaveRow, AfterWrite, JobTypeOK, RunType
    <2> QED BY <1>3, <2>1, <2>2 DEF SaveRow, AtWork
<1>4. ASSUME NEW w \in Writers, WriteRaises(w) PROVE PurgeRule'
    <2>1. jobRun'.at \in {jobRun.at, "ended"} \/ jobRun.at = "run"
        BY <1>4 DEF WriteRaises, Escapes, JobTypeOK, RunType
    <2> QED BY <1>4, <2>1 DEF WriteRaises, AtWork
<1>5. CASE RunNext
    <2>1. CASE StartRun
        BY <2>1 DEF StartRun
    <2>2. CASE CheckCancelled \/ DoWork \/ Branch \/ PutObject
        <3>1. jobRun.at = "run"
            BY <2>2 DEF CheckCancelled, DoWork, Branch, PutObject, AtStep
        <3>2. UNCHANGED <<jobFile, jobStaged, jobRow, jobPurge, jobOld>>
            BY <2>2 DEF CheckCancelled, DoWork, Branch, PutObject
        <3> QED BY <3>1, <3>2 DEF AtWork
    <2>3. CASE WriteStatus \/ HandleError
        <3>1. UNCHANGED <<jobFile, jobStaged, jobRow, jobRun, jobPurge, jobOld>>
            BY <2>3, Zenon DEF WriteStatus, HandleError
        <3> QED BY <3>1
    <2>4. CASE KillWorker
        BY <2>4 DEF KillWorker, JobTypeOK, RunType, AtWork
    <2> QED BY <1>5, <2>1, <2>2, <2>3, <2>4 DEF RunNext
<1>6. CASE CallNext
    <2>1. CASE RecordInputMetadata
        BY <2>1 DEF RecordInputMetadata
    <2>2. CASE EnqueueRun
        BY <2>2 DEF EnqueueRun, AtWork
    <2>3. ASSUME NEW c \in Calls, RequestCancel(c) \/ WriteMarker(c) \/ SoftDelete(c) PROVE PurgeRule'
        BY <2>3 DEF RequestCancel, WriteMarker, SoftDelete
    <2> QED BY <1>6, <2>1, <2>2, <2>3 DEF CallNext
<1>7. CASE PurgeNext
    <2>1. CASE GetOld
        BY <2>1 DEF GetOld, AtWork
    <2>2. CASE PurgeObjects
        BY <2>2 DEF PurgeObjects
    <2>3. CASE PurgeRow \/ PurgeTree \/ PurgeStops
        BY <2>3 DEF PurgeRow, PurgeTree, PurgeStops
    <2> QED BY <1>7, <2>1, <2>2, <2>3 DEF PurgeNext
<1> QED BY <1>1, <1>2, <1>3, <1>4, <1>5, <1>6, <1>7 DEF JobNext

(* A writer begins: without overlap it is the only one. *)
LEMMA BeginAlone ==
    ASSUME JobTypeOK, NEW w \in Writers, NEW at \in PenPlaces, NEW doc, Begin(w, at, doc),
           ~jobOverlap'
    PROVE  /\ ~jobOverlap /\ jobPen'[w] = [at |-> at, doc |-> doc] /\ jobPen[w] = Idle
           /\ \A v \in Writers \ {w} : jobPen'[v] = Idle /\ jobPen[v] = Idle
<1>1. jobPen \in [Writers -> {Idle} \cup [at : PenPlaces, doc : Doc]]
    BY DEF JobTypeOK
<1>2. ~jobOverlap /\ \A v \in Writers \ {w} : jobPen[v] = Idle
    BY DEF Begin
<1>3. jobPen'[w] = [at |-> at, doc |-> doc] /\ \A v \in Writers \ {w} : jobPen'[v] = jobPen[v]
    BY <1>1 DEF Begin
<1> QED BY <1>2, <1>3 DEF Begin

(* The pen that begins is the only one, at its mark or its text. *)
LEMMA BeginHolds ==
    ASSUME JobTypeOK, PenRule, NEW w \in Writers, NEW at \in {"mark", "stage"}, NEW doc \in Doc,
           Begin(w, at, doc), UNCHANGED <<jobKind, jobFile, jobStaged>>,
           jobRun'.at = jobRun.at, jobRun'.step = jobRun.step,
           w = Worker => jobRun.at \in AtWork,
           w # Worker /\ jobFile # Gone => doc.status = jobFile.status /\ doc.keys = jobFile.keys,
           w = Worker =>
               /\ jobFile # Gone => jobFile.keys \subseteq doc.keys
               /\ jobRun.at # "run" => doc.status \in Terminal
               /\ jobRun.at = "run" => /\ Present.do \in {"write", "last"}
                                       /\ doc.status \in Present.to
                                       /\ Present.keys \subseteq doc.keys
    PROVE  PenRule'
<1> SUFFICES ASSUME ~jobOverlap' PROVE PenRule'
    BY DEF PenRule
<1>0. Worker \in Writers /\ at \in PenPlaces
    BY DEF Writers, PenPlaces
<1>1. /\ ~jobOverlap /\ jobPen'[w] = [at |-> at, doc |-> doc]
      /\ \A v \in Writers \ {w} : jobPen'[v] = Idle
    BY <1>0, BeginAlone
<1>2. OnePen'
    BY <1>1 DEF OnePen
<1>3. jobPen'[Worker] # Idle => jobRun'.at \in AtWork
    BY <1>0, <1>1 DEF PenRule
<1>4. ASSUME jobFile' # Gone PROVE (\A v \in Writers : PenHolds(v)') /\ WorkerHolds'
    <2>1. ASSUME NEW v \in Writers PROVE PenHolds(v)'
        BY <1>1, <1>4 DEF PenHolds, Idle
    <2>2. Present' = Present
        BY DEF Present
    <2>3. WorkerHolds'
        <3>1. CASE w # Worker
            BY <1>0, <1>1, <3>1 DEF WorkerHolds
        <3>2. CASE w = Worker
            BY <1>1, <1>4, <2>2, <3>2 DEF WorkerHolds
        <3> QED BY <3>1, <3>2
    <2> QED BY <2>1, <2>3
<1> QED BY <1>2, <1>3, <1>4 DEF PenRule

(* Without overlap, a writer at work is the only one; what a worker at work *)
(* or a request holds is of the file.                                       *)
LEMMA Alone ==
    ASSUME PenRule, ~jobOverlap, NEW w \in Writers, jobPen[w] # Idle
    PROVE  /\ \A v \in Writers \ {w} : jobPen[v] = Idle
           /\ w = Worker => jobRun.at \in AtWork
BY DEF PenRule, OnePen

LEMMA StageSteps ==
    ASSUME JobTypeOK, PurgeRule, PenRule, NEW w \in Writers, StageDoc(w) \/ PublishDoc(w)
    PROVE  PenRule'
<1> SUFFICES ASSUME ~jobOverlap' PROVE PenRule'
    BY DEF PenRule
<1>1. /\ ~jobOverlap /\ jobPen[w] # Idle /\ jobPen'[w] # Idle /\ jobPen[w].doc \in Doc
      /\ jobPen'[w].doc = jobPen[w].doc
      /\ \A v \in Writers \ {w} : jobPen'[v] = jobPen[v]
    BY DEF StageDoc, PublishDoc, JobTypeOK, Idle
<1>2. \A v \in Writers \ {w} : jobPen[v] = Idle /\ jobPen'[v] = Idle
    BY <1>1, Alone
<1>3. OnePen'
    BY <1>2 DEF OnePen
<1>4. jobRun' = jobRun /\ jobKind' = jobKind
    BY DEF StageDoc, PublishDoc
<1>5. jobFile # Gone
    BY DEF StageDoc, PublishDoc, PurgeRule
<1>6. jobPen'[Worker] # Idle => jobRun'.at \in AtWork
    BY <1>1, <1>2, <1>4, Alone DEF Writers
<1>7. ASSUME jobRun'.at # "killed" PROVE (\A v \in Writers : PenHolds(v)') /\ WorkerHolds'
    <2>1. (\A v \in Writers : PenHolds(v)) /\ WorkerHolds
        BY <1>1, <1>4, <1>5, <1>7 DEF PenRule
    <2>2. Present' = Present
        BY <1>4 DEF Present
    <2>3. CASE StageDoc(w)
        <3>1. jobStaged' = jobPen[w].doc /\ jobFile' = jobFile /\ jobPen'[w].at = "publish"
            BY <2>3 DEF StageDoc, JobTypeOK, Idle
        <3>2. PenHolds(w)'
            BY <1>1, <2>1, <3>1 DEF PenHolds
        <3>3. ASSUME NEW v \in Writers PROVE PenHolds(v)'
            BY <1>2, <3>2 DEF PenHolds, Idle
        <3>4. WorkerHolds'
            BY <1>1, <1>2, <1>4, <2>1, <2>2, <3>1 DEF WorkerHolds, Writers
        <3> QED BY <3>3, <3>4
    <2>4. CASE PublishDoc(w)
        <3>1. jobFile' = jobPen[w].doc /\ jobPen'[w].at = "row"
            BY <2>1, <2>4 DEF PublishDoc, JobTypeOK, Idle, PenHolds
        <3>2. PenHolds(w)'
            BY <1>1, <3>1 DEF PenHolds
        <3>3. ASSUME NEW v \in Writers PROVE PenHolds(v)'
            BY <1>2, <3>2 DEF PenHolds, Idle
        <3>4. WorkerHolds'
            BY <1>1, <1>2, <1>4, <2>1, <2>2, <3>1 DEF WorkerHolds, Writers
        <3> QED BY <3>3, <3>4
    <2> QED BY <2>3, <2>4
<1> QED BY <1>3, <1>6, <1>7 DEF PenRule

(* A write that ends leaves no one at work. *)
LEMMA EndSteps ==
    ASSUME JobTypeOK, PenRule, NEW w \in Writers, SaveRow(w) \/ WriteRaises(w)
    PROVE  PenRule' /\ (~jobOverlap' => \A v \in Writers : jobPen'[v] = Idle)
<1> SUFFICES ASSUME ~jobOverlap'
             PROVE  PenRule' /\ \A v \in Writers : jobPen'[v] = Idle
    BY DEF PenRule
<1>1. /\ ~jobOverlap /\ jobPen[w] # Idle /\ jobPen'[w] = Idle
      /\ \A v \in Writers \ {w} : jobPen'[v] = jobPen[v]
    BY DEF SaveRow, WriteRaises, JobTypeOK, Idle
<1>2. \A v \in Writers : jobPen'[v] = Idle
    BY <1>1, Alone
<1>3. OnePen'
    BY <1>2 DEF OnePen
<1>4. Worker \in Writers
    BY DEF Writers
<1>5. ASSUME NEW v \in Writers PROVE PenHolds(v)'
    BY <1>2 DEF PenHolds, Idle
<1>6. WorkerHolds'
    BY <1>2, <1>4 DEF WorkerHolds
<1> QED BY <1>2, <1>3, <1>4, <1>5, <1>6 DEF PenRule

(* The pens stay, and the run does not: the worker's pen is idle. *)
LEMMA PensStay ==
    ASSUME PenRule, UNCHANGED <<jobPen, jobOverlap>>, jobPen[Worker] = Idle,
           jobFile' # Gone => jobFile' = jobFile /\ jobStaged' = jobStaged,
           jobRun.at = "killed" => jobRun'.at = "killed"
    PROVE  PenRule'
<1> SUFFICES ASSUME ~jobOverlap' PROVE PenRule'
    BY DEF PenRule
<1>1. OnePen'
    BY DEF PenRule, OnePen
<1>2. WorkerHolds'
    BY DEF WorkerHolds
<1>3. ASSUME jobFile' # Gone, jobRun'.at # "killed", NEW w \in Writers PROVE PenHolds(w)'
    BY <1>3 DEF PenRule, PenHolds
<1> QED BY <1>1, <1>2, <1>3 DEF PenRule

LEMMA RunPens == ASSUME JobTypeOK, PenRule, RunNext PROVE PenRule'
<1>1. CASE StartRun
    <2>1. jobOverlap \/ jobPen[Worker] = Idle
        BY <1>1 DEF StartRun, PenRule, AtWork
    <2>2. CASE jobOverlap
        BY <1>1, <2>2 DEF StartRun, PenRule
    <2>3. CASE jobPen[Worker] = Idle
        BY <1>1, <2>3, PensStay DEF StartRun
    <2> QED BY <2>1, <2>2, <2>3
<1>2. CASE CheckCancelled \/ DoWork \/ Branch \/ PutObject
    <2>1. jobPen[Worker] = Idle /\ jobRun.at = "run"
        BY <1>2 DEF CheckCancelled, DoWork, Branch, PutObject, AtStep
    <2>2. UNCHANGED <<jobPen, jobOverlap, jobFile, jobStaged>>
        BY <1>2 DEF CheckCancelled, DoWork, Branch, PutObject
    <2> QED BY <2>1, <2>2, PensStay
<1>3. CASE WriteStatus
    <2>1. PICK status \in Present.to :
             Begin(Worker, "stage", [jobFile EXCEPT !.status = status, !.keys = @ \cup Present.keys])
        BY <1>3 DEF WriteStatus, Present
    <2> DEFINE doc == [jobFile EXCEPT !.status = status, !.keys = @ \cup Present.keys]
    <2>2. /\ status \in Statuses /\ Present.keys \in SUBSET {"snapshot", "report"} /\ jobFile # Gone
          /\ Present.do \in {"write", "last"} /\ jobRun.at = "run"
        BY <1>3, <2>1, RunSteps DEF WriteStatus, AtStep, GoodStep, Present
    <2>3. doc \in Doc
        BY <2>2, StepDocs
    <2>4. doc.status = status /\ doc.keys = jobFile.keys \cup Present.keys
        BY <2>2 DEF JobTypeOK, Doc
    <2>5. Worker \in Writers /\ "run" \in AtWork /\ UNCHANGED <<jobKind, jobFile, jobStaged, jobRun>>
        BY <1>3 DEF Writers, AtWork, WriteStatus
    <2>6. Begin(Worker, "stage", doc)
        BY <2>1
    <2> HIDE DEF doc
    <2> QED BY <2>2, <2>3, <2>4, <2>5, <2>6, BeginHolds
<1>4. CASE HandleError
    <2>1. PICK status \in {"failed", "cancelled"} : Begin(Worker, "stage", [jobFile EXCEPT !.status = status])
        BY <1>4 DEF HandleError
    <2> DEFINE doc == [jobFile EXCEPT !.status = status]
    <2>2. status \in Statuses /\ jobFile # Gone /\ jobRun.at \in {"cancelling", "failing"}
        BY <1>4 DEF HandleError, Statuses, Terminal
    <2>3. doc \in Doc
        <3>1. doc = [jobFile EXCEPT !.status = status, !.keys = @ \cup {}]
            BY <2>2 DEF JobTypeOK, Doc
        <3> QED BY <2>2, <3>1, StepDocs
    <2>4. doc.status = status /\ doc.keys = jobFile.keys /\ status \in Terminal
        BY <2>2 DEF JobTypeOK, Doc, Terminal
    <2>5. Worker \in Writers /\ UNCHANGED <<jobKind, jobFile, jobStaged, jobRun>>
        BY <1>4 DEF Writers, HandleError
    <2>6. Begin(Worker, "stage", doc)
        BY <2>1
    <2>7. jobRun.at \in AtWork /\ jobRun.at # "run"
        BY <2>2 DEF AtWork
    <2> HIDE DEF doc
    <2> QED BY <2>3, <2>4, <2>5, <2>6, <2>7, BeginHolds
<1>5. CASE KillWorker
    <2> SUFFICES ASSUME ~jobOverlap' PROVE PenRule'
        BY DEF PenRule
    <2>1. jobPen'[Worker] = Idle /\ \A v \in Writers \ {Worker} : jobPen'[v] = jobPen[v]
        BY <1>5 DEF KillWorker, JobTypeOK, Writers
    <2>2. OnePen'
        BY <1>5, <2>1 DEF OnePen, PenRule, KillWorker
    <2>3. jobRun'.at = "killed"
        BY <1>5 DEF KillWorker, JobTypeOK, RunType
    <2> QED BY <2>1, <2>2, <2>3 DEF PenRule
<1> QED BY <1>1, <1>2, <1>3, <1>4, <1>5 DEF RunNext

LEMMA CallPens == ASSUME JobTypeOK, PurgeRule, PenRule, CallNext PROVE PenRule'
<1>0. Worker # Submitter /\ Submitter \in Writers /\ \A c \in Calls : c \in Writers /\ c # Worker
    BY AuditJobsAssumption DEF Writers, Worker, Submitter
<1>1. CASE RecordInputMetadata
    <2> DEFINE doc == [jobFile EXCEPT !.named = TRUE]
    <2>1. jobFile # Gone
        BY <1>1 DEF RecordInputMetadata, PurgeRule
    <2>2. doc \in Doc
        BY <2>1, StepDocs
    <2>3. doc.status = jobFile.status /\ doc.keys = jobFile.keys
        BY <2>1 DEF JobTypeOK, Doc
    <2>4. Begin(Submitter, "stage", doc) /\ UNCHANGED <<jobKind, jobFile, jobStaged>>
        BY <1>1 DEF RecordInputMetadata
    <2>5. jobRun'.at = jobRun.at /\ jobRun'.step = jobRun.step
        BY <1>1 DEF RecordInputMetadata, JobTypeOK, RunType
    <2> HIDE DEF doc
    <2> QED BY <1>0, <2>2, <2>3, <2>4, <2>5, BeginHolds
<1>2. CASE EnqueueRun
    <2>1. CASE jobOverlap
        BY <1>2, <2>1 DEF EnqueueRun, PenRule
    <2>2. CASE ~jobOverlap
        <3>1. jobPen[Worker] = Idle
            BY <1>2, <2>2 DEF EnqueueRun, PenRule, AtWork
        <3> QED BY <1>2, <3>1, PensStay DEF EnqueueRun
    <2> QED BY <2>1, <2>2
<1>3. ASSUME NEW c \in Calls, RequestCancel(c) PROVE PenRule'
    <2> DEFINE doc == [jobFile EXCEPT !.asked = TRUE]
    <2>1. doc \in Doc
        BY <1>3, StepDocs DEF RequestCancel
    <2>2. doc.status = jobFile.status /\ doc.keys = jobFile.keys
        BY <1>3 DEF JobTypeOK, Doc, RequestCancel
    <2>3. Begin(c, "mark", doc) /\ UNCHANGED <<jobKind, jobFile, jobStaged, jobRun>>
        BY <1>3 DEF RequestCancel
    <2> HIDE DEF doc
    <2> QED BY <1>0, <2>1, <2>2, <2>3, BeginHolds
<1>4. ASSUME NEW c \in Calls, SoftDelete(c) PROVE PenRule'
    <2> DEFINE doc == [jobFile EXCEPT !.deleted = TRUE]
    <2>1. doc \in Doc
        BY <1>4, StepDocs DEF SoftDelete
    <2>2. doc.status = jobFile.status /\ doc.keys = jobFile.keys
        BY <1>4 DEF JobTypeOK, Doc, SoftDelete
    <2>3. Begin(c, "stage", doc) /\ UNCHANGED <<jobKind, jobFile, jobStaged, jobRun>>
        BY <1>4 DEF SoftDelete
    <2> HIDE DEF doc
    <2> QED BY <1>0, <2>1, <2>2, <2>3, BeginHolds
<1>5. ASSUME NEW c \in Calls, WriteMarker(c) PROVE PenRule'
    <2> SUFFICES ASSUME ~jobOverlap' PROVE PenRule'
        BY DEF PenRule
    <2>1. /\ ~jobOverlap /\ jobPen[c] # Idle /\ c \in Writers
          /\ UNCHANGED <<jobKind, jobFile, jobStaged, jobRun>>
        BY <1>0, <1>5 DEF WriteMarker, Idle
    <2>2. \A v \in Writers \ {c} : jobPen[v] = Idle
        BY <2>1, Alone
    <2>3. /\ jobPen'[c].at = "stage" /\ jobPen'[c].doc = jobPen[c].doc
          /\ \A v \in Writers \ {c} : jobPen'[v] = Idle
        BY <1>5, <2>1, <2>2 DEF WriteMarker, JobTypeOK, Idle
    <2>4. OnePen'
        BY <2>3 DEF OnePen
    <2>5. jobPen'[Worker] = Idle
        BY <1>0, <2>3 DEF Writers
    <2>6. WorkerHolds'
        BY <2>5 DEF WorkerHolds
    <2>7. ASSUME jobFile' # Gone, jobRun'.at # "killed", NEW w \in Writers PROVE PenHolds(w)'
        <3>1. CASE w = c
            <4>1. PenHolds(c)
                BY <2>1, <2>7 DEF PenRule
            <4> QED BY <2>1, <2>3, <3>1, <4>1 DEF PenHolds
        <3>2. CASE w # c
            BY <2>3, <2>7, <3>2 DEF PenHolds, Idle
        <3> QED BY <3>1, <3>2
    <2> QED BY <2>4, <2>5, <2>6, <2>7 DEF PenRule
<1> QED BY <1>1, <1>2, <1>3, <1>4, <1>5 DEF CallNext

LEMMA PurgePens == ASSUME JobTypeOK, PurgeRule, PenRule, PurgeNext PROVE PenRule'
<1>1. UNCHANGED <<jobPen, jobOverlap, jobRun, jobKind>> /\ (jobFile' # Gone => jobFile' = jobFile /\ jobStaged' = jobStaged)
    BY DEF PurgeNext, GetOld, PurgeObjects, PurgeRow, PurgeTree, PurgeStops
<1> SUFFICES ASSUME ~jobOverlap' PROVE PenRule'
    BY DEF PenRule
<1>2. OnePen' /\ (jobPen'[Worker] # Idle => jobRun'.at \in AtWork)
    BY <1>1 DEF PenRule, OnePen
<1>3. Present' = Present
    BY <1>1 DEF Present
<1>4. ASSUME jobFile' # Gone, jobRun'.at # "killed" PROVE (\A w \in Writers : PenHolds(w)') /\ WorkerHolds'
    <2>1. (\A w \in Writers : PenHolds(w)) /\ WorkerHolds
        BY <1>1, <1>4 DEF PenRule
    <2>2. ASSUME NEW w \in Writers PROVE PenHolds(w)'
        BY <1>1, <1>4, <2>1 DEF PenHolds
    <2>3. WorkerHolds'
        BY <1>1, <1>3, <1>4, <2>1 DEF WorkerHolds
    <2> QED BY <2>2, <2>3
<1> QED BY <1>2, <1>4 DEF PenRule

LEMMA PenStep == ASSUME JobTypeOK, PurgeRule, PenRule, JobNext PROVE PenRule'
BY StageSteps, EndSteps, RunPens, CallPens, PurgePens DEF JobNext

(* A write of the worker succeeds as long as nobody overlaps and the       *)
(* directory is there, as it is while a run is at work.                    *)
LEMMA WorkerWrites ==
    ASSUME JobTypeOK, PurgeRule, PenRule, WriteRaises(Worker)
    PROVE  jobOverlap
<1> SUFFICES ASSUME ~jobOverlap PROVE FALSE
    OBVIOUS
<1>1. jobPen[Worker] # Idle /\ Worker \in Writers /\ jobPen[Worker].doc \in Doc
    BY DEF WriteRaises, Idle, Writers, JobTypeOK
<1>2. jobRun.at \in AtWork /\ jobFile # Gone
    BY <1>1 DEF PenRule, PurgeRule
<1>3. PenHolds(Worker)
    BY <1>1, <1>2 DEF PenRule, AtWork
<1> QED BY <1>1, <1>2, <1>3, GoneIsNone DEF WriteRaises, PenHolds

(* What the write of a row finds: the file is what was written.            *)
LEMMA RowWrites ==
    ASSUME JobTypeOK, PenRule, NEW w \in Writers, SaveRow(w), ~jobOverlap, jobFile # Gone,
           jobRun.at # "killed"
    PROVE  jobFile = jobPen[w].doc /\ jobPen[w] # Idle
<1>1. PenHolds(w)
    BY DEF PenRule
<1> QED BY <1>1 DEF SaveRow, PenHolds, Idle

LEMMA RowStep == ASSUME JobTypeOK, PurgeRule, PenRule, RowRule, JobNext PROVE RowRule'
<1> SUFFICES ASSUME ~jobOverlap', jobFile' # Gone, jobRow' # Gone,
                    \A w \in Writers : jobPen'[w].at # "row", jobRun'.at \notin AtWork \cup {"killed"}
             PROVE  jobRow'.status = jobFile'.status
    BY DEF RowRule
<1>1. ASSUME NEW w \in Writers, StageDoc(w) PROVE jobRow'.status = jobFile'.status
    <2>1. \A v \in Writers : jobPen[v].at # "row"
        BY <1>1 DEF StageDoc, JobTypeOK
    <2> QED BY <1>1, <2>1 DEF StageDoc, RowRule
<1>2. ASSUME NEW w \in Writers, PublishDoc(w) PROVE jobRow'.status = jobFile'.status
    BY <1>2 DEF PublishDoc, JobTypeOK, Idle
<1>3. ASSUME NEW w \in Writers, SaveRow(w) PROVE jobRow'.status = jobFile'.status
    <2>1. jobFile' = jobFile /\ ~jobOverlap /\ jobRow # Gone /\ jobRow'.status = jobPen[w].doc.status
        BY <1>3 DEF SaveRow, UpdateJob
    <2>2. jobRun.at # "killed"
        <3>1. CASE w = Worker
            <4>1. jobPen[Worker] # Idle
                BY <1>3, <3>1 DEF SaveRow, Idle
            <4>2. jobRun.at \in AtWork
                BY <2>1, <4>1 DEF PenRule
            <4> QED BY <4>2 DEF AtWork
        <3>2. CASE w # Worker
            BY <1>3, <3>2 DEF SaveRow
        <3> QED BY <3>1, <3>2
    <2> QED BY <1>3, <2>1, <2>2, RowWrites
<1>4. ASSUME NEW w \in Writers, WriteRaises(w) PROVE jobRow'.status = jobFile'.status
    <2>1. w # Worker
        BY <1>4, WorkerWrites DEF WriteRaises
    <2>2. \A v \in Writers : jobPen[v].at # "row"
        BY <1>4 DEF WriteRaises, JobTypeOK
    <2> QED BY <1>4, <2>1, <2>2 DEF WriteRaises, RowRule
<1>5. CASE RunNext
    <2>1. CASE StartRun \/ CheckCancelled \/ DoWork \/ Branch \/ PutObject \/ KillWorker
        <3>1. jobRun'.at \in AtWork \cup {"killed"}
            <4>1. CASE StartRun
                BY <4>1 DEF StartRun, JobTypeOK, RunType, AtWork
            <4>2. CASE CheckCancelled
                BY <4>2 DEF CheckCancelled, AtStep, NextStep, JobTypeOK, RunType, AtWork
            <4>3. CASE DoWork
                BY <4>3 DEF DoWork, AtStep, NextStep, JobTypeOK, RunType, AtWork
            <4>4. CASE Branch
                BY <4>4 DEF Branch, AtStep, JobTypeOK, RunType, AtWork
            <4>5. CASE PutObject
                BY <4>5 DEF PutObject, AtStep, NextStep, JobTypeOK, RunType, AtWork
            <4>6. CASE KillWorker
                BY <4>6 DEF KillWorker, JobTypeOK, RunType
            <4> QED BY <2>1, <4>1, <4>2, <4>3, <4>4, <4>5, <4>6
        <3> QED BY <3>1
    <2>2. CASE WriteStatus
        BY <2>2 DEF WriteStatus, AtStep, AtWork
    <2>3. CASE HandleError
        BY <2>3 DEF HandleError, AtWork
    <2> QED BY <1>5, <2>1, <2>2, <2>3 DEF RunNext
<1>6. CASE CallNext
    <2>1. UNCHANGED <<jobFile, jobRow>>
        BY <1>6 DEF CallNext, RecordInputMetadata, EnqueueRun, RequestCancel, WriteMarker, SoftDelete
    <2>2. jobRun'.at = jobRun.at \/ jobRun.at = "unsent"
        BY <1>6 DEF CallNext, RecordInputMetadata, EnqueueRun, RequestCancel, WriteMarker, SoftDelete
    <2>3. \A v \in Writers : jobPen[v].at # "row"
        BY <1>6 DEF CallNext, RecordInputMetadata, EnqueueRun, RequestCancel, WriteMarker, SoftDelete,
                    Begin, Idle, JobTypeOK, Writers
    <2>4. ~jobOverlap
        BY <1>6 DEF CallNext, RecordInputMetadata, EnqueueRun, RequestCancel, WriteMarker, SoftDelete, Begin
    <2> QED BY <2>1, <2>2, <2>3, <2>4 DEF RowRule, AtWork
<1>7. CASE PurgeNext
    BY <1>7 DEF PurgeNext, GetOld, PurgeObjects, PurgeRow, PurgeTree, PurgeStops, RowRule
<1> QED BY <1>1, <1>2, <1>3, <1>4, <1>5, <1>6, <1>7 DEF JobNext

LEMMA PublishEnds ==
    ASSUME JobTypeOK, PurgeRule, PenRule, EndRule, NEW w \in Writers, PublishDoc(w)
    PROVE  EndRule'
<1> SUFFICES ASSUME ~jobOverlap', jobRun.at # "killed" PROVE EndRule'
    BY DEF EndRule, PublishDoc
<1>1. /\ jobPen[w] # Idle /\ jobPen[w].doc \in Doc /\ jobFile # Gone /\ ~jobOverlap
      /\ UNCHANGED <<jobRun, jobKind, jobStore, jobPurge>>
    BY DEF PublishDoc, PurgeRule, JobTypeOK, Idle
<1>2. PenHolds(w) /\ WorkerHolds
    BY <1>1 DEF PenRule
<1>3. jobFile' = jobPen[w].doc /\ jobFile' # Gone
    BY <1>2 DEF PublishDoc, PenHolds
<1>4. Present' = Present
    BY <1>1 DEF Present
<1>5. CASE w # Worker
    BY <1>1, <1>2, <1>3, <1>4, <1>5 DEF EndRule, PenHolds
<1>6. CASE w = Worker
    <2>1. jobRun.at \in AtWork /\ jobFile.keys \subseteq jobFile'.keys
        BY <1>1, <1>2, <1>3, <1>6 DEF PenRule, WorkerHolds
    <2> QED BY <1>1, <1>4, <2>1 DEF EndRule, AtWork
<1> QED BY <1>5, <1>6

LEMMA SaveEnds ==
    ASSUME JobTypeOK, PurgeRule, PenRule, EndRule, NEW w \in Writers, SaveRow(w)
    PROVE  EndRule'
<1> SUFFICES ASSUME ~jobOverlap' PROVE EndRule'
    BY DEF EndRule
<1>1. ~jobOverlap /\ UNCHANGED <<jobFile, jobKind, jobStore, jobPurge>> /\ jobPen[w] # Idle
    BY DEF SaveRow, Idle
<1>2. CASE w # Worker
    BY <1>1, <1>2 DEF SaveRow, EndRule, Present
<1>3. CASE w = Worker
    <2>1. /\ jobRun.at \in AtWork /\ jobFile # Gone /\ jobPurge = "idle"
          /\ jobPen[w].doc \in Doc /\ jobRun.at # "killed"
        BY <1>1, <1>3 DEF PenRule, PurgeRule, AtWork, JobTypeOK, Idle
    <2>2. jobFile = jobPen[Worker].doc /\ WorkerHolds /\ jobPen[Worker] # Idle
        BY <1>1, <1>3, <2>1, RowWrites DEF PenRule
    <2>3. jobRun' = AfterWrite
        BY <1>3 DEF SaveRow
    <2>4. CASE jobRun.at # "run"
        <3>1. jobRun'.at = "ended"
            BY <2>3, <2>4 DEF AfterWrite, JobTypeOK, RunType
        <3>2. jobFile.status \in Terminal
            BY <2>2, <2>4 DEF WorkerHolds
        <3> QED BY <1>1, <3>1, <3>2 DEF EndRule
    <2>5. CASE jobRun.at = "run" /\ Present.do = "last"
        <3>1. jobRun'.at = "done"
            BY <2>3, <2>5 DEF AfterWrite, JobTypeOK, RunType, Present
        <3>2. GoodStep(Plan[jobKind], jobRun.step) /\ Present = Plan[jobKind][jobRun.step]
            BY RunSteps DEF Present
        <3>3. Present.to \subseteq Terminal /\ Present.keys = {"report"}
            BY <2>5, <3>2 DEF GoodStep
        <3>4. jobFile.status \in Terminal /\ "report" \in jobFile.keys
            BY <2>2, <2>5, <3>3 DEF WorkerHolds
        <3>5. jobStore \subseteq {"snapshot", "report"} /\ ("snapshot" \in jobStore => "snapshot" \in jobFile.keys)
            BY <1>1, <2>5 DEF EndRule, JobTypeOK
        <3>6. jobStore \subseteq jobFile.keys
            BY <3>4, <3>5
        <3> QED BY <1>1, <2>1, <3>1, <3>4, <3>6 DEF EndRule
    <2>6. CASE jobRun.at = "run" /\ Present.do # "last"
        <3>1. jobRun'.at = "run"
            BY <2>3, <2>6 DEF AfterWrite, JobTypeOK, RunType, Present
        <3>2. "snapshot" \in jobStore => "snapshot" \in jobFile.keys
            BY <1>1, <2>2, <2>6 DEF EndRule, WorkerHolds
        <3> QED BY <1>1, <3>1, <3>2 DEF EndRule
    <2> QED BY <2>4, <2>5, <2>6
<1> QED BY <1>2, <1>3

LEMMA RunEnds == ASSUME JobTypeOK, PurgeRule, PenRule, EndRule, RunNext PROVE EndRule'
<1> SUFFICES ASSUME ~jobOverlap' PROVE EndRule'
    BY DEF EndRule
<1>1. CASE StartRun
    <2>1. jobRun.at = "queued" /\ jobRun'.at = "run" /\ UNCHANGED <<jobStore, jobOverlap>>
        BY <1>1 DEF StartRun, JobTypeOK, RunType
    <2> QED BY <2>1 DEF EndRule
<1>2. CASE CheckCancelled \/ DoWork \/ Branch
    <2>1. /\ jobRun.at = "run" /\ Present.do # "write" /\ jobRun'.at \in AtWork
          /\ UNCHANGED <<jobFile, jobStore, jobOverlap>>
        <3>1. CASE CheckCancelled
            BY <3>1 DEF CheckCancelled, AtStep, NextStep, JobTypeOK, RunType, AtWork, Present
        <3>2. CASE DoWork
            BY <3>2 DEF DoWork, AtStep, NextStep, JobTypeOK, RunType, AtWork, Present
        <3>3. CASE Branch
            BY <3>3 DEF Branch, AtStep, JobTypeOK, RunType, AtWork, Present
        <3> QED BY <1>2, <3>1, <3>2, <3>3
    <2> QED BY <2>1 DEF EndRule, AtWork
<1>3. CASE PutObject
    <2>1. /\ jobRun.at = "run" /\ Present.do = "store" /\ jobRun' = [jobRun EXCEPT !.step = @ + 1]
          /\ jobStore' = jobStore \cup {Present.object}
          /\ UNCHANGED <<jobFile, jobKind, jobOverlap>>
        BY <1>3 DEF PutObject, AtStep, NextStep, Present
    <2>2. jobRun'.at = "run" /\ Present' = Plan[jobKind][jobRun.step + 1]
        BY <2>1 DEF JobTypeOK, RunType, Present
    <2>3. GoodStep(Plan[jobKind], jobRun.step) /\ Present = Plan[jobKind][jobRun.step]
        BY RunSteps DEF Present
    <2>4. Present.object = "snapshot" => Present'.do = "write" /\ "snapshot" \in Present'.keys
        BY <2>1, <2>2, <2>3 DEF GoodStep
    <2>5. "snapshot" \in jobStore => "snapshot" \in jobFile.keys
        BY <2>1 DEF EndRule
    <2> QED BY <2>1, <2>2, <2>4, <2>5 DEF EndRule
<1>4. CASE WriteStatus \/ HandleError
    <2>1. /\ UNCHANGED <<jobFile, jobKind, jobStore, jobRun, jobPurge>>
          /\ ~jobOverlap
        <3>1. CASE WriteStatus
            BY <3>1 DEF WriteStatus, Begin
        <3>2. CASE HandleError
            BY <3>2 DEF HandleError, Begin
        <3> QED BY <1>4, <3>1, <3>2
    <2> QED BY <2>1 DEF EndRule, Present
<1>5. CASE KillWorker
    <2>1. jobRun'.at = "killed"
        BY <1>5 DEF KillWorker, JobTypeOK, RunType
    <2> QED BY <2>1 DEF EndRule
<1> QED BY <1>1, <1>2, <1>3, <1>4, <1>5 DEF RunNext

LEMMA CallEnds == ASSUME JobTypeOK, PurgeRule, PenRule, EndRule, CallNext PROVE EndRule'
<1> SUFFICES ASSUME ~jobOverlap' PROVE EndRule'
    BY DEF EndRule
<1>1. CASE RecordInputMetadata
    <2>1. /\ jobRun.at = "unsent" /\ jobRun'.at = "unsent" /\ ~jobOverlap /\ jobStore' = jobStore
        BY <1>1 DEF RecordInputMetadata, Begin, JobTypeOK, RunType
    <2> QED BY <2>1 DEF EndRule
<1>2. CASE EnqueueRun
    <2>1. /\ jobRun.at = "unsent" /\ jobRun'.at \in {"queued", "refused"} /\ ~jobOverlap
          /\ jobStore' = jobStore
        BY <1>2 DEF EnqueueRun, JobTypeOK, RunType
    <2> QED BY <2>1 DEF EndRule
<1>3. ASSUME NEW c \in Calls, RequestCancel(c) \/ WriteMarker(c) \/ SoftDelete(c) PROVE EndRule'
    <2>1. /\ UNCHANGED <<jobFile, jobKind, jobStore, jobRun, jobPurge>>
          /\ ~jobOverlap
        <3>1. CASE RequestCancel(c)
            BY <3>1 DEF RequestCancel, Begin
        <3>2. CASE WriteMarker(c)
            BY <3>2 DEF WriteMarker
        <3>3. CASE SoftDelete(c)
            BY <3>3 DEF SoftDelete, Begin
        <3> QED BY <1>3, <3>1, <3>2, <3>3
    <2> QED BY <2>1 DEF EndRule, Present
<1> QED BY <1>1, <1>2, <1>3 DEF CallNext

LEMMA PurgeEnds == ASSUME JobTypeOK, PurgeRule, EndRule, PurgeNext PROVE EndRule'
<1> SUFFICES ASSUME ~jobOverlap' PROVE EndRule'
    BY DEF EndRule
<1>1. CASE GetOld
    BY <1>1 DEF GetOld, EndRule, Present
<1>2. CASE PurgeObjects
    <2>1. /\ ~jobOverlap /\ jobFile # Gone /\ jobPurge = "idle" /\ jobPurge' = "row"
          /\ jobStore' = jobStore \ jobFile.keys /\ UNCHANGED <<jobFile, jobKind, jobRun>>
          /\ jobRun.at \notin AtWork
        BY <1>2 DEF PurgeObjects, PurgeRule
    <2> QED BY <2>1 DEF EndRule, AtWork
<1>3. CASE PurgeRow
    BY <1>3 DEF PurgeRow, EndRule, Present
<1>4. CASE PurgeTree
    <2>1. jobFile' = Gone /\ jobPurge # "idle" /\ UNCHANGED <<jobStore, jobRun, jobOverlap>>
          /\ jobRun.at \notin AtWork
        BY <1>4 DEF PurgeTree, PurgeRule
    <2> QED BY <2>1 DEF EndRule, AtWork
<1>5. CASE PurgeStops
    <2>1. /\ jobPurge # "idle" /\ jobPurge' = "idle" /\ UNCHANGED <<jobFile, jobKind, jobStore, jobRun, jobOverlap>>
          /\ Present' = Present
        BY <1>5 DEF PurgeStops, Present
    <2> QED BY <2>1 DEF EndRule
<1> QED BY <1>1, <1>2, <1>3, <1>4, <1>5 DEF PurgeNext

LEMMA EndStep == ASSUME JobTypeOK, PurgeRule, PenRule, EndRule, JobNext PROVE EndRule'
<1>1. ASSUME NEW w \in Writers, StageDoc(w) PROVE EndRule'
    BY <1>1 DEF StageDoc, EndRule, Present
<1>2. ASSUME NEW w \in Writers, WriteRaises(w) PROVE EndRule'
    <2>1. CASE w = Worker
        BY <1>2, <2>1, WorkerWrites DEF EndRule, WriteRaises
    <2>2. CASE w # Worker
        BY <1>2, <2>2 DEF EndRule, WriteRaises, Present
    <2> QED BY <2>1, <2>2
<1> QED BY <1>1, <1>2, PublishEnds, SaveEnds, RunEnds, CallEnds, PurgeEnds DEF JobNext

LEMMA JobInvariant == JobSpec => []JobIInv
<1>1. JobInit => JobIInv
    BY JobInitially
<1>2. JobIInv /\ [JobNext]_jobVars => JobIInv'
    <2> SUFFICES ASSUME JobIInv, [JobNext]_jobVars PROVE JobIInv'
        OBVIOUS
    <2>1. CASE JobNext
        BY <2>1, JobStepTypes, PurgeStep, PenStep, RowStep, EndStep DEF JobIInv
    <2>2. CASE UNCHANGED jobVars
        BY <2>2 DEF jobVars, JobIInv, JobTypeOK, RunType, PurgeRule, PenRule, OnePen, PenHolds,
                    WorkerHolds, Present, RowRule, EndRule
    <2> QED BY <2>1, <2>2
<1> QED BY <1>1, <1>2, PTL DEF JobSpec

(* When its run is over and nobody writes, the file of a job has a         *)
(* terminal status and its row the same one, unless two writers            *)
(* overlapped.                                                             *)
THEOREM EndedJobsAgree == JobSpec => []SettledAgrees
<1>1. JobIInv => SettledAgrees
    BY DEF JobIInv, EndRule, RowRule, SettledAgrees, Idle, AtWork
<1> QED BY <1>1, JobInvariant, PTL

(* A job without a directory has no row, and none of its objects if its    *)
(* run came to its end undisturbed.                                        *)
THEOREM PurgedJobsAreGone == JobSpec => []PurgeLeavesNothing
<1>1. JobIInv => PurgeLeavesNothing
    BY DEF JobIInv, EndRule, PurgeRule, PurgeLeavesNothing
<1> QED BY <1>1, JobInvariant, PTL

(* The row of a job keeps the snapshot it names until it is purged, though *)
(* a stale writer may take it from the status file.                        *)
THEOREM SnapshotsStayReferenced == JobSpec => SnapshotStaysReferenced
<1>1. ASSUME JobIInv, [JobNext]_jobVars, jobRow # Gone, jobRow.snapshot
      PROVE  jobRow' = Gone \/ jobRow'.snapshot
    <2>1. ASSUME NEW w \in Writers, SaveRow(w) PROVE jobRow'.snapshot
        BY <1>1, <2>1 DEF SaveRow, UpdateJob
    <2>2. CASE StartRun
        <3>1. jobRow \in Row
            BY <1>1 DEF JobIInv, JobTypeOK
        <3> QED BY <1>1, <2>2, <3>1 DEF StartRun, Row
    <2>3. CASE PurgeRow
        BY <2>3 DEF PurgeRow
    <2>4. ASSUME NEW w \in Writers, StageDoc(w) \/ PublishDoc(w) \/ WriteRaises(w)
          PROVE  jobRow' = jobRow
        BY <2>4 DEF StageDoc, PublishDoc, WriteRaises
    <2>5. CASE RunNext /\ ~StartRun
        BY <1>1, <2>5 DEF RunNext, CheckCancelled, DoWork, PutObject, WriteStatus, Branch, HandleError, KillWorker
    <2>6. CASE CallNext
        BY <1>1, <2>6 DEF CallNext, RecordInputMetadata, EnqueueRun, RequestCancel, WriteMarker, SoftDelete
    <2>7. CASE PurgeNext /\ ~PurgeRow
        BY <1>1, <2>7 DEF PurgeNext, GetOld, PurgeObjects, PurgeTree, PurgeStops
    <2>8. CASE UNCHANGED jobVars
        BY <1>1, <2>8 DEF jobVars
    <2> QED BY <1>1, <2>1, <2>2, <2>3, <2>4, <2>5, <2>6, <2>7, <2>8 DEF JobNext
<1> QED BY <1>1, JobInvariant, PTL DEF JobSpec, SnapshotStaysReferenced

-----------------------------------------------------------------------------
(* JobAdmission: the keys, the slots of the quota and its lock.            *)

(* A request that waits for the quota, and one that makes its job.         *)
Waiting == {"lock", "steal", "count", "mkdir"}
Making  == {"status", "unlock", "rows", "insert", "send"}
Working == Waiting \cup Making

AdmTypeOK ==
    /\ admKey \in [JobKeys -> {"none", "empty"} \cup Requests]
    /\ admLock \in [by : Requests \cup {Nobody}, old : BOOLEAN]
    /\ admDir \in [Requests -> {"none", "bare", "active", "ended"}]
    /\ admRow \in [Requests -> {"none", "active", "ended"}]
    /\ admQueue \in SUBSET Requests
    /\ admAt \in [Requests -> {"new", "record", "answered", "error", "crashed"} \cup Working]
    /\ admJob \in [Requests -> Requests \cup {Nobody}]
    /\ admReplay \in SUBSET Requests
    /\ admBroken \in BOOLEAN /\ admFault \in BOOLEAN

(* A request has its own job, or as a replay the job the file of its key   *)
(* names; the file names whoever got past it, and is empty only while its  *)
(* owner is about to write it.                                             *)
KeysRule ==
    \A r \in Requests :
        /\ admAt[r] = "new" => admJob[r] = Nobody /\ r \notin admReplay
        /\ admAt[r] \in {"record", "answered"} \cup Working => admJob[r] # Nobody
        /\ r \notin admReplay /\ admJob[r] # Nobody => admJob[r] = r
        /\ r \notin admReplay /\ KeyOf[r] # NoKey /\ admAt[r] \in {"answered"} \cup Working
              => admKey[KeyOf[r]] = r
        /\ r \in admReplay => /\ KeyOf[r] # NoKey /\ admJob[r] = admKey[KeyOf[r]]
                              /\ admJob[r] \in Requests
        /\ r \in admQueue /\ KeyOf[r] # NoKey => admKey[KeyOf[r]] = r
        /\ admAt[r] = "send" => r \notin admReplay
        /\ admAt[r] = "record" => KeyOf[r] # NoKey /\ r \notin admReplay /\ admKey[KeyOf[r]] = "empty"

(* One request of a key is about to write its file.                        *)
OneRecorder ==
    \A r, s \in Requests : admAt[r] = "record" /\ admAt[s] = "record" /\ KeyOf[r] = KeyOf[s] => r = s

(* A file of a key names a request with that key that is past it.          *)
RecordsAreClaims ==
    \A k \in JobKeys : admKey[k] \in Requests =>
        KeyOf[admKey[k]] = k /\ admKey[k] \notin admReplay /\ admAt[admKey[k]] \notin {"new", "record"}

(* Unless the lock was stolen, whoever is in the locked section has it,    *)
(* and who passed the count finds a free slot until its job is made.       *)
LockRule ==
    ~admBroken => \A r \in Requests :
        /\ admAt[r] \in Holding => admLock.by = r
        /\ admAt[r] \in {"mkdir", "status"} => Cardinality(ActiveDirs) < JobQuota

(* A job that takes a slot is queued, or is being made, or its replay      *)
(* still waits to make it; only a fault leaves it otherwise.               *)
SlotRule ==
    \A j \in Requests :
        /\ admAt[j] = "crashed" => admFault
        /\ admDir[j] # "none" => j \notin admReplay /\ admAt[j] \notin {"new", "record"}
        /\ admDir[j] = "none" /\ j \notin admReplay =>
              admAt[j] \in {"new", "record", "error", "crashed"} \cup Waiting
        /\ ~admFault /\ admDir[j] \in {"bare", "active"} =>
              \/ j \in admQueue \/ admAt[j] \in Making
              \/ /\ admAt[j] \in {"error"} \cup Waiting
                 /\ \E r \in admReplay : admJob[r] = j

(* The directory of a job without a status is that of the one request that *)
(* makes it.                                                               *)
BareRule ==
    \A r, s \in Requests :
        /\ admAt[r] = "status" => admDir[admJob[r]] = "bare"
        /\ admAt[r] = "status" /\ admAt[s] = "status" /\ admJob[r] = admJob[s] => r = s

AdmIInv == /\ AdmTypeOK /\ KeysRule /\ OneRecorder /\ RecordsAreClaims
           /\ WithinJobQuota /\ LockRule /\ SlotRule /\ BareRule

KeyInv == KeysRule /\ OneRecorder /\ RecordsAreClaims

LEMMA KeyOfRequest == \A r \in Requests : KeyOf[r] # NoKey => KeyOf[r] \in JobKeys
BY DEF JobKeys

LEMMA AdmInitially == AdmInit => AdmIInv
<1> SUFFICES ASSUME AdmInit PROVE AdmIInv
    OBVIOUS
<1>1. AdmTypeOK
    BY DEF AdmInit, AdmTypeOK, Free
<1>2. KeyInv
    BY JobAdmissionAssumption, KeyOfRequest
       DEF AdmInit, KeyInv, KeysRule, OneRecorder, RecordsAreClaims, Working, Waiting, Making
<1>3. ActiveDirs = {}
    BY DEF AdmInit, ActiveDirs
<1>4. WithinJobQuota /\ LockRule
    <2>1. Cardinality(ActiveDirs) <= JobQuota
        BY <1>3, FS_EmptySet, JobAdmissionAssumption
    <2> QED BY <2>1 DEF AdmInit, WithinJobQuota, LockRule, Holding
<1>5. SlotRule /\ BareRule
    BY DEF AdmInit, SlotRule, BareRule, Waiting, Making
<1> QED BY <1>1, <1>2, <1>4, <1>5 DEF AdmIInv, KeyInv

(* Most steps of a request go on with the job it has. *)
LEMMA GoingOnKeepsKeys ==
    ASSUME AdmTypeOK, KeyInv, NEW r \in Requests,
           NEW at, Go(r, at), UNCHANGED <<admKey, admQueue, admJob, admReplay>>,
           \/ admAt[r] \in Working /\ at \in {"answered", "error", "crashed"} \cup Working
           \/ admAt[r] = "record" /\ at = "crashed",
           at = "send" => r \notin admReplay
    PROVE  KeyInv'
<1> USE DEF KeyInv, AdmTypeOK, Go, Working, Waiting, Making
<1>1. \A s \in Requests : s # r => admAt'[s] = admAt[s]
    OBVIOUS
<1>2. admAt'[r] = at
    OBVIOUS
<1>3. KeysRule'
    BY <1>1, <1>2 DEF KeysRule
<1>4. OneRecorder'
    BY <1>1, <1>2 DEF OneRecorder
<1>5. RecordsAreClaims'
    BY <1>1, <1>2 DEF RecordsAreClaims
<1> QED BY <1>3, <1>4, <1>5

LEMMA KeylessKeepsKeys ==
    ASSUME AdmTypeOK, KeyInv, NEW r \in Requests, Keyless(r) PROVE KeyInv'
<1> USE DEF KeyInv, AdmTypeOK, Go, Keyless, Working, Waiting, Making
<1>3. KeysRule'
    BY JobAdmissionAssumption DEF KeysRule
<1>4. OneRecorder'
    BY DEF OneRecorder
<1>5. RecordsAreClaims'
    BY DEF RecordsAreClaims
<1> QED BY <1>3, <1>4, <1>5

LEMMA ClaimKeepsKeys ==
    ASSUME AdmTypeOK, KeyInv, NEW r \in Requests, ClaimKey(r) PROVE KeyInv'
<1> USE DEF KeyInv, AdmTypeOK, Go, ClaimKey, Working, Waiting, Making
<1>1. KeyOf[r] \in JobKeys /\ "empty" \notin Requests /\ "none" \notin Requests
    BY KeyOfRequest, JobAdmissionAssumption
<1>2. \A s \in Requests : KeyOf[s] = KeyOf[r] => admKey[KeyOf[s]] = "none"
    OBVIOUS
<1>3. KeysRule'
    BY <1>1, <1>2, JobAdmissionAssumption DEF KeysRule
<1>4. OneRecorder'
    BY <1>1, <1>2 DEF OneRecorder, KeysRule
<1>5. RecordsAreClaims'
    BY <1>1 DEF RecordsAreClaims
<1> QED BY <1>3, <1>4, <1>5

LEMMA WriteKeepsKeys ==
    ASSUME AdmTypeOK, KeyInv, NEW r \in Requests, WriteRecord(r) PROVE KeyInv'
<1> USE DEF KeyInv, AdmTypeOK, Go, WriteRecord, Working, Waiting, Making
<1>1. /\ KeyOf[r] \in JobKeys /\ KeyOf[r] # NoKey /\ r \notin admReplay
      /\ "empty" \notin Requests /\ "none" \notin Requests /\ admKey[KeyOf[r]] = "empty"
    BY KeyOfRequest, JobAdmissionAssumption DEF KeysRule
<1>2. \A s \in Requests : s # r /\ KeyOf[s] = KeyOf[r] => admAt[s] # "record"
    BY DEF OneRecorder
<1>3. KeysRule'
    <2> SUFFICES ASSUME NEW s \in Requests
        PROVE  /\ admAt'[s] = "new" => admJob[s] = Nobody /\ s \notin admReplay
               /\ admAt'[s] \in {"record", "answered"} \cup Working => admJob[s] # Nobody
               /\ s \notin admReplay /\ admJob[s] # Nobody => admJob[s] = s
               /\ s \notin admReplay /\ KeyOf[s] # NoKey /\ admAt'[s] \in {"answered"} \cup Working
                     => admKey'[KeyOf[s]] = s
               /\ s \in admReplay => /\ KeyOf[s] # NoKey /\ admJob[s] = admKey'[KeyOf[s]]
                                     /\ admJob[s] \in Requests
               /\ s \in admQueue /\ KeyOf[s] # NoKey => admKey'[KeyOf[s]] = s
               /\ admAt'[s] = "send" => s \notin admReplay
               /\ admAt'[s] = "record" => KeyOf[s] # NoKey /\ s \notin admReplay /\ admKey'[KeyOf[s]] = "empty"
        BY DEF KeysRule
    <2>1. CASE s = r
        BY <1>1, <2>1 DEF KeysRule
    <2>2. CASE s # r /\ KeyOf[s] = KeyOf[r]
        BY <1>1, <1>2, <2>2 DEF KeysRule
    <2>3. CASE s # r /\ KeyOf[s] # KeyOf[r]
        <3>1. admAt'[s] = admAt[s] /\ (KeyOf[s] # NoKey => admKey'[KeyOf[s]] = admKey[KeyOf[s]])
            BY <2>3, KeyOfRequest
        <3> QED BY <3>1, <2>3 DEF KeysRule
    <2> QED BY <2>1, <2>2, <2>3
<1>4. OneRecorder'
    BY DEF OneRecorder
<1>5. RecordsAreClaims'
    BY <1>1 DEF RecordsAreClaims
<1> QED BY <1>3, <1>4, <1>5

LEMMA FindKeepsKeys ==
    ASSUME AdmTypeOK, KeyInv, NEW r \in Requests, FindKey(r) PROVE KeyInv'
<1> USE DEF KeyInv, AdmTypeOK, Go, Working, Waiting, Making
<1> DEFINE job == admKey[KeyOf[r]]
           bad == job = "empty" \/ (job \in Requests /\ PrintOf[job] # PrintOf[r])
<1>1. /\ KeyOf[r] \in JobKeys /\ KeyOf[r] # NoKey /\ admAt[r] = "new" /\ job # "none"
      /\ UNCHANGED <<admKey, admQueue>>
    BY KeyOfRequest DEF FindKey
<1>2. CASE bad
    <2>1. UNCHANGED <<admJob, admReplay>> /\ admAt' = [admAt EXCEPT ![r] = "error"]
        BY <1>2 DEF FindKey
    <2>3. KeysRule'
        BY <1>1, <2>1 DEF KeysRule
    <2>4. OneRecorder'
        BY <1>1, <2>1 DEF OneRecorder
    <2>5. RecordsAreClaims'
        BY <1>1, <2>1 DEF RecordsAreClaims
    <2> QED BY <2>3, <2>4, <2>5
<1>3. CASE ~bad
    <2>1. job \in Requests /\ "empty" \notin Requests
        BY <1>1, <1>3, JobAdmissionAssumption
    <2>2. /\ admJob' = [admJob EXCEPT ![r] = job] /\ admReplay' = admReplay \cup {r}
          /\ \E at \in {"error", "answered", "lock"} : admAt' = [admAt EXCEPT ![r] = at]
        BY <1>3 DEF FindKey
    <2>3. KeysRule'
        BY <1>1, <2>1, <2>2, JobAdmissionAssumption DEF KeysRule
    <2>4. OneRecorder'
        BY <1>1, <2>2 DEF OneRecorder
    <2>5. RecordsAreClaims'
        BY <1>1, <2>2 DEF RecordsAreClaims
    <2> QED BY <2>3, <2>4, <2>5
<1> QED BY <1>2, <1>3

LEMMA SendKeepsKeys ==
    ASSUME AdmTypeOK, KeyInv, NEW r \in Requests, SendRun(r) PROVE KeyInv'
<1> USE DEF KeyInv, AdmTypeOK, Go, SendRun, Working, Waiting, Making
<1>1. r \notin admReplay /\ admJob[r] = r /\ (KeyOf[r] # NoKey => admKey[KeyOf[r]] = r)
    BY DEF KeysRule
<1>3. KeysRule'
    BY <1>1 DEF KeysRule
<1>4. OneRecorder'
    BY DEF OneRecorder
<1>5. RecordsAreClaims'
    BY DEF RecordsAreClaims
<1> QED BY <1>3, <1>4, <1>5

(* The job of a request at work, and the steps that leave the keys alone. *)
LEMMA JobOfRequest ==
    ASSUME AdmTypeOK, KeyInv, NEW r \in Requests, admAt[r] \in Working
    PROVE  admJob[r] \in Requests
BY DEF AdmTypeOK, KeyInv, KeysRule

(* The history of removed locks stays a truth value. *)
LEMMA BrokenType == ASSUME AdmTypeOK, AdmNext PROVE admBroken' \in BOOLEAN
<1>1. ASSUME NEW r \in Requests, NEW at, Unlock(r, at) PROVE admBroken' \in BOOLEAN
    BY <1>1 DEF Unlock
<1>2. ASSUME NEW r \in Requests, RemoveLock(r) PROVE admBroken' \in BOOLEAN
    BY <1>2 DEF RemoveLock
<1>3. ASSUME NEW r \in Requests, CountDirs(r) \/ MakeDir(r) \/ ReleaseLock(r)
      PROVE  admBroken' \in BOOLEAN
    <2>1. (\E at : Unlock(r, at)) \/ admBroken' = admBroken
        BY <1>3 DEF CountDirs, MakeDir, ReleaseLock
    <2> QED BY <1>1, <2>1 DEF AdmTypeOK
<1>4. CASE admBroken' = admBroken
    BY <1>4 DEF AdmTypeOK
<1>5. (\E r \in Requests : RemoveLock(r) \/ CountDirs(r) \/ MakeDir(r) \/ ReleaseLock(r))
      \/ admBroken' = admBroken
    BY DEF AdmNext, AgeLock, Keyless, ClaimKey, WriteRecord, FindKey, TakeLock, SeeOldLock,
           LockBusy, WriteInitialStatus, CountRows, InsertRow, SendRun, CrashRequest, EndRun
<1> QED BY <1>2, <1>3, <1>4, <1>5

LEMMA FaultType == ASSUME AdmTypeOK, AdmNext PROVE admFault' \in BOOLEAN
<1>1. ASSUME NEW r \in Requests, CountRows(r) PROVE admFault' \in BOOLEAN
    BY <1>1 DEF CountRows
<1>2. ASSUME NEW r \in Requests, SendRun(r) PROVE admFault' \in BOOLEAN
    BY <1>2 DEF SendRun
<1>3. CASE admFault' = admFault \/ admFault' = TRUE
    BY <1>3 DEF AdmTypeOK
<1>4. (\E r \in Requests : CountRows(r) \/ SendRun(r)) \/ admFault' = admFault \/ admFault' = TRUE
    BY DEF AdmNext, AgeLock, Keyless, ClaimKey, WriteRecord, FindKey, TakeLock, SeeOldLock, RemoveLock,
           LockBusy, CountDirs, MakeDir, WriteInitialStatus, ReleaseLock, InsertRow, CrashRequest, EndRun
<1> QED BY <1>1, <1>2, <1>3, <1>4

LEMMA StepTypes == ASSUME AdmTypeOK, KeyInv, AdmNext PROVE AdmTypeOK'
<1>0. admBroken' \in BOOLEAN /\ admFault' \in BOOLEAN
    BY BrokenType, FaultType
<1> USE <1>0 DEF AdmTypeOK, Go
<1>1. ASSUME NEW r \in Requests, Keyless(r) \/ ClaimKey(r) \/ WriteRecord(r) PROVE AdmTypeOK'
    BY <1>1, KeyOfRequest DEF Keyless, ClaimKey, WriteRecord, Working, Waiting
<1>2. ASSUME NEW r \in Requests, FindKey(r) PROVE AdmTypeOK'
    BY <1>2, KeyOfRequest DEF FindKey, Working, Waiting
<1>3. ASSUME NEW r \in Requests, TakeLock(r) \/ SeeOldLock(r) \/ LockBusy(r) PROVE  AdmTypeOK'
    <2>1. CASE TakeLock(r)
        BY <2>1 DEF TakeLock, Working, Waiting
    <2>2. CASE SeeOldLock(r) \/ LockBusy(r)
        BY <2>2 DEF SeeOldLock, LockBusy, Working, Waiting
    <2> QED BY <1>3, <2>1, <2>2
<1>9. ASSUME NEW r \in Requests, RemoveLock(r) PROVE  AdmTypeOK'
    <2>1. /\ admLock' = Free /\ admAt' = [admAt EXCEPT ![r] = "lock"]
          /\ UNCHANGED <<admKey, admDir, admRow, admQueue, admJob, admReplay, admFault>>
        BY <1>9 DEF RemoveLock
    <2> QED BY <2>1 DEF Free, Working, Waiting
<1>4. ASSUME NEW r \in Requests, NEW at \in {"error", "rows"}, Unlock(r, at)
      PROVE  /\ admLock' \in [by : Requests \cup {Nobody}, old : BOOLEAN]
             /\ admAt' = [admAt EXCEPT ![r] = at]
    BY <1>4 DEF Unlock, Free
<1>5. ASSUME NEW r \in Requests, CountDirs(r) \/ MakeDir(r) \/ WriteInitialStatus(r) \/ ReleaseLock(r)
      PROVE  AdmTypeOK'
    BY <1>4, <1>5 DEF CountDirs, MakeDir, WriteInitialStatus, ReleaseLock, Working, Waiting, Making
<1>6. ASSUME NEW r \in Requests, CountRows(r) \/ InsertRow(r) \/ CrashRequest(r) \/ EndRun(r)
      PROVE  AdmTypeOK'
    BY <1>6 DEF CountRows, InsertRow, CrashRequest, EndRun, Working, Making
<1>7. ASSUME NEW r \in Requests, SendRun(r) PROVE AdmTypeOK'
    BY <1>7, JobOfRequest DEF SendRun, Working, Making
<1>8. ASSUME AgeLock PROVE AdmTypeOK'
    BY <1>8 DEF AgeLock
<1> QED BY <1>1, <1>2, <1>3, <1>5, <1>6, <1>7, <1>8, <1>9 DEF AdmNext

LEMMA StepKeepsKeys == ASSUME AdmTypeOK, KeyInv, AdmNext PROVE KeyInv'
<1>1. ASSUME NEW r \in Requests,
             TakeLock(r) \/ SeeOldLock(r) \/ RemoveLock(r) \/ LockBusy(r) \/ CountDirs(r)
             \/ MakeDir(r) \/ WriteInitialStatus(r) \/ ReleaseLock(r)
      PROVE  KeyInv'
    <2>1. /\ UNCHANGED <<admKey, admQueue, admJob, admReplay>> /\ admAt[r] \in Working
          /\ \E at \in {"answered", "error", "crashed"} \cup Working : Go(r, at) /\ at # "send"
        BY <1>1 DEF TakeLock, SeeOldLock, RemoveLock, LockBusy, CountDirs, MakeDir,
                    WriteInitialStatus, ReleaseLock, Unlock, Working, Waiting, Making
    <2> QED BY <2>1, GoingOnKeepsKeys
<1>2. ASSUME NEW r \in Requests, CountRows(r) \/ InsertRow(r) PROVE  KeyInv'
    <2>1. /\ UNCHANGED <<admKey, admQueue, admJob, admReplay>> /\ admAt[r] \in Working
          /\ \E at \in {"answered", "error", "crashed"} \cup Working :
                Go(r, at) /\ (at = "send" => r \notin admReplay)
        BY <1>2 DEF CountRows, InsertRow, Working, Waiting, Making
    <2> QED BY <2>1, GoingOnKeepsKeys
<1>3. ASSUME NEW r \in Requests, CrashRequest(r) PROVE KeyInv'
    <2>1. /\ UNCHANGED <<admKey, admQueue, admJob, admReplay>> /\ Go(r, "crashed")
          /\ admAt[r] \in Working \/ admAt[r] = "record"
        BY <1>3 DEF CrashRequest, AdmTypeOK
    <2> QED BY <2>1, GoingOnKeepsKeys
<1>4. ASSUME AgeLock \/ \E j \in Requests : EndRun(j) PROVE KeyInv'
    BY <1>4 DEF AgeLock, EndRun, KeyInv, KeysRule, OneRecorder, RecordsAreClaims
<1> QED BY <1>1, <1>2, <1>3, <1>4, KeylessKeepsKeys, ClaimKeepsKeys, WriteKeepsKeys,
           FindKeepsKeys, SendKeepsKeys DEF AdmNext

-----------------------------------------------------------------------------
(* The quota. *)

LEMMA ActiveDirsFinite ==
    ASSUME NEW S \in SUBSET Requests
    PROVE  IsFiniteSet(S) /\ Cardinality(S) \in Nat
BY FS_Subset, FS_CardinalityType, JobAdmissionAssumption

QuotaInv == WithinJobQuota /\ LockRule

(* What neither adds a status file nor moves anyone towards one. *)
LEMMA OthersKeepQuota ==
    ASSUME AdmTypeOK, QuotaInv, AdmTypeOK', ActiveDirs' \subseteq ActiveDirs,
           UNCHANGED admBroken,
           \A r \in Requests : admAt'[r] \in Holding =>
              admAt[r] \in Holding /\ admLock'.by = admLock.by,
           \A r \in Requests : admAt'[r] \in {"mkdir", "status"} => admAt[r] \in {"mkdir", "status"}
    PROVE  QuotaInv'
<1>1. Cardinality(ActiveDirs') <= Cardinality(ActiveDirs)
      /\ Cardinality(ActiveDirs') \in Nat /\ Cardinality(ActiveDirs) \in Nat
    <2>1. ActiveDirs \in SUBSET Requests /\ ActiveDirs' \in SUBSET ActiveDirs
        BY DEF ActiveDirs
    <2> QED BY <2>1, ActiveDirsFinite, FS_Subset
<1> QED BY <1>1, JobAdmissionAssumption DEF QuotaInv, WithinJobQuota, LockRule

LEMMA OnlyHolder ==
    ASSUME AdmTypeOK, LockRule, ~admBroken, NEW r \in Requests, NEW s \in Requests,
           admAt[r] \in Holding, admAt[s] \in Holding
    PROVE  r = s
BY DEF LockRule

(* Who lets the lock go, or takes an old one away, leaves no holder behind. *)
LEMMA UnlockKeepsQuota ==
    ASSUME AdmTypeOK, QuotaInv, AdmTypeOK', NEW r \in Requests, NEW at, admAt[r] \in Holding,
           Unlock(r, at), at \notin Holding, UNCHANGED admDir
    PROVE  QuotaInv'
<1>1. ActiveDirs' = ActiveDirs
    BY DEF ActiveDirs
<1>2. ~admBroken' => ~admBroken /\ admLock.by = r
    BY DEF Unlock, QuotaInv, LockRule
<1>3. ~admBroken' => \A s \in Requests : admAt'[s] \notin Holding
    BY <1>2, OnlyHolder DEF Unlock, Go, QuotaInv, AdmTypeOK
<1>4. {"mkdir", "status"} \subseteq Holding
    BY DEF Holding
<1> QED BY <1>1, <1>2, <1>3, <1>4 DEF QuotaInv, WithinJobQuota, LockRule

LEMMA RemoveKeepsQuota ==
    ASSUME AdmTypeOK, QuotaInv, AdmTypeOK', NEW r \in Requests, RemoveLock(r)
    PROVE  QuotaInv'
<1>1. ActiveDirs' = ActiveDirs
    BY DEF ActiveDirs, RemoveLock
<1>2. ~admBroken' => ~admBroken /\ \A s \in Requests : admAt[s] \notin Holding
    BY JobAdmissionAssumption DEF RemoveLock, NeededBy, QuotaInv, LockRule, Free, AdmTypeOK
<1>3. ~admBroken' => \A s \in Requests : admAt'[s] \notin Holding
    BY <1>2 DEF RemoveLock, Go, AdmTypeOK, Holding
<1>4. {"mkdir", "status"} \subseteq Holding
    BY DEF Holding
<1> QED BY <1>1, <1>2, <1>3, <1>4 DEF QuotaInv, WithinJobQuota, LockRule

LEMMA TakeKeepsQuota ==
    ASSUME AdmTypeOK, QuotaInv, AdmTypeOK', NEW r \in Requests, TakeLock(r)
    PROVE  QuotaInv'
<1>1. ActiveDirs' = ActiveDirs
    BY DEF ActiveDirs, TakeLock
<1>2. ~admBroken => \A s \in Requests : admAt[s] \notin Holding
    BY JobAdmissionAssumption DEF TakeLock, QuotaInv, LockRule, Free, AdmTypeOK
<1> QED BY <1>1, <1>2 DEF TakeLock, Go, AdmTypeOK, QuotaInv, WithinJobQuota, LockRule, Holding

LEMMA CountKeepsQuota ==
    ASSUME AdmTypeOK, QuotaInv, AdmTypeOK', NEW r \in Requests, CountDirs(r)
    PROVE  QuotaInv'
<1>1. CASE Cardinality(ActiveDirs) >= JobQuota
    BY <1>1, UnlockKeepsQuota DEF CountDirs, Holding
<1>2. CASE ~(Cardinality(ActiveDirs) >= JobQuota)
    <2>1. Cardinality(ActiveDirs) < JobQuota /\ ActiveDirs' = ActiveDirs
        <3>1. ActiveDirs \in SUBSET Requests
            BY DEF ActiveDirs
        <3>2. Cardinality(ActiveDirs) \in Nat
            BY <3>1, ActiveDirsFinite
        <3>3. ActiveDirs' = ActiveDirs
            BY DEF ActiveDirs, CountDirs
        <3> QED BY <1>2, <3>2, <3>3, JobAdmissionAssumption
    <2> QED BY <1>2, <2>1 DEF CountDirs, Go, AdmTypeOK, QuotaInv, WithinJobQuota, LockRule, Holding
<1> QED BY <1>1, <1>2

LEMMA StatusKeepsQuota ==
    ASSUME AdmTypeOK, KeyInv, QuotaInv, AdmTypeOK', NEW r \in Requests, WriteInitialStatus(r)
    PROVE  QuotaInv'
<1>1. admJob[r] \in Requests
    BY JobOfRequest DEF WriteInitialStatus, Working, Making
<1>2. ActiveDirs' \in SUBSET (ActiveDirs \cup {admJob[r]}) /\ ActiveDirs \in SUBSET Requests
    BY <1>1 DEF ActiveDirs, WriteInitialStatus, AdmTypeOK
<1>3. /\ Cardinality(ActiveDirs') <= Cardinality(ActiveDirs) + 1
      /\ Cardinality(ActiveDirs) \in Nat /\ Cardinality(ActiveDirs') \in Nat
    <2>1. IsFiniteSet(ActiveDirs) /\ Cardinality(ActiveDirs) \in Nat
        BY <1>2, ActiveDirsFinite
    <2>2. /\ IsFiniteSet(ActiveDirs \cup {admJob[r]})
          /\ Cardinality(ActiveDirs \cup {admJob[r]})
                = IF admJob[r] \in ActiveDirs THEN Cardinality(ActiveDirs) ELSE Cardinality(ActiveDirs) + 1
        BY <2>1, FS_AddElement, Zenon
    <2>3. /\ Cardinality(ActiveDirs') <= Cardinality(ActiveDirs \cup {admJob[r]})
          /\ IsFiniteSet(ActiveDirs')
        BY <1>2, <2>2, FS_Subset
    <2>4. Cardinality(ActiveDirs') \in Nat /\ Cardinality(ActiveDirs \cup {admJob[r]}) \in Nat
        BY <2>2, <2>3, FS_CardinalityType
    <2> QED BY <2>1, <2>2, <2>3, <2>4
<1>4. ~admBroken => Cardinality(ActiveDirs) < JobQuota
    BY DEF QuotaInv, LockRule, WriteInitialStatus
<1>5. ~admBroken => \A s \in Requests : admAt'[s] \notin {"mkdir", "status"}
    BY OnlyHolder DEF QuotaInv, WriteInitialStatus, Go, AdmTypeOK, Holding
<1>6. ~admBroken' => \A s \in Requests : admAt'[s] \in Holding => admLock'.by = s
    BY DEF QuotaInv, LockRule, WriteInitialStatus, Go, AdmTypeOK, Holding
<1>7. admBroken' = admBroken
    BY DEF WriteInitialStatus
<1>8. WithinJobQuota'
    BY <1>3, <1>4, <1>7, JobAdmissionAssumption DEF WithinJobQuota
<1> QED BY <1>5, <1>6, <1>7, <1>8 DEF QuotaInv, LockRule

LEMMA MakeKeepsQuota ==
    ASSUME AdmTypeOK, KeyInv, QuotaInv, AdmTypeOK', NEW r \in Requests, MakeDir(r)
    PROVE  QuotaInv'
<1>1. CASE admDir[admJob[r]] # "none"
    BY <1>1, UnlockKeepsQuota DEF MakeDir, Holding
<1>2. CASE admDir[admJob[r]] = "none"
    <2>1. ActiveDirs' = ActiveDirs
        BY <1>2 DEF ActiveDirs, MakeDir, AdmTypeOK
    <2> QED BY <1>2, <2>1, OthersKeepQuota DEF MakeDir, Go, AdmTypeOK, Holding
<1> QED BY <1>1, <1>2

LEMMA StepKeepsQuota == ASSUME AdmTypeOK, KeyInv, QuotaInv, AdmNext PROVE QuotaInv'
<1>0. AdmTypeOK'
    BY StepTypes
<1>1. ASSUME NEW r \in Requests, Keyless(r) \/ ClaimKey(r) \/ WriteRecord(r)
             \/ SeeOldLock(r) \/ LockBusy(r)
      PROVE  QuotaInv'
    <2>1. ActiveDirs' = ActiveDirs
        BY <1>1 DEF ActiveDirs, Keyless, ClaimKey, WriteRecord, SeeOldLock, LockBusy
    <2> QED BY <1>0, <1>1, <2>1, OthersKeepQuota
            DEF Keyless, ClaimKey, WriteRecord, SeeOldLock, LockBusy, Go, AdmTypeOK, Holding
<1>2. ASSUME NEW r \in Requests, FindKey(r) PROVE QuotaInv'
    <2>1. ActiveDirs' = ActiveDirs /\ UNCHANGED <<admLock, admBroken>>
        BY <1>2 DEF ActiveDirs, FindKey
    <2>2. \E at \in {"error", "answered", "lock"} : admAt' = [admAt EXCEPT ![r] = at]
        BY <1>2 DEF FindKey, Go
    <2> QED BY <1>0, <2>1, <2>2, OthersKeepQuota DEF AdmTypeOK, Holding
<1>3. ASSUME NEW r \in Requests, ReleaseLock(r) PROVE QuotaInv'
    BY <1>0, <1>3, UnlockKeepsQuota DEF ReleaseLock, Holding
<1>4. ASSUME NEW r \in Requests, CountRows(r) \/ InsertRow(r) \/ SendRun(r) \/ CrashRequest(r)
      PROVE  QuotaInv'
    <2>1. ActiveDirs' = ActiveDirs /\ UNCHANGED <<admLock, admBroken>>
        BY <1>4 DEF ActiveDirs, CountRows, InsertRow, SendRun, CrashRequest
    <2>2. \E at \in {"error", "answered", "insert", "send", "crashed"} : admAt' = [admAt EXCEPT ![r] = at]
        BY <1>4 DEF CountRows, InsertRow, SendRun, CrashRequest, Go
    <2> QED BY <1>0, <2>1, <2>2, OthersKeepQuota DEF AdmTypeOK, Holding
<1>5. ASSUME NEW j \in Requests, EndRun(j) PROVE QuotaInv'
    <2>1. ActiveDirs' \subseteq ActiveDirs
        BY <1>5 DEF ActiveDirs, EndRun, AdmTypeOK
    <2> QED BY <1>0, <1>5, <2>1, OthersKeepQuota DEF EndRun
<1>6. ASSUME AgeLock PROVE QuotaInv'
    <2>1. ActiveDirs' = ActiveDirs /\ admLock'.by = admLock.by
        BY <1>6 DEF ActiveDirs, AgeLock, AdmTypeOK
    <2> QED BY <1>0, <1>6, <2>1, OthersKeepQuota DEF AgeLock
<1> QED BY <1>0, <1>1, <1>2, <1>3, <1>4, <1>5, <1>6, TakeKeepsQuota, RemoveKeepsQuota,
           CountKeepsQuota, MakeKeepsQuota, StatusKeepsQuota DEF AdmNext

-----------------------------------------------------------------------------
(* The slots. *)

LEMMA RecordedJob ==
    ASSUME AdmTypeOK, KeyInv, NEW r \in Requests, admJob[r] \in Requests
    PROVE  /\ admJob[r] \notin admReplay /\ admAt[admJob[r]] # "new"
           /\ r \in admReplay => admAt[admJob[r]] # "record"
BY KeyOfRequest, JobAdmissionAssumption DEF AdmTypeOK, KeyInv, KeysRule, RecordsAreClaims

(* No directory is made: nobody joins the makers, no slot gets lost.      *)
LEMMA MovingKeepsSlots ==
    ASSUME AdmTypeOK, AdmTypeOK', SlotRule, NEW r \in Requests, NEW at, Go(r, at),
           UNCHANGED <<admDir, admReplay, admJob>>, admQueue \subseteq admQueue',
           admFault => admFault',
           at = "crashed" => admFault', at \notin {"new", "record"},
           at \in Making \cup {"answered"} => admAt[r] \in Making \/ r \in admReplay,
           ~admFault' /\ admDir[r] \in {"bare", "active"} =>
              r \in admQueue' \/ at \in Making
              \/ (admAt[r] \in Waiting /\ at \in {"error"} \cup Waiting)
    PROVE  SlotRule'
<1> SUFFICES ASSUME NEW j \in Requests
    PROVE  /\ admAt'[j] = "crashed" => admFault'
           /\ admDir[j] # "none" => j \notin admReplay /\ admAt'[j] \notin {"new", "record"}
           /\ admDir[j] = "none" /\ j \notin admReplay =>
                 admAt'[j] \in {"new", "record", "error", "crashed"} \cup Waiting
           /\ ~admFault' /\ admDir[j] \in {"bare", "active"} =>
                 \/ j \in admQueue' \/ admAt'[j] \in Making
                 \/ /\ admAt'[j] \in {"error"} \cup Waiting
                    /\ \E x \in admReplay : admJob[x] = j
    BY DEF SlotRule
<1>1. CASE j # r
    BY <1>1 DEF SlotRule, AdmTypeOK, Go
<1>2. CASE j = r
    <2>1. admAt'[r] = at /\ at \in {"new", "record", "answered", "error", "crashed"} \cup Working
        BY DEF AdmTypeOK, Go
    <2>2. admDir[r] # "none" => r \notin admReplay
        BY DEF SlotRule
    <2>3. admDir[r] = "none" /\ r \notin admReplay =>
              admAt'[r] \in {"new", "record", "error", "crashed"} \cup Waiting
        BY <2>1 DEF SlotRule, Working, Making, Waiting
    <2>4. ASSUME ~admFault', admDir[r] \in {"bare", "active"}, admAt[r] \in Waiting,
                 at \in {"error"} \cup Waiting, r \notin admQueue'
          PROVE \E x \in admReplay : admJob[x] = r
        BY <2>4 DEF SlotRule, Making, Waiting
    <2> QED BY <1>2, <2>1, <2>2, <2>3, <2>4
<1> QED BY <1>1, <1>2

LEMMA ReplaysHaveNoDir ==
    ASSUME SlotRule, NEW r \in Requests, r \in admReplay PROVE admDir[r] = "none"
BY DEF SlotRule

LEMMA FindKeepsSlots ==
    ASSUME AdmTypeOK, AdmTypeOK', KeyInv, SlotRule, NEW r \in Requests, FindKey(r)
    PROVE  SlotRule'
<1>1. PICK at \in {"error", "answered", "lock"} : admAt' = [admAt EXCEPT ![r] = at]
    BY DEF FindKey, Go
<1>2. /\ UNCHANGED <<admDir, admQueue, admFault>> /\ admAt[r] = "new"
      /\ admReplay' \in {admReplay, admReplay \cup {r}}
    BY DEF FindKey
<1>3. admDir[r] = "none" /\ r \notin admReplay /\ admJob[r] = Nobody
    BY <1>2 DEF SlotRule, AdmTypeOK, KeyInv, KeysRule
<1>4. at \in {"answered", "lock"} => admReplay' = admReplay \cup {r}
    BY <1>1 DEF FindKey, Go, AdmTypeOK
<1>5. \A x \in Requests : x # r => admJob'[x] = admJob[x]
    BY DEF FindKey, AdmTypeOK
<1>6. ASSUME NEW j \in Requests, j # r
      PROVE  /\ admAt'[j] = admAt[j] /\ (j \in admReplay' <=> j \in admReplay)
             /\ (\E x \in admReplay : admJob[x] = j) => \E x \in admReplay' : admJob'[x] = j
    BY <1>1, <1>2, <1>3, <1>5, <1>6 DEF AdmTypeOK
<1>7. admAt'[r] = at
    BY <1>1 DEF AdmTypeOK
<1>8. ASSUME NEW j \in Requests
      PROVE  /\ admAt'[j] = "crashed" => admFault'
             /\ admDir'[j] # "none" => j \notin admReplay' /\ admAt'[j] \notin {"new", "record"}
             /\ admDir'[j] = "none" /\ j \notin admReplay' =>
                   admAt'[j] \in {"new", "record", "error", "crashed"} \cup Waiting
             /\ ~admFault' /\ admDir'[j] \in {"bare", "active"} =>
                   \/ j \in admQueue' \/ admAt'[j] \in Making
                   \/ /\ admAt'[j] \in {"error"} \cup Waiting
                      /\ \E x \in admReplay' : admJob'[x] = j
    <2>1. CASE j = r
        BY <1>2, <1>3, <1>4, <1>7, <2>1
    <2>2. CASE j # r
        BY <1>2, <1>6, <2>2 DEF SlotRule
    <2> QED BY <2>1, <2>2
<1> QED BY <1>8 DEF SlotRule

(* A new directory is that of the request, or of the replay that makes the *)
(* job of a request still waiting or refused.                              *)
LEMMA MakeKeepsSlots ==
    ASSUME AdmTypeOK, AdmTypeOK', KeyInv, SlotRule, NEW r \in Requests, MakeDir(r)
    PROVE  SlotRule'
<1> DEFINE job == admJob[r]
<1>0. admAt[r] = "mkdir" /\ job \in Requests /\ UNCHANGED <<admReplay, admJob, admQueue, admFault>>
    BY JobOfRequest DEF MakeDir, Working, Waiting
<1>1. CASE admDir[job] # "none"
    <2>1. Go(r, "error") /\ UNCHANGED admDir
        BY <1>1 DEF MakeDir, Unlock
    <2> QED BY <1>0, <2>1, MovingKeepsSlots DEF Waiting, Making
<1>2. CASE admDir[job] = "none"
    <2>1. admDir' = [admDir EXCEPT ![job] = "bare"] /\ admAt' = [admAt EXCEPT ![r] = "status"]
        BY <1>2 DEF MakeDir, Go
    <2>2. job \notin admReplay /\ admAt[job] # "new"
        BY <1>0, RecordedJob
    <2>3. r \notin admReplay => job = r
        BY <1>0, JobAdmissionAssumption DEF KeyInv, KeysRule
    <2>4. admAt[job] \in {"new", "record", "error", "crashed"} \cup Waiting
        BY <1>0, <1>2, <2>2 DEF SlotRule
    <2>5. r # job => r \in admReplay /\ admAt[job] # "record"
        BY <1>0, <2>3, RecordedJob
    <2>6. ASSUME NEW j \in Requests
          PROVE  /\ admAt'[j] = "crashed" => admFault'
                 /\ admDir'[j] # "none" => j \notin admReplay' /\ admAt'[j] \notin {"new", "record"}
                 /\ admDir'[j] = "none" /\ j \notin admReplay' =>
                       admAt'[j] \in {"new", "record", "error", "crashed"} \cup Waiting
                 /\ ~admFault' /\ admDir'[j] \in {"bare", "active"} =>
                       \/ j \in admQueue' \/ admAt'[j] \in Making
                       \/ /\ admAt'[j] \in {"error"} \cup Waiting
                          /\ \E x \in admReplay' : admJob'[x] = j
        <3>1. CASE j = r /\ r = job
            BY <1>0, <2>1, <2>2, <3>1 DEF AdmTypeOK, Making
        <3>2. CASE j = r /\ r # job
            BY <1>0, <2>1, <2>5, <3>2 DEF SlotRule, AdmTypeOK, Making
        <3>3. CASE j # r /\ j = job
            BY <1>0, <2>1, <2>2, <2>4, <2>5, <3>3 DEF SlotRule, AdmTypeOK
        <3>4. CASE j # r /\ j # job
            BY <1>0, <2>1, <3>4 DEF SlotRule, AdmTypeOK
        <3> QED BY <3>1, <3>2, <3>3, <3>4
    <2> QED BY <2>6 DEF SlotRule
<1> QED BY <1>1, <1>2

LEMMA StepKeepsSlots == ASSUME AdmTypeOK, KeyInv, SlotRule, BareRule, AdmNext PROVE SlotRule'
<1>0. AdmTypeOK'
    BY StepTypes
<1> USE <1>0
<1>1. ASSUME NEW r \in Requests, Keyless(r) \/ ClaimKey(r) PROVE SlotRule'
    <2>1. /\ admAt[r] = "new" /\ admJob' = [admJob EXCEPT ![r] = r] /\ admJob[r] = Nobody
          /\ UNCHANGED <<admDir, admQueue, admReplay, admFault>>
          /\ \E at \in {"record", "lock"} : admAt' = [admAt EXCEPT ![r] = at]
        BY <1>1 DEF Keyless, ClaimKey, Go, KeyInv, KeysRule
    <2>2. \A j \in Requests, x \in admReplay : admJob[x] = j => admJob'[x] = j
        BY <2>1, JobAdmissionAssumption DEF AdmTypeOK
    <2> QED BY <2>1, <2>2 DEF SlotRule, AdmTypeOK, Waiting
<1>2. ASSUME NEW r \in Requests, WriteRecord(r) \/ TakeLock(r) \/ SeeOldLock(r) \/ RemoveLock(r)
             \/ LockBusy(r)
      PROVE  SlotRule'
    <2>1. /\ UNCHANGED <<admDir, admReplay, admJob, admQueue, admFault>>
          /\ admAt[r] \in {"record"} \cup Waiting
          /\ \E at \in {"error"} \cup Waiting : Go(r, at) /\ (admAt[r] = "record" => at # "error")
        BY <1>2 DEF WriteRecord, TakeLock, SeeOldLock, RemoveLock, LockBusy, Waiting
    <2>2. admAt[r] = "record" => admDir[r] = "none"
        BY DEF SlotRule, AdmTypeOK
    <2> QED BY <2>1, <2>2, MovingKeepsSlots DEF Waiting, Making
<1>3. ASSUME NEW r \in Requests, CountDirs(r) PROVE SlotRule'
    <2>1. /\ UNCHANGED <<admDir, admReplay, admJob, admQueue, admFault>> /\ admAt[r] \in Waiting
          /\ \E at \in {"error", "mkdir"} : Go(r, at)
        BY <1>3 DEF CountDirs, Unlock, Waiting
    <2> QED BY <2>1, MovingKeepsSlots DEF Waiting, Making
<1>4. ASSUME NEW r \in Requests, WriteInitialStatus(r) PROVE SlotRule'
    <2>1. /\ UNCHANGED <<admReplay, admJob, admQueue, admFault>> /\ admAt[r] = "status"
          /\ admDir' = [admDir EXCEPT ![admJob[r]] = "active"]
          /\ admAt' = [admAt EXCEPT ![r] = "unlock"]
        BY <1>4 DEF WriteInitialStatus, Go
    <2>2. admJob[r] \in Requests /\ admDir[admJob[r]] = "bare"
        BY <2>1, JobOfRequest DEF BareRule, Working, Making
    <2>3. ASSUME NEW j \in Requests
          PROVE  /\ admAt'[j] = "crashed" => admFault'
                 /\ admDir'[j] # "none" => j \notin admReplay' /\ admAt'[j] \notin {"new", "record"}
                 /\ admDir'[j] = "none" /\ j \notin admReplay' =>
                       admAt'[j] \in {"new", "record", "error", "crashed"} \cup Waiting
                 /\ ~admFault' /\ admDir'[j] \in {"bare", "active"} =>
                       \/ j \in admQueue' \/ admAt'[j] \in Making
                       \/ /\ admAt'[j] \in {"error"} \cup Waiting
                          /\ \E x \in admReplay' : admJob'[x] = j
        <3>1. /\ admAt'[j] = IF j = r THEN "unlock" ELSE admAt[j]
              /\ admDir'[j] = IF j = admJob[r] THEN "active" ELSE admDir[j]
            BY <2>1, <2>2 DEF AdmTypeOK
        <3>2. j = r => admDir[j] # "none" \/ r \in admReplay
            BY <2>1 DEF SlotRule, Waiting
        <3> QED BY <2>1, <2>2, <3>1, <3>2 DEF SlotRule, Making, Waiting
    <2> QED BY <2>3 DEF SlotRule
<1>5. ASSUME NEW r \in Requests, ReleaseLock(r) \/ InsertRow(r) PROVE  SlotRule'
    <2>1. /\ UNCHANGED <<admDir, admReplay, admJob, admQueue, admFault>> /\ admAt[r] \in Making
          /\ \E at \in {"rows", "send", "answered"} : Go(r, at) /\ (at = "answered" => r \in admReplay)
        BY <1>5 DEF ReleaseLock, Unlock, InsertRow, Making
    <2> QED BY <2>1, ReplaysHaveNoDir, MovingKeepsSlots DEF Making
<1>9. ASSUME NEW r \in Requests, CountRows(r) PROVE SlotRule'
    <2>1. UNCHANGED <<admDir, admReplay, admJob, admQueue>> /\ admAt[r] \in Making
        BY <1>9 DEF CountRows, Making
    <2>2. CASE Cardinality(ActiveRows) >= WorkspaceQuota
        <3>1. Go(r, "error") /\ admFault'
            BY <1>9, <2>2 DEF CountRows
        <3> QED BY <2>1, <3>1, MovingKeepsSlots DEF Making
    <2>3. CASE ~(Cardinality(ActiveRows) >= WorkspaceQuota)
        <3>1. Go(r, "insert") /\ (admFault => admFault')
            BY <1>9, <2>3 DEF CountRows
        <3> QED BY <2>1, <3>1, MovingKeepsSlots DEF Making
    <2> QED BY <2>2, <2>3
<1>10. ASSUME NEW r \in Requests, SendRun(r) PROVE SlotRule'
    <2>1. UNCHANGED <<admDir, admReplay, admJob>> /\ admAt[r] = "send"
        BY <1>10 DEF SendRun
    <2>2. r \notin admReplay /\ admJob[r] = r
        BY <2>1 DEF KeyInv, KeysRule, Working, Making
    <2>3. \/ admQueue' = admQueue \cup {r} /\ Go(r, "answered") /\ (admFault => admFault')
          \/ admQueue' = admQueue /\ Go(r, "error") /\ admFault'
        BY <1>10, <2>2 DEF SendRun
    <2> QED BY <2>1, <2>3, MovingKeepsSlots DEF Making
<1>6. ASSUME NEW r \in Requests, CrashRequest(r) PROVE SlotRule'
    BY <1>6, MovingKeepsSlots DEF CrashRequest, Making
<1>7. ASSUME NEW j \in Requests, EndRun(j) PROVE SlotRule'
    BY <1>7 DEF EndRun, SlotRule, AdmTypeOK
<1>8. CASE AgeLock
    BY <1>8 DEF AgeLock, SlotRule
<1> QED BY <1>1, <1>2, <1>3, <1>4, <1>5, <1>6, <1>7, <1>8, <1>9, <1>10, FindKeepsSlots, MakeKeepsSlots
        DEF AdmNext

LEMMA StepKeepsBare == ASSUME AdmTypeOK, KeyInv, BareRule, AdmNext PROVE BareRule'
<1>1. ASSUME NEW r \in Requests, MakeDir(r) PROVE BareRule'
    <2>0. admAt[r] = "mkdir" /\ admJob[r] \in Requests /\ admJob' = admJob
        BY <1>1, JobOfRequest DEF MakeDir, Working, Waiting
    <2>1. CASE admDir[admJob[r]] # "none"
        <3>1. admDir' = admDir /\ admAt' = [admAt EXCEPT ![r] = "error"]
            BY <1>1, <2>1 DEF MakeDir, Unlock, Go
        <3> QED BY <2>0, <3>1 DEF BareRule, AdmTypeOK
    <2>2. CASE admDir[admJob[r]] = "none"
        <3>1. /\ admDir' = [admDir EXCEPT ![admJob[r]] = "bare"]
              /\ admAt' = [admAt EXCEPT ![r] = "status"]
            BY <1>1, <2>2 DEF MakeDir, Go
        <3>2. \A s \in Requests : s # r /\ admAt'[s] = "status" =>
                 admAt[s] = "status" /\ admDir[admJob[s]] = "bare" /\ admJob[s] # admJob[r]
            BY <2>2, <3>1 DEF BareRule, AdmTypeOK
        <3>3. \A s \in Requests : s # r /\ admAt'[s] = "status" => admDir'[admJob[s]] = "bare"
            BY <2>0, <3>1, <3>2 DEF AdmTypeOK
        <3>4. admDir'[admJob[r]] = "bare"
            BY <2>0, <3>1 DEF AdmTypeOK
        <3> QED BY <2>0, <3>2, <3>3, <3>4 DEF BareRule
    <2> QED BY <2>1, <2>2
<1>2. ASSUME NEW r \in Requests, WriteInitialStatus(r) PROVE BareRule'
    <2>1. admJob[r] \in Requests
        BY <1>2, JobOfRequest DEF WriteInitialStatus, Working, Making
    <2> QED BY <1>2, <2>1 DEF WriteInitialStatus, Go, BareRule, AdmTypeOK
<1>3. ASSUME NEW r \in Requests, Keyless(r) \/ ClaimKey(r) \/ FindKey(r) PROVE BareRule'
    <2>1. /\ admDir' = admDir /\ admAt[r] = "new"
          /\ \E at \in {"lock", "record", "error", "answered"} : admAt' = [admAt EXCEPT ![r] = at]
          /\ \A s \in Requests : s # r => admJob'[s] = admJob[s]
        BY <1>3 DEF Keyless, ClaimKey, FindKey, Go, AdmTypeOK
    <2> QED BY <2>1 DEF BareRule, AdmTypeOK
<1>4. ASSUME NEW r \in Requests,
             WriteRecord(r) \/ TakeLock(r) \/ SeeOldLock(r) \/ RemoveLock(r) \/ LockBusy(r)
             \/ CountDirs(r) \/ ReleaseLock(r) \/ CountRows(r) \/ InsertRow(r) \/ SendRun(r)
             \/ CrashRequest(r)
      PROVE  BareRule'
    <2>1. /\ UNCHANGED <<admDir, admJob>>
          /\ \E at : at # "status" /\ admAt' = [admAt EXCEPT ![r] = at]
        BY <1>4 DEF WriteRecord, TakeLock, SeeOldLock, RemoveLock, LockBusy, CountDirs, ReleaseLock,
                    CountRows, InsertRow, SendRun, CrashRequest, Unlock, Go
    <2> QED BY <2>1 DEF BareRule, AdmTypeOK
<1>5. ASSUME NEW j \in Requests, EndRun(j) PROVE BareRule'
    BY <1>5 DEF EndRun, BareRule, AdmTypeOK, KeyInv, KeysRule, Working, Making
<1>6. CASE AgeLock
    BY <1>6 DEF AgeLock, BareRule
<1> QED BY <1>1, <1>2, <1>3, <1>4, <1>5, <1>6 DEF AdmNext

LEMMA AdmStep == AdmIInv /\ [AdmNext]_admVars => AdmIInv'
<1> SUFFICES ASSUME AdmIInv, [AdmNext]_admVars PROVE AdmIInv'
    OBVIOUS
<1>1. CASE AdmNext
    BY <1>1, StepTypes, StepKeepsKeys, StepKeepsQuota, StepKeepsSlots, StepKeepsBare
       DEF AdmIInv, KeyInv, QuotaInv
<1>2. CASE UNCHANGED admVars
    <2>1. ActiveDirs' = ActiveDirs
        BY <1>2 DEF admVars, ActiveDirs
    <2> QED BY <1>2, <2>1 DEF admVars, AdmIInv, AdmTypeOK, KeysRule, OneRecorder, RecordsAreClaims,
                              WithinJobQuota, LockRule, SlotRule, BareRule
<1> QED BY <1>1, <1>2

LEMMA AdmInvariant == AdmSpec => []AdmIInv
BY AdmInitially, AdmStep, PTL DEF AdmSpec

(* Submissions with one idempotency key are answered with one job, and one *)
(* of them at most is queued.                                              *)
THEOREM OneJobIsRunPerKey == AdmSpec => []OneJobPerKey
<1>1. AdmIInv => OneJobPerKey
    BY DEF AdmIInv, KeysRule, OneJobPerKey
<1> QED BY <1>1, AdmInvariant, PTL

(* The active jobs of a workspace keep to its quota, unless its lock was   *)
(* stolen.                                                                 *)
THEOREM JobQuotaHolds == AdmSpec => []WithinJobQuota
<1>1. AdmIInv => WithinJobQuota
    BY DEF AdmIInv
<1> QED BY <1>1, AdmInvariant, PTL

(* Without a fault and with no request at work, each active job is queued, *)
(* but for the one a replay made after its first request was refused.      *)
THEOREM ActiveJobsAreRun == AdmSpec => []SlotsAreRun
<1>1. AdmIInv => SlotsAreRun
    BY DEF AdmIInv, AdmTypeOK, SlotRule, SlotsAreRun, ActiveDirs, Making, Waiting
<1> QED BY <1>1, AdmInvariant, PTL

(* One job per key, within the quota, and every slot of it is given back:  *)
(* for any submissions, crashes, refusals and stale locks.                 *)
THEOREM KeysAndQuota == AdmSpec => []KeysAndQuotaHold
<1>1. OneJobPerKey /\ WithinJobQuota /\ SlotsAreRun => KeysAndQuotaHold
    BY DEF KeysAndQuotaHold
<1> QED BY <1>1, OneJobIsRunPerKey, JobQuotaHolds, ActiveJobsAreRun, PTL

-----------------------------------------------------------------------------
(* MappingCache: the futures of the batches and the locks of the keys.     *)

CallPlaces == {"none", "waiting", "look", "lock"} \cup HoldingMap \cup EndedCall

(* The entries of the caches are left out: the invariant needs none.       *)
MapTypeOK ==
    /\ mapCall \in [MapCalls -> CallPlaces]
    /\ mapState \in [MapCalls -> {"waiting", "running", "completed", "failed"}]
    /\ mapFuture = [b \in MapCalls |-> mapFuture[b]]
    /\ mapHolder \in [MapKeys -> SUBSET MapCalls]
    /\ mapLapsed \in SUBSET MapKeys

(* A batch that was not submitted has no request of its own.               *)
UnsubmittedRule == \A b \in MapCalls : mapState[b] = "waiting" => mapCall[b] = "none"

(* Between lock and release a thread alone holds the lock of its key,      *)
(* until the lock lapses.                                                  *)
HolderRule ==
    \A c \in MapCalls : mapCall[c] \in HoldingMap =>
        KeyOfCall(c) \in mapLapsed \/ mapHolder[KeyOfCall(c)] = {c}

MapIInv == MapTypeOK /\ UnsubmittedRule /\ HolderRule

LEMMA KeysOfCalls == \A c \in MapCalls : KeyOfCall(c) \in MapKeys
BY DEF MapKeys

LEMMA MapInitially == MapInit => MapIInv
BY DEF MapInit, MapIInv, MapTypeOK, UnsubmittedRule, HolderRule, CallPlaces, HoldingMap, Asking

(* A step of a thread that takes no lock and lets none lapse, or that lets *)
(* the lock of its key lapse.                                              *)
LEMMA MovingOnKeeps ==
    ASSUME MapIInv, NEW c \in MapCalls, NEW from \in CallPlaces \ {"none"}, NEW to \in CallPlaces,
           Step(c, from, to), UNCHANGED <<mapState, mapFuture, mapHolder>>,
           mapLapsed' = mapLapsed \/ mapLapsed' = mapLapsed \cup {KeyOfCall(c)},
           to \in HoldingMap => from \in HoldingMap \/ KeyOfCall(c) \in mapLapsed'
    PROVE  MapIInv'
<1>1. MapTypeOK'
    BY KeysOfCalls DEF MapIInv, MapTypeOK, Step
<1>2. UnsubmittedRule'
    BY DEF MapIInv, MapTypeOK, UnsubmittedRule, Step
<1>3. HolderRule'
    BY DEF MapIInv, MapTypeOK, HolderRule, Step
<1> QED BY <1>1, <1>2, <1>3 DEF MapIInv

LEMMA LockKeeps == ASSUME MapIInv, NEW c \in MapCalls, Lock(c) PROVE MapIInv'
<1> USE DEF MapIInv, MapTypeOK, Lock, Step, ComputeVars, CallPlaces, HoldingMap
<1>1. MapTypeOK'
    BY KeysOfCalls
<1>2. UnsubmittedRule'
    BY DEF UnsubmittedRule
<1>3. HolderRule'
    <2> SUFFICES ASSUME NEW d \in MapCalls, mapCall'[d] \in HoldingMap
                 PROVE  KeyOfCall(d) \in mapLapsed \/ mapHolder'[KeyOfCall(d)] = {d}
        BY DEF HolderRule
    <2>1. CASE d = c
        BY <2>1, KeysOfCalls
    <2>2. CASE d # c
        <3>1. mapCall[d] \in HoldingMap
            BY <2>2
        <3>2. KeyOfCall(d) \in mapLapsed \/ mapHolder[KeyOfCall(d)] = {d}
            BY <3>1 DEF HolderRule
        <3>3. mapHolder[KeyOfCall(c)] = {}
            OBVIOUS
        <3> QED BY <3>2, <3>3, KeysOfCalls
    <2> QED BY <2>1, <2>2
<1> QED BY <1>1, <1>2, <1>3

LEMMA ReleaseKeeps == ASSUME MapIInv, NEW c \in MapCalls, Release(c) PROVE MapIInv'
<1> USE DEF MapIInv, MapTypeOK, Release, Step, ComputeVars, CallPlaces, HoldingMap, Asking, EndedCall
<1>1. MapTypeOK'
    BY KeysOfCalls
<1>2. UnsubmittedRule'
    BY DEF UnsubmittedRule
<1>3. HolderRule'
    <2> SUFFICES ASSUME NEW d \in MapCalls, mapCall'[d] \in HoldingMap
                 PROVE  KeyOfCall(d) \in mapLapsed \/ mapHolder'[KeyOfCall(d)] = {d}
        BY DEF HolderRule
    <2>1. d # c /\ mapCall[d] \in HoldingMap /\ mapCall[c] \in HoldingMap
        OBVIOUS
    <2>2. /\ KeyOfCall(d) \in mapLapsed \/ mapHolder[KeyOfCall(d)] = {d}
          /\ KeyOfCall(c) \in mapLapsed \/ mapHolder[KeyOfCall(c)] = {c}
        BY <2>1 DEF HolderRule
    <2> QED BY <2>1, <2>2, KeysOfCalls
<1> QED BY <1>1, <1>2, <1>3

LEMMA ExpiryKeeps == ASSUME MapIInv, NEW k \in MapKeys, LockExpires(k) PROVE MapIInv'
BY DEF MapIInv, MapTypeOK, UnsubmittedRule, HolderRule, LockExpires, ComputeVars

LEMMA ThreadStepKeeps ==
    ASSUME MapIInv, NEW c \in MapCalls,
           \/ TakeThread(c) \/ Look(c) \/ LookAgain(c) \/ GoOnUnlocked(c)
           \/ AskModel(c) \/ StoreResult(c)
    PROVE  MapIInv'
<1> USE DEF CallPlaces, HoldingMap, Asking, EndedCall, ComputeVars
<1>1. CASE TakeThread(c)
    BY <1>1, MovingOnKeeps DEF TakeThread
<1>2. CASE Look(c)
    BY <1>2, MovingOnKeeps DEF Look
<1>3. CASE LookAgain(c)
    BY <1>3, MovingOnKeeps DEF LookAgain
<1>4. CASE GoOnUnlocked(c)
    <2>1. CASE Step(c, "lock", "ask")
        BY <1>4, <2>1, MovingOnKeeps DEF GoOnUnlocked
    <2>2. CASE \E at \in {"look", "lock", "look again"} : Step(c, at, "ask only")
        BY <1>4, <2>2, MovingOnKeeps DEF GoOnUnlocked
    <2> QED BY <1>4, <2>1, <2>2 DEF GoOnUnlocked
<1>5. CASE AskModel(c)
    BY <1>5, MovingOnKeeps DEF AskModel
<1>6. CASE StoreResult(c)
    BY <1>6, MovingOnKeeps DEF StoreResult
<1> QED BY <1>1, <1>2, <1>3, <1>4, <1>5, <1>6

LEMMA ShareChanges ==
    ASSUME MapIInv, NEW t \in MapTasks, Share(t)
    PROVE  \E b \in MapCalls : \E c :
              /\ mapState[b] = "waiting" /\ mapCall[c] # "failed" /\ KeyOfCall(c) = KeyOfCall(b)
              /\ mapState' = [mapState EXCEPT ![b] = "running"]
              /\ mapFuture' = [mapFuture EXCEPT ![b] = c]
BY DEF Share, NextBatch, Entry

LEMMA SubmitChanges ==
    ASSUME MapIInv, NEW t \in MapTasks, Submit(t)
    PROVE  \E b \in MapCalls :
              /\ mapState[b] = "waiting"
              /\ mapState' = [mapState EXCEPT ![b] = "running"]
              /\ mapFuture' = [mapFuture EXCEPT ![b] = b]
              /\ mapCall' = [mapCall EXCEPT ![b] = "waiting"]
BY DEF Submit, NextBatch

LEMMA TaskStepKeeps ==
    ASSUME MapIInv, NEW t \in MapTasks, Share(t) \/ Submit(t) \/ Collect(t) PROVE MapIInv'
<1>1. CASE Share(t)
    <2>1. UNCHANGED <<mapCall, mapHolder, mapLapsed>>
        BY <1>1 DEF Share
    <2> QED BY <1>1, <2>1, ShareChanges DEF MapIInv, MapTypeOK, UnsubmittedRule, HolderRule
<1>2. CASE Submit(t)
    <2>1. UNCHANGED <<mapHolder, mapLapsed>>
        BY <1>2 DEF Submit
    <2> QED BY <1>2, <2>1, SubmitChanges
            DEF MapIInv, MapTypeOK, UnsubmittedRule, HolderRule, CallPlaces, HoldingMap, Asking
<1>3. CASE Collect(t)
    BY <1>3 DEF Collect, MapIInv, MapTypeOK, UnsubmittedRule, HolderRule
<1> QED BY <1>1, <1>2, <1>3

LEMMA MapStep == MapIInv /\ [MapNext]_mapVars => MapIInv'
<1> SUFFICES ASSUME MapIInv, [MapNext]_mapVars PROVE MapIInv'
    OBVIOUS
<1>1. ASSUME NEW t \in MapTasks, Share(t) \/ Submit(t) \/ Collect(t) PROVE MapIInv'
    BY <1>1, TaskStepKeeps
<1>2. ASSUME NEW c \in MapCalls,
             \/ TakeThread(c) \/ Look(c) \/ LookAgain(c) \/ GoOnUnlocked(c)
             \/ AskModel(c) \/ StoreResult(c)
      PROVE  MapIInv'
    BY <1>2, ThreadStepKeeps
<1>3. ASSUME NEW c \in MapCalls, Lock(c) PROVE MapIInv'
    BY <1>3, LockKeeps
<1>4. ASSUME NEW c \in MapCalls, Release(c) PROVE MapIInv'
    BY <1>4, ReleaseKeeps
<1>5. ASSUME NEW c \in MapCalls, Completed(c) PROVE MapIInv'
    BY <1>5 DEF Completed, MapIInv, MapTypeOK, UnsubmittedRule, HolderRule
<1>6. ASSUME NEW p \in Processes, DeadlinePasses(p) PROVE MapIInv'
    BY <1>6 DEF DeadlinePasses, MapIInv, MapTypeOK, UnsubmittedRule, HolderRule
<1>7. ASSUME NEW k \in MapKeys, LockExpires(k) PROVE MapIInv'
    BY <1>7, ExpiryKeeps
<1>8. ASSUME NEW k \in MapKeys, ResultExpires(k) PROVE MapIInv'
    BY <1>8 DEF ResultExpires, ComputeVars, MapIInv, MapTypeOK, UnsubmittedRule, HolderRule
<1>9. CASE UNCHANGED mapVars
    BY <1>9 DEF mapVars, MapIInv, MapTypeOK, UnsubmittedRule, HolderRule
<1> QED BY <1>1, <1>2, <1>3, <1>4, <1>5, <1>6, <1>7, <1>8, <1>9 DEF MapNext

LEMMA MapInvariant == MapSpec => []MapIInv
BY MapInitially, MapStep, PTL DEF MapSpec

(* The Redis lock lets one thread of all processes ask for a key, as long  *)
(* as it does not lapse.                                                   *)
THEOREM OneThreadAsks == MapSpec => []OneAskPerKey
<1>1. MapIInv => OneAskPerKey
    BY DEF MapIInv, MapTypeOK, HolderRule, OneAskPerKey, HoldingMap
<1> QED BY <1>1, MapInvariant, PTL

LEMMA BatchesFit ==
    ASSUME MapIInv, [MapNext]_mapVars, NEW b \in MapCalls
    PROVE  /\ mapState[b] = "waiting" /\ mapState'[b] = "running"
                => mapCall[mapFuture'[b]] # "failed" /\ KeyOfCall(mapFuture'[b]) = KeyOfCall(b)
           /\ mapState[b] = "running" => mapFuture'[b] = mapFuture[b]
<1> USE DEF MapIInv, MapTypeOK
<1>1. ASSUME NEW t \in MapTasks, Share(t)
      PROVE  /\ mapState[b] = "waiting" /\ mapState'[b] = "running"
                => mapCall[mapFuture'[b]] # "failed" /\ KeyOfCall(mapFuture'[b]) = KeyOfCall(b)
             /\ mapState[b] = "running" => mapFuture'[b] = mapFuture[b]
    <2>1. PICK d \in MapCalls : \E c :
              /\ mapState[d] = "waiting" /\ mapCall[c] # "failed" /\ KeyOfCall(c) = KeyOfCall(d)
              /\ mapState' = [mapState EXCEPT ![d] = "running"]
              /\ mapFuture' = [mapFuture EXCEPT ![d] = c]
        BY <1>1, ShareChanges
    <2>2. CASE b = d
        BY <2>1, <2>2
    <2>3. CASE b # d
        BY <2>1, <2>3
    <2> QED BY <2>2, <2>3
<1>2. ASSUME NEW t \in MapTasks, Submit(t)
      PROVE  /\ mapState[b] = "waiting" /\ mapState'[b] = "running"
                => mapCall[mapFuture'[b]] # "failed" /\ KeyOfCall(mapFuture'[b]) = KeyOfCall(b)
             /\ mapState[b] = "running" => mapFuture'[b] = mapFuture[b]
    <2>1. PICK d \in MapCalls :
              /\ mapState[d] = "waiting"
              /\ mapState' = [mapState EXCEPT ![d] = "running"]
              /\ mapFuture' = [mapFuture EXCEPT ![d] = d]
        BY <1>2, SubmitChanges
    <2>2. CASE b = d
        <3>1. mapFuture'[b] = b /\ mapCall[b] = "none"
            BY <2>1, <2>2 DEF UnsubmittedRule
        <3> QED BY <2>1, <2>2, <3>1
    <2>3. CASE b # d
        BY <2>1, <2>3
    <2> QED BY <2>2, <2>3
<1>3. CASE /\ mapFuture' = mapFuture
           /\ mapState[b] = "waiting" => mapState'[b] # "running"
    BY <1>3
<1>4. CASE mapFuture' = mapFuture /\ mapState' = mapState
    BY <1>4
<1>5. ASSUME NEW t \in MapTasks, Collect(t)
      PROVE  mapFuture' = mapFuture /\ (mapState[b] = "waiting" => mapState'[b] # "running")
    BY <1>5 DEF Collect
<1>6. \/ \E t \in MapTasks : Share(t) \/ Submit(t) \/ Collect(t)
      \/ mapFuture' = mapFuture /\ mapState' = mapState
    BY DEF MapNext, mapVars, ComputeVars, TakeThread, Look, Lock, LookAgain, GoOnUnlocked, AskModel,
           StoreResult, Release, Completed, DeadlinePasses, LockExpires, ResultExpires
<1> QED BY <1>1, <1>2, <1>3, <1>4, <1>5, <1>6

(* A batch starts to wait only for a request of its own fields and columns *)
(* that has not failed, and waits for that one to its end.                 *)
THEOREM AnswersFit == MapSpec => AnswersFitTheBatch
<1>1. MapIInv /\ [MapNext]_mapVars
        => [\A b \in MapCalls :
              /\ mapState[b] = "waiting" /\ mapState'[b] = "running"
                    => mapCall[mapFuture'[b]] # "failed" /\ KeyOfCall(mapFuture'[b]) = KeyOfCall(b)
              /\ mapState[b] = "running" => mapFuture'[b] = mapFuture[b]]_mapVars
    BY BatchesFit
<1> QED BY <1>1, MapInvariant, PTL DEF MapSpec, AnswersFitTheBatch

(* Some places of a sequence are numbered in their order.                  *)
LEMMA PlacesNumbered ==
    ASSUME NEW n \in Nat, NEW K \in SUBSET (1 .. n)
    PROVE  /\ IsFiniteSet(K) /\ Cardinality(K) \in Nat /\ Cardinality(K) <= n
           /\ K # 1 .. n => Cardinality(K) < n
           /\ \A i \in K : Cardinality({j \in K : j <= i}) \in 1 .. Cardinality(K)
           /\ \A i \in K : \A j \in K : Cardinality({l \in K : l <= i}) = Cardinality({l \in K : l <= j}) => i = j
           /\ \A m \in 1 .. Cardinality(K) : \E i \in K : Cardinality({j \in K : j <= i}) = m
<1> DEFINE N     == Cardinality(K)
           To(i) == {j \in K : j <= i}
<1>1. IsFiniteSet(1 .. n) /\ Cardinality(1 .. n) = n
    BY FS_Interval
<1>2. /\ IsFiniteSet(K) /\ N \in Nat /\ N <= n
      /\ K # 1 .. n => N # n
    BY <1>1, FS_Subset, FS_CardinalityType
<1>3. ASSUME NEW i \in K
      PROVE  /\ To(i) \in SUBSET K /\ i \in To(i) /\ IsFiniteSet(To(i))
             /\ Cardinality(To(i)) \in 1 .. N
    <2>1. To(i) \in SUBSET K /\ i \in To(i)
        OBVIOUS
    <2>2. IsFiniteSet(To(i)) /\ Cardinality(To(i)) <= N
        BY <1>2, <2>1, FS_Subset
    <2>3. Cardinality(To(i)) \in Nat /\ Cardinality(To(i)) # 0
        BY <2>1, <2>2, FS_CardinalityType, FS_EmptySet
    <2> HIDE DEF To, N
    <2>4. Cardinality(To(i)) \in 1 .. N
        BY <1>2, <2>2, <2>3
    <2> QED BY <2>1, <2>2, <2>4
<1>4. ASSUME NEW i \in K, NEW j \in K, i < j PROVE Cardinality(To(i)) # Cardinality(To(j))
    <2>0. /\ i \in Int /\ j \in Int /\ i < j
          /\ \A l \in K : l \in Int
        BY <1>4
    <2>1. To(i) \in SUBSET To(j) /\ j \in To(j) /\ j \notin To(i)
        <3>1. j <= j /\ ~(j <= i)
            BY <2>0
        <3>2. \A l \in K : l <= i => l <= j
            BY <2>0
        <3> QED BY <3>1, <3>2
    <2>2. Cardinality(To(i)) = Cardinality(To(j)) => To(i) = To(j)
        BY <1>3, <2>1, FS_Subset
    <2> QED BY <2>1, <2>2
<1>5. ASSUME NEW i \in K, NEW j \in K, Cardinality(To(i)) = Cardinality(To(j)) PROVE i = j
    <2>1. ~(i < j) /\ ~(j < i)
        BY <1>4, <1>5
    <2> QED BY <2>1
<1> DEFINE f == [i \in K |-> Cardinality(To(i))]
<1>6. f \in Injection(K, 1 .. N)
    <2>1. f \in [K -> 1 .. N]
        BY <1>3
    <2>2. \A i \in K : \A j \in K : f[i] = f[j] => i = j
        BY <1>5
    <2> HIDE DEF f
    <2> QED BY <2>1, <2>2 DEF Injection, IsInjective
<1>7. IsFiniteSet(1 .. N) /\ Cardinality(1 .. N) = N
    <2> HIDE DEF N
    <2> QED BY <1>2, FS_Interval
<1>8. f \in Surjection(K, 1 .. N)
    <2> HIDE DEF f
    <2> QED BY <1>6, <1>7, <1>2, FS_Injection
<1>9. ASSUME NEW m \in 1 .. N PROVE \E i \in K : Cardinality(To(i)) = m
    <2>1. PICK i \in K : f[i] = m
        BY <1>8 DEF Surjection
    <2> QED BY <2>1
<1>10. K # 1 .. n => N < n
    <2> HIDE DEF N
    <2> QED BY <1>2
<1> QED BY <1>2, <1>3, <1>5, <1>9, <1>10

(* The futures of a cache.                                                 *)
CacheEntries == [call : MapCalls, ends : {"never", "later", "past"}]

(* One entry for each key.                                                 *)
Separate(cache) ==
    \A i \in DOMAIN cache : \A j \in DOMAIN cache :
        KeyOfCall(cache[i].call) = KeyOfCall(cache[j].call) => i = j

(* The entries of a cache at some of its places are a cache of them.       *)
LEMMA EntriesKept ==
    ASSUME NEW cache \in Seq(CacheEntries), NEW K \in SUBSET DOMAIN cache,
           NEW new, new = EntriesAt(cache, K)
    PROVE  /\ new \in Seq(CacheEntries) /\ Len(new) <= Len(cache)
           /\ K # DOMAIN cache => Len(new) < Len(cache)
           /\ \A n \in DOMAIN new : \E i \in K : new[n] = cache[i]
           /\ \A i \in K : \E n \in DOMAIN new : new[n] = cache[i]
           /\ Separate(cache) => Separate(new)
<1> DEFINE To(i) == Cardinality({j \in K : j <= i})
           At(n) == CHOOSE i \in K : To(i) = n
           N     == Cardinality(K)
<1>1. Len(cache) \in Nat /\ DOMAIN cache = 1 .. Len(cache) /\ \A i \in DOMAIN cache : cache[i] \in CacheEntries
    OBVIOUS
<1>2. /\ N \in Nat /\ N <= Len(cache)
      /\ K # DOMAIN cache => N < Len(cache)
      /\ \A i \in K : To(i) \in 1 .. N
      /\ \A i \in K : \A j \in K : To(i) = To(j) => i = j
      /\ \A m \in 1 .. N : \E i \in K : To(i) = m
    BY <1>1, PlacesNumbered
<1>3. \A n \in 1 .. N : At(n) \in K /\ To(At(n)) = n
    <2> HIDE DEF To, N
    <2> QED BY <1>2
<1>4. \A i \in K : At(To(i)) = i
    <2> HIDE DEF To, N
    <2> QED BY <1>2
<1>5. new = [n \in 1 .. N |-> cache[At(n)]]
    BY DEF EntriesAt
<1> HIDE DEF At, To, N
<1>6. new \in [1 .. N -> CacheEntries]
    BY <1>1, <1>3, <1>5
<1>7. new \in Seq(CacheEntries) /\ Len(new) = N /\ DOMAIN new = 1 .. N
    BY <1>2, <1>6
<1>8. \A n \in DOMAIN new : \E i \in K : new[n] = cache[i]
    BY <1>3, <1>5, <1>7
<1>9. ASSUME NEW i \in K PROVE \E n \in DOMAIN new : new[n] = cache[i]
    <2>1. To(i) \in 1 .. N /\ new[To(i)] = cache[At(To(i))]
        BY <1>2, <1>5
    <2> QED BY <2>1, <1>4, <1>7
<1>10. ASSUME Separate(cache), NEW n \in DOMAIN new, NEW m \in DOMAIN new,
              KeyOfCall(new[n].call) = KeyOfCall(new[m].call)
       PROVE  n = m
    <2>1. new[n] = cache[At(n)] /\ new[m] = cache[At(m)] /\ At(n) \in K /\ At(m) \in K
        BY <1>3, <1>5, <1>7
    <2>2. At(n) = At(m)
        BY <1>10, <2>1 DEF Separate
    <2>3. To(At(n)) = n /\ To(At(m)) = m
        BY <1>3, <1>7
    <2> QED BY <2>2, <2>3
<1>11. Separate(cache) => Separate(new)
    BY <1>10 DEF Separate
<1> QED BY <1>2, <1>7, <1>8, <1>9, <1>11

(* A request somebody works on or will work on.                            *)
Unended(c) == mapCall[c] \notin EndedCall \cup {"none"}

(* The caches keep to their size, hold one entry for each key and, unless  *)
(* a request was made past a full cache, every request that has not ended. *)
CacheRule ==
    /\ mapEntries \in [Processes -> Seq(CacheEntries)]
    /\ mapFull \in BOOLEAN
    /\ \A p \in Processes : Len(mapEntries[p]) <= CacheSize /\ Separate(mapEntries[p])
    /\ ~mapFull => \A c \in MapCalls : Unended(c) =>
          \E i \in DOMAIN mapEntries[HostOf(c)] : mapEntries[HostOf(c)][i].call = c

LEMMA HostsOfCalls == \A c \in MapCalls : HostOf(c) \in Processes /\ HostOf(c) = ProcessOf[c[1]]
BY DEF MapCalls, HostOf, Processes

LEMMA WithoutKept ==
    ASSUME NEW cache \in Seq(CacheEntries), NEW S, NEW new, new = Without(cache, S)
    PROVE  /\ new \in Seq(CacheEntries) /\ Len(new) <= Len(cache)
           /\ (\E i \in DOMAIN cache : cache[i].call \in S) => Len(new) < Len(cache)
           /\ \A n \in DOMAIN new : new[n].call \notin S /\ \E i \in DOMAIN cache : new[n] = cache[i]
           /\ \A i \in DOMAIN cache : cache[i].call \notin S => \E n \in DOMAIN new : new[n] = cache[i]
           /\ Separate(cache) => Separate(new)
<1> DEFINE K == {i \in DOMAIN cache : cache[i].call \notin S}
<1>1. new = EntriesAt(cache, K) /\ K \in SUBSET DOMAIN cache
    BY DEF Without
<1>2. /\ \A i \in K : i \in DOMAIN cache /\ cache[i].call \notin S
      /\ \A i \in DOMAIN cache : cache[i].call \notin S => i \in K
      /\ (\E i \in DOMAIN cache : cache[i].call \in S) => K # DOMAIN cache
    OBVIOUS
<1> HIDE DEF K
<1>3. /\ new \in Seq(CacheEntries) /\ Len(new) <= Len(cache)
      /\ K # DOMAIN cache => Len(new) < Len(cache)
      /\ \A n \in DOMAIN new : \E i \in K : new[n] = cache[i]
      /\ \A i \in K : \E n \in DOMAIN new : new[n] = cache[i]
      /\ Separate(cache) => Separate(new)
    BY <1>1, EntriesKept
<1> QED BY <1>2, <1>3

LEMMA LiveKept ==
    ASSUME CacheRule, NEW p \in Processes, NEW new, new = Live(p)
    PROVE  /\ new \in Seq(CacheEntries) /\ Len(new) <= Len(mapEntries[p]) /\ Separate(new)
           /\ \A i \in DOMAIN mapEntries[p] :
                 mapCall[mapEntries[p][i].call] \notin EndedCall
                    => \E n \in DOMAIN new : new[n] = mapEntries[p][i]
<1> DEFINE cache == mapEntries[p]
<1> DEFINE K == {i \in DOMAIN cache : ~(mapCall[cache[i].call] \in EndedCall /\ cache[i].ends = "past")}
<1>1. new = EntriesAt(cache, K) /\ K \in SUBSET DOMAIN cache
    BY DEF Live
<1>2. /\ cache \in Seq(CacheEntries) /\ Separate(cache)
      /\ \A i \in DOMAIN cache : mapCall[cache[i].call] \notin EndedCall => i \in K
    BY DEF CacheRule
<1> HIDE DEF K, cache
<1>3. /\ new \in Seq(CacheEntries) /\ Len(new) <= Len(cache)
      /\ \A i \in K : \E n \in DOMAIN new : new[n] = cache[i]
      /\ Separate(cache) => Separate(new)
    BY <1>1, <1>2, EntriesKept
<1> QED BY <1>2, <1>3 DEF cache

LEMMA EvictedKept ==
    ASSUME NEW cache \in Seq(CacheEntries), NEW new, new = Evicted(cache)
    PROVE  /\ new \in Seq(CacheEntries) /\ Len(new) <= Len(cache)
           /\ \A n \in DOMAIN new : \E i \in DOMAIN cache : new[n] = cache[i]
           /\ \A i \in DOMAIN cache :
                 mapCall[cache[i].call] \notin EndedCall => \E n \in DOMAIN new : new[n] = cache[i]
           /\ Separate(cache) => Separate(new)
<1> DEFINE done == {i \in DOMAIN cache : mapCall[cache[i].call] \in EndedCall}
<1> DEFINE over == Len(cache) - CacheSize + 1
<1> DEFINE gone == {i \in done : Cardinality({j \in done : j <= i}) <= over}
<1> DEFINE S == {cache[i].call : i \in gone}
<1>0. new = Without(cache, S)
    BY DEF Evicted
<1>1. \A c \in S : mapCall[c] \in EndedCall
    OBVIOUS
<1> HIDE DEF S, gone, over, done
<1>2. \A i \in DOMAIN cache : mapCall[cache[i].call] \notin EndedCall => cache[i].call \notin S
    BY <1>1
<1> QED BY <1>0, <1>1, <1>2, WithoutKept

(* A cache with one more entry at its end.                                *)
With(cache, e) == Append(cache, e)

LEMMA AppendedKept ==
    ASSUME NEW cache \in Seq(CacheEntries), NEW e \in CacheEntries, Separate(cache),
           \A i \in DOMAIN cache : KeyOfCall(cache[i].call) # KeyOfCall(e.call),
           NEW new, new = With(cache, e)
    PROVE  /\ new \in Seq(CacheEntries) /\ Len(new) = Len(cache) + 1 /\ Separate(new)
           /\ \A i \in DOMAIN cache : \E n \in DOMAIN new : new[n] = cache[i]
           /\ \E n \in DOMAIN new : new[n] = e
<1>1. /\ new \in Seq(CacheEntries) /\ Len(cache) \in Nat /\ Len(new) = Len(cache) + 1
      /\ DOMAIN cache = 1 .. Len(cache) /\ DOMAIN new = 1 .. (Len(cache) + 1)
      /\ \A i \in 1 .. Len(cache) : new[i] = cache[i]
      /\ new[Len(cache) + 1] = e
    BY DEF With
<1>2. Separate(new)
    <2> SUFFICES ASSUME NEW i \in DOMAIN new, NEW j \in DOMAIN new,
                        KeyOfCall(new[i].call) = KeyOfCall(new[j].call)
                 PROVE  i = j
        BY DEF Separate
    <2> DEFINE last == Len(cache) + 1
    <2>1. /\ i \in DOMAIN cache \/ i = last
          /\ j \in DOMAIN cache \/ j = last
        BY <1>1
    <2> HIDE DEF last
    <2>2. \A n \in DOMAIN cache : new[n] = cache[n]
        BY <1>1
    <2>3. new[last] = e
        BY <1>1 DEF last
    <2> QED BY <2>1, <2>2, <2>3 DEF Separate
<1>3. \A i \in DOMAIN cache : \E n \in DOMAIN new : new[n] = cache[i]
    BY <1>1
<1>4. \E n \in DOMAIN new : new[n] = e
    BY <1>1
<1> QED BY <1>1, <1>2, <1>3, <1>4

(* A step that changes the cache of one process.                           *)
LEMMA OneCacheChanges ==
    ASSUME CacheRule, NEW p \in Processes, NEW new \in Seq(CacheEntries),
           Len(new) <= CacheSize, Separate(new),
           mapEntries' = [mapEntries EXCEPT ![p] = new],
           mapFull' \in BOOLEAN, mapFull => mapFull',
           ~mapFull' => \A c \in MapCalls : Unended(c)' =>
              IF HostOf(c) = p THEN \E i \in DOMAIN new : new[i].call = c ELSE Unended(c)
    PROVE  CacheRule'
<1>1. mapEntries' \in [Processes -> Seq(CacheEntries)]
    BY DEF CacheRule
<1>2. \A q \in Processes : mapEntries'[q] = IF q = p THEN new ELSE mapEntries[q]
    BY DEF CacheRule
<1>3. \A q \in Processes : Len(mapEntries'[q]) <= CacheSize /\ Separate(mapEntries'[q])
    BY <1>2 DEF CacheRule
<1>4. ASSUME ~mapFull', NEW c \in MapCalls, Unended(c)'
      PROVE  \E i \in DOMAIN mapEntries'[HostOf(c)] : mapEntries'[HostOf(c)][i].call = c
    <2>1. CASE HostOf(c) = p
        BY <1>2, <1>4, <2>1
    <2>2. CASE HostOf(c) # p
        BY <1>2, <1>4, <2>2, HostsOfCalls DEF CacheRule
    <2> QED BY <2>1, <2>2
<1> QED BY <1>1, <1>3, <1>4 DEF CacheRule, Separate

LEMMA ShareKeepsCache ==
    ASSUME MapIInv, CacheRule, NEW t \in MapTasks, Share(t) PROVE CacheRule'
<1> DEFINE p == ProcessOf[t]
<1>1. p \in Processes
    BY DEF Processes
<1>2. PICK b \in NextBatch(t) : \E i \in Entry(Live(p), KeyOfCall(b)) :
          mapEntries' = [mapEntries EXCEPT ![p] =
              Append(Without(Live(p), {Live(p)[i].call}), Live(p)[i])]
    BY DEF Share
<1>3. PICK i \in Entry(Live(p), KeyOfCall(b)) :
          mapEntries' = [mapEntries EXCEPT ![p] =
              Append(Without(Live(p), {Live(p)[i].call}), Live(p)[i])]
    BY <1>2
<1>4. UNCHANGED <<mapCall, mapFull>>
    BY DEF Share
<1> HIDE DEF p
<1> DEFINE live == Live(p)
<1> DEFINE rest == Without(live, {live[i].call})
<1> DEFINE new  == Append(rest, live[i])
<1>5. i \in DOMAIN live
    BY <1>3 DEF Entry
<1>6. /\ live \in Seq(CacheEntries) /\ Len(live) <= Len(mapEntries[p]) /\ Separate(live)
      /\ \A j \in DOMAIN mapEntries[p] :
            mapCall[mapEntries[p][j].call] \notin EndedCall => \E n \in DOMAIN live : live[n] = mapEntries[p][j]
    BY <1>1, LiveKept
<1>7. mapEntries' = [mapEntries EXCEPT ![p] = new]
    BY <1>3
<1> HIDE DEF live
<1>8. /\ rest \in Seq(CacheEntries) /\ Len(rest) < Len(live) /\ Separate(rest)
      /\ \A n \in DOMAIN rest : rest[n].call \notin {live[i].call} /\ \E j \in DOMAIN live : rest[n] = live[j]
      /\ \A j \in DOMAIN live : live[j].call \notin {live[i].call} => \E n \in DOMAIN rest : rest[n] = live[j]
    <2> DEFINE S == {live[i].call}
    <2>1. rest = Without(live, S) /\ live[i].call \in S
        OBVIOUS
    <2>2. \A c : c \in S <=> c \in {live[i].call}
        OBVIOUS
    <2> HIDE DEF rest, S
    <2>3. /\ rest \in Seq(CacheEntries) /\ Len(rest) < Len(live) /\ Separate(rest)
          /\ \A n \in DOMAIN rest : rest[n].call \notin S /\ \E j \in DOMAIN live : rest[n] = live[j]
          /\ \A j \in DOMAIN live : live[j].call \notin S => \E n \in DOMAIN rest : rest[n] = live[j]
        BY <2>1, <1>5, <1>6, WithoutKept
    <2> QED BY <2>2, <2>3
<1> HIDE DEF rest
<1>9. live[i] \in CacheEntries
    BY <1>5, <1>6
<1>10. \A n \in DOMAIN rest : KeyOfCall(rest[n].call) # KeyOfCall(live[i].call)
    BY <1>5, <1>6, <1>8 DEF Separate
<1>11. /\ new \in Seq(CacheEntries) /\ Len(new) = Len(rest) + 1 /\ Separate(new)
       /\ \A j \in DOMAIN rest : \E n \in DOMAIN new : new[n] = rest[j]
       /\ \E n \in DOMAIN new : new[n] = live[i]
    <2> DEFINE e == live[i]
    <2>0. rest \in Seq(CacheEntries) /\ Separate(rest)
        BY <1>8
    <2>1. new = With(rest, e) /\ e \in CacheEntries /\ e = live[i]
        BY <1>9 DEF With
    <2>2. \A n \in DOMAIN rest : KeyOfCall(rest[n].call) # KeyOfCall(e.call)
        BY <1>10
    <2> HIDE DEF new, e
    <2>3. /\ new \in Seq(CacheEntries) /\ Len(new) = Len(rest) + 1 /\ Separate(new)
          /\ \A j \in DOMAIN rest : \E n \in DOMAIN new : new[n] = rest[j]
          /\ \E n \in DOMAIN new : new[n] = e
        BY <2>0, <2>1, <2>2, AppendedKept, SMTT(60)
    <2> QED BY <2>1, <2>3
<1> HIDE DEF new
<1>12. Len(mapEntries[p]) <= CacheSize /\ mapEntries[p] \in Seq(CacheEntries) /\ mapFull \in BOOLEAN
    BY <1>1 DEF CacheRule
<1>13. Len(new) <= CacheSize
    <2>1. Len(new) \in Nat /\ Len(rest) \in Nat /\ Len(live) \in Nat /\ Len(mapEntries[p]) \in Nat
        BY <1>6, <1>8, <1>11, <1>12
    <2>2. CacheSize \in Nat
        BY MappingCacheAssumption
    <2> QED BY <2>1, <2>2, <1>6, <1>8, <1>11, <1>12
<1>14. ASSUME ~mapFull', NEW c \in MapCalls, Unended(c)'
       PROVE  IF HostOf(c) = p THEN \E n \in DOMAIN new : new[n].call = c ELSE Unended(c)
    <2>1. Unended(c) /\ ~mapFull /\ mapCall[c] \notin EndedCall
        BY <1>4, <1>14 DEF Unended
    <2>2. CASE HostOf(c) = p
        <3>1. PICK j \in DOMAIN mapEntries[p] : mapEntries[p][j].call = c
            BY <2>1, <2>2 DEF CacheRule
        <3>2. PICK n \in DOMAIN live : live[n] = mapEntries[p][j]
            BY <2>1, <3>1, <1>6
        <3>3. CASE live[n].call = live[i].call
            BY <3>1, <3>2, <3>3, <2>2, <1>11
        <3>4. CASE live[n].call # live[i].call
            <4>1. PICK m \in DOMAIN rest : rest[m] = live[n]
                BY <3>4, <1>8
            <4>2. PICK o \in DOMAIN new : new[o] = rest[m]
                BY <1>11
            <4> QED BY <4>1, <4>2, <3>1, <3>2, <2>2
        <3> QED BY <3>3, <3>4
    <2> QED BY <2>1, <2>2
<1> QED BY <1>1, <1>4, <1>7, <1>11, <1>12, <1>13, <1>14, OneCacheChanges

LEMMA SubmitKeepsCache ==
    ASSUME MapIInv, CacheRule, NEW t \in MapTasks, Submit(t) PROVE CacheRule'
<1> DEFINE p == ProcessOf[t]
<1>1. p \in Processes
    BY DEF Processes
<1> DEFINE live == Live(p)
<1> DEFINE found(b) == {live[i].call : i \in Entry(live, KeyOfCall(b))}
<1> DEFINE cache(b) == Evicted(Without(live, found(b)))
<1>2. PICK b \in NextBatch(t) :
          /\ \A c \in found(b) : mapCall[c] = "failed"
          /\ mapEntries' = [mapEntries EXCEPT ![p] =
                IF Len(cache(b)) < CacheSize THEN Append(cache(b), [call |-> b, ends |-> "never"])
                ELSE cache(b)]
          /\ mapFull' = (mapFull \/ ~(Len(cache(b)) < CacheSize))
          /\ mapCall' = [mapCall EXCEPT ![b] = "waiting"]
    BY DEF Submit
<1>3. b \in MapCalls /\ b[1] = t /\ HostOf(b) = p
    BY DEF NextBatch, HostOf
<1> HIDE DEF p
<1> DEFINE gone == found(b)
<1> DEFINE rest == Without(live, gone)
<1> DEFINE kept == Evicted(rest)
<1> DEFINE new  == Append(kept, [call |-> b, ends |-> "never"])
<1>4. /\ \A c \in gone : mapCall[c] = "failed"
      /\ \A i \in DOMAIN live : KeyOfCall(live[i].call) = KeyOfCall(b) => live[i].call \in gone
    BY <1>2 DEF Entry
<1>5. /\ mapEntries' = [mapEntries EXCEPT ![p] = IF Len(kept) < CacheSize THEN new ELSE kept]
      /\ mapFull' = (mapFull \/ ~(Len(kept) < CacheSize))
      /\ mapCall' = [mapCall EXCEPT ![b] = "waiting"]
    BY <1>2
<1>6. /\ live \in Seq(CacheEntries) /\ Len(live) <= Len(mapEntries[p]) /\ Separate(live)
      /\ \A j \in DOMAIN mapEntries[p] :
            mapCall[mapEntries[p][j].call] \notin EndedCall => \E n \in DOMAIN live : live[n] = mapEntries[p][j]
    BY <1>1, LiveKept
<1> HIDE DEF gone, found, live
<1>7. /\ rest \in Seq(CacheEntries) /\ Len(rest) <= Len(live) /\ Separate(rest)
      /\ \A n \in DOMAIN rest : rest[n].call \notin gone /\ \E j \in DOMAIN live : rest[n] = live[j]
      /\ \A j \in DOMAIN live : live[j].call \notin gone => \E n \in DOMAIN rest : rest[n] = live[j]
    BY <1>6, WithoutKept
<1> HIDE DEF rest
<1>8. /\ kept \in Seq(CacheEntries) /\ Len(kept) <= Len(rest) /\ Separate(kept)
      /\ \A n \in DOMAIN kept : \E i \in DOMAIN rest : kept[n] = rest[i]
      /\ \A i \in DOMAIN rest : mapCall[rest[i].call] \notin EndedCall => \E n \in DOMAIN kept : kept[n] = rest[i]
    <2>1. kept = Evicted(rest)
        OBVIOUS
    <2> HIDE DEF kept
    <2> QED BY <2>1, <1>7, EvictedKept
<1> HIDE DEF kept
<1> DEFINE e == [call |-> b, ends |-> "never"]
<1>9. e \in CacheEntries /\ e.call = b
    BY <1>3 DEF CacheEntries
<1>10. \A n \in DOMAIN kept : KeyOfCall(kept[n].call) # KeyOfCall(e.call)
    BY <1>4, <1>7, <1>8, <1>9
<1> HIDE DEF e
<1>11. /\ new = With(kept, e)
       /\ new \in Seq(CacheEntries) /\ Len(new) = Len(kept) + 1 /\ Separate(new)
       /\ \A j \in DOMAIN kept : \E n \in DOMAIN new : new[n] = kept[j]
       /\ \E n \in DOMAIN new : new[n] = e
    <2>0. kept \in Seq(CacheEntries) /\ Separate(kept) /\ e \in CacheEntries
        BY <1>8, <1>9
    <2>1. new = With(kept, e)
        BY DEF e, With
    <2> HIDE DEF new
    <2>2. /\ new \in Seq(CacheEntries) /\ Len(new) = Len(kept) + 1 /\ Separate(new)
          /\ \A j \in DOMAIN kept : \E n \in DOMAIN new : new[n] = kept[j]
          /\ \E n \in DOMAIN new : new[n] = e
        BY <2>0, <2>1, <1>10, AppendedKept
    <2> QED BY <2>1, <2>2
<1> HIDE DEF new
<1>12. /\ Len(mapEntries[p]) <= CacheSize /\ mapEntries[p] \in Seq(CacheEntries) /\ mapFull \in BOOLEAN
    BY <1>1 DEF CacheRule
<1>13. /\ Len(kept) <= CacheSize
       /\ Len(kept) < CacheSize => Len(new) <= CacheSize
    <2>1. /\ Len(new) \in Nat /\ Len(kept) \in Nat /\ Len(rest) \in Nat /\ Len(live) \in Nat
          /\ Len(mapEntries[p]) \in Nat
        BY <1>6, <1>7, <1>8, <1>11, <1>12
    <2>2. CacheSize \in Nat
        BY MappingCacheAssumption
    <2> QED BY <2>1, <2>2, <1>6, <1>7, <1>8, <1>11, <1>12
<1>14. CASE Len(kept) < CacheSize
    <2>1. mapEntries' = [mapEntries EXCEPT ![p] = new] /\ mapFull' = mapFull
        BY <1>5, <1>12, <1>14
    <2>2. ASSUME ~mapFull', NEW c \in MapCalls, Unended(c)'
          PROVE  IF HostOf(c) = p THEN \E n \in DOMAIN new : new[n].call = c ELSE Unended(c)
        <3>1. CASE c = b
            BY <3>1, <1>3, <1>9, <1>11
        <3>2. CASE c # b
            <4>1. Unended(c) /\ ~mapFull /\ mapCall[c] \notin EndedCall
                BY <1>3, <1>5, <2>1, <2>2, <3>2 DEF Unended, MapIInv, MapTypeOK
            <4>2. CASE HostOf(c) = p
                <5>1. PICK j \in DOMAIN mapEntries[p] : mapEntries[p][j].call = c
                    BY <4>1, <4>2 DEF CacheRule
                <5>2. PICK n \in DOMAIN live : live[n] = mapEntries[p][j]
                    BY <4>1, <5>1, <1>6
                <5>3. c \notin gone
                    BY <4>1, <1>4 DEF EndedCall
                <5>4. PICK m \in DOMAIN rest : rest[m] = live[n]
                    BY <5>1, <5>2, <5>3, <1>7
                <5>5. PICK l \in DOMAIN kept : kept[l] = rest[m]
                    BY <4>1, <5>1, <5>2, <5>4, <1>8
                <5>6. PICK o \in DOMAIN new : new[o] = kept[l]
                    BY <1>11
                <5> QED BY <4>2, <5>1, <5>2, <5>4, <5>5, <5>6
            <4> QED BY <4>1, <4>2
        <3> QED BY <3>1, <3>2
    <2> QED BY <1>1, <1>11, <1>12, <1>13, <1>14, <2>1, <2>2, OneCacheChanges
<1>15. CASE ~(Len(kept) < CacheSize)
    <2>1. mapEntries' = [mapEntries EXCEPT ![p] = kept] /\ mapFull' = TRUE
        BY <1>5, <1>15
    <2> QED BY <1>1, <1>8, <1>12, <1>13, <2>1, OneCacheChanges
<1> QED BY <1>14, <1>15

LEMMA CompletedKeepsCache ==
    ASSUME MapIInv, CacheRule, NEW c \in MapCalls, Completed(c) PROVE CacheRule'
<1> DEFINE p == HostOf(c)
<1> DEFINE cache == mapEntries[p]
<1>1. p \in Processes
    BY HostsOfCalls
<1>2. /\ cache \in Seq(CacheEntries) /\ Len(cache) <= CacheSize /\ Separate(cache) /\ mapFull \in BOOLEAN
      /\ mapEntries = [q \in Processes |-> mapEntries[q]]
    BY <1>1 DEF CacheRule
<1>3. mapCall' = mapCall /\ mapFull' = mapFull /\ mapCall[c] \in EndedCall
    BY DEF Completed
<1>4. ASSUME NEW d \in MapCalls, Unended(d)', ~mapFull', HostOf(d) = p
      PROVE  d # c /\ \E i \in DOMAIN cache : cache[i].call = d
    BY <1>3, <1>4 DEF CacheRule, Unended
<1>5. CASE mapCall[c] = "failed"
    <2> DEFINE new == Without(cache, {c})
    <2>1. mapEntries' = [mapEntries EXCEPT ![p] = new]
        BY <1>5 DEF Completed
    <2> HIDE DEF cache
    <2>2. /\ new \in Seq(CacheEntries) /\ Len(new) <= Len(cache) /\ Separate(new)
          /\ \A j \in DOMAIN cache : cache[j].call \notin {c} => \E n \in DOMAIN new : new[n] = cache[j]
        <3> DEFINE S == {c}
        <3>1. new = Without(cache, S) /\ \A d : d \in S <=> d \in {c}
            OBVIOUS
        <3> HIDE DEF new, S
        <3>2. /\ new \in Seq(CacheEntries) /\ Len(new) <= Len(cache) /\ Separate(new)
              /\ \A j \in DOMAIN cache : cache[j].call \notin S => \E n \in DOMAIN new : new[n] = cache[j]
            BY <1>2, <3>1, WithoutKept
        <3> QED BY <3>1, <3>2
    <2> HIDE DEF new, p
    <2>3. Len(new) <= CacheSize
        BY <1>2, <2>2, MappingCacheAssumption
    <2>4. ASSUME ~mapFull', NEW d \in MapCalls, Unended(d)'
          PROVE  IF HostOf(d) = p THEN \E n \in DOMAIN new : new[n].call = d ELSE Unended(d)
        BY <1>3, <1>4, <2>2, <2>4 DEF Unended
    <2> QED BY <1>1, <1>2, <1>3, <2>1, <2>2, <2>3, <2>4, OneCacheChanges
<1>6. CASE mapCall[c] # "failed"
    <2> DEFINE new == [i \in DOMAIN cache |-> IF cache[i].call = c THEN [cache[i] EXCEPT !.ends = "later"]
                                              ELSE cache[i]]
    <2>1. mapEntries' = [mapEntries EXCEPT ![p] = new]
        BY <1>6 DEF Completed
    <2> HIDE DEF cache
    <2>2. /\ DOMAIN cache = 1 .. Len(cache) /\ Len(cache) \in Nat
          /\ \A i \in DOMAIN cache : cache[i] \in CacheEntries
        BY <1>2
    <2>3. /\ DOMAIN new = 1 .. Len(cache)
          /\ \A i \in DOMAIN cache : new[i] \in CacheEntries /\ new[i].call = cache[i].call
        BY <2>2 DEF CacheEntries
    <2>4. new = [i \in 1 .. Len(cache) |-> new[i]]
        BY <2>2
    <2> HIDE DEF new, p
    <2>5. new \in Seq(CacheEntries) /\ Len(new) = Len(cache)
        BY <2>2, <2>3, <2>4
    <2>6. Separate(new)
        BY <1>2, <2>2, <2>3 DEF Separate
    <2>7. ASSUME ~mapFull', NEW d \in MapCalls, Unended(d)'
          PROVE  IF HostOf(d) = p THEN \E n \in DOMAIN new : new[n].call = d ELSE Unended(d)
        BY <1>3, <1>4, <2>2, <2>3, <2>7 DEF Unended
    <2>8. Len(new) <= CacheSize
        BY <1>2, <2>5
    <2> QED BY <1>1, <1>2, <1>3, <2>1, <2>5, <2>6, <2>7, <2>8, OneCacheChanges
<1> QED BY <1>5, <1>6

LEMMA DeadlineKeepsCache ==
    ASSUME MapIInv, CacheRule, NEW p \in Processes, DeadlinePasses(p) PROVE CacheRule'
<1> DEFINE cache == mapEntries[p]
<1>1. /\ cache \in Seq(CacheEntries) /\ Len(cache) <= CacheSize /\ Separate(cache) /\ mapFull \in BOOLEAN
      /\ mapEntries = [q \in Processes |-> mapEntries[q]]
    BY DEF CacheRule
<1>2. PICK i \in DOMAIN cache : mapEntries' = [mapEntries EXCEPT ![p][i].ends = "past"]
    BY DEF DeadlinePasses
<1>3. mapCall' = mapCall /\ mapFull' = mapFull
    BY DEF DeadlinePasses
<1> DEFINE new == [cache EXCEPT ![i].ends = "past"]
<1>4. mapEntries' = [mapEntries EXCEPT ![p] = new]
    BY <1>2
<1>5. ASSUME NEW d \in MapCalls, Unended(d)', ~mapFull', HostOf(d) = p
      PROVE  \E j \in DOMAIN cache : cache[j].call = d
    BY <1>3, <1>5 DEF CacheRule, Unended
<1> HIDE DEF cache
<1>6. /\ DOMAIN cache = 1 .. Len(cache) /\ Len(cache) \in Nat
      /\ \A j \in DOMAIN cache : cache[j] \in CacheEntries
    BY <1>1
<1>7. /\ DOMAIN new = 1 .. Len(cache)
      /\ \A j \in DOMAIN cache : new[j] \in CacheEntries /\ new[j].call = cache[j].call
    BY <1>6 DEF CacheEntries
<1>8. new = [j \in 1 .. Len(cache) |-> new[j]]
    BY <1>6
<1> HIDE DEF new
<1>9. new \in Seq(CacheEntries) /\ Len(new) = Len(cache)
    BY <1>6, <1>7, <1>8
<1>10. Separate(new)
    BY <1>1, <1>6, <1>7 DEF Separate
<1>11. ASSUME ~mapFull', NEW d \in MapCalls, Unended(d)'
       PROVE  IF HostOf(d) = p THEN \E n \in DOMAIN new : new[n].call = d ELSE Unended(d)
    BY <1>3, <1>5, <1>6, <1>7, <1>11 DEF Unended
<1>12. Len(new) <= CacheSize
    BY <1>1, <1>9
<1> QED BY <1>1, <1>3, <1>4, <1>9, <1>10, <1>11, <1>12, OneCacheChanges

(* All other steps leave the caches alone and start no request.            *)
LEMMA QuietStepKeepsCache ==
    ASSUME CacheRule, UNCHANGED <<mapEntries, mapFull>>,
           \A c \in MapCalls : Unended(c)' => Unended(c)
    PROVE  CacheRule'
BY DEF CacheRule, Separate

LEMMA ThreadStepStartsNone ==
    ASSUME MapIInv, NEW c \in MapCalls, NEW from \in CallPlaces \ (EndedCall \cup {"none"}), NEW to,
           Step(c, from, to), NEW d \in MapCalls, Unended(d)'
    PROVE  Unended(d)
BY DEF Step, Unended, MapIInv, MapTypeOK

LEMMA CacheStep == MapIInv /\ CacheRule /\ [MapNext]_mapVars => CacheRule'
<1> SUFFICES ASSUME MapIInv, CacheRule, [MapNext]_mapVars PROVE CacheRule'
    OBVIOUS
<1>1. ASSUME NEW t \in MapTasks, Share(t) PROVE CacheRule'
    BY <1>1, ShareKeepsCache
<1>2. ASSUME NEW t \in MapTasks, Submit(t) PROVE CacheRule'
    BY <1>2, SubmitKeepsCache
<1>3. ASSUME NEW c \in MapCalls, Completed(c) PROVE CacheRule'
    BY <1>3, CompletedKeepsCache
<1>4. ASSUME NEW p \in Processes, DeadlinePasses(p) PROVE CacheRule'
    BY <1>4, DeadlineKeepsCache
<1>5. ASSUME NEW c \in MapCalls,
             \/ TakeThread(c) \/ Look(c) \/ Lock(c) \/ LookAgain(c) \/ GoOnUnlocked(c)
             \/ AskModel(c) \/ StoreResult(c) \/ Release(c)
      PROVE  CacheRule'
    <2>1. UNCHANGED <<mapEntries, mapFull>>
        BY <1>5 DEF TakeThread, Look, Lock, LookAgain, GoOnUnlocked, AskModel, StoreResult, Release,
                    ComputeVars
    <2>2. \E from \in CallPlaces \ (EndedCall \cup {"none"}) : \E to : Step(c, from, to)
        BY <1>5 DEF TakeThread, Look, Lock, LookAgain, GoOnUnlocked, AskModel, StoreResult, Release,
                    CallPlaces, HoldingMap, Asking, EndedCall
    <2> QED BY <2>1, <2>2, ThreadStepStartsNone, QuietStepKeepsCache
<1>6. CASE UNCHANGED <<mapEntries, mapFull, mapCall>>
    BY <1>6, QuietStepKeepsCache DEF Unended
<1>7. ASSUME NEW t \in MapTasks, Collect(t) PROVE CacheRule'
    BY <1>7, <1>6 DEF Collect
<1>8. ASSUME NEW k \in MapKeys, LockExpires(k) \/ ResultExpires(k) PROVE CacheRule'
    BY <1>8, <1>6 DEF LockExpires, ResultExpires, ComputeVars
<1>9. CASE UNCHANGED mapVars
    BY <1>9, <1>6 DEF mapVars
<1> QED BY <1>1, <1>2, <1>3, <1>4, <1>5, <1>7, <1>8, <1>9 DEF MapNext

LEMMA CacheInitially == MapInit => CacheRule
<1> SUFFICES ASSUME MapInit PROVE CacheRule
    OBVIOUS
<1>1. \A p \in Processes : mapEntries[p] = <<>>
    BY DEF MapInit, NoCache
<1>2. <<>> \in Seq(CacheEntries) /\ Len(<<>>) = 0 /\ 0 <= CacheSize /\ Separate(<<>>)
    BY MappingCacheAssumption DEF Separate
<1>3. mapEntries \in [Processes -> Seq(CacheEntries)]
    BY <1>2 DEF MapInit, NoCache
<1>4. mapFull = FALSE /\ \A c \in MapCalls : mapCall[c] = "none"
    BY DEF MapInit
<1> QED BY <1>1, <1>2, <1>3, <1>4 DEF CacheRule, Unended

(* The cache keeps to its size, and two batches of one process with the    *)
(* same fields and columns do not have two requests on their way, unless   *)
(* a request was made while the cache was full of unfinished ones.         *)
THEOREM RequestsAreShared == MapSpec => []RequestsStayShared
<1>1. CacheRule => RequestsStayShared
    <2> SUFFICES ASSUME CacheRule, ~mapFull, NEW c \in MapCalls, NEW d \in MapCalls,
                        Unended(c), Unended(d), KeyOfCall(c) = KeyOfCall(d), HostOf(c) = HostOf(d)
                 PROVE  c = d
        BY DEF RequestsStayShared, CacheRule, Unended
    <2> DEFINE cache == mapEntries[HostOf(c)]
    <2>1. PICK i \in DOMAIN cache : cache[i].call = c
        BY DEF CacheRule
    <2>2. PICK j \in DOMAIN cache : cache[j].call = d
        BY DEF CacheRule
    <2>3. Separate(cache)
        BY HostsOfCalls DEF CacheRule
    <2> HIDE DEF cache
    <2>4. i = j
        BY <2>1, <2>2, <2>3 DEF Separate
    <2> QED BY <2>1, <2>2, <2>4
<1>2. MapIInv /\ CacheRule /\ [MapNext]_mapVars => CacheRule'
    BY CacheStep
<1> QED BY <1>1, <1>2, CacheInitially, MapInvariant, PTL DEF MapSpec

(* A request is asked for once, as long as its lock is kept and the cache  *)
(* is not full of unfinished ones, and a batch has the answer to its own.  *)
THEOREM BatchesShare == MapSpec => BatchesShareAnswers
BY OneThreadAsks, RequestsAreShared, AnswersFit, PTL DEF BatchesShareAnswers

-----------------------------------------------------------------------------
(* LoginLimits: the counters of an account and its logins under way.       *)

LimitStores == {"redis", "sql"}
UserRow == [active : BOOLEAN, locked : BOOLEAN]

LoginState == [at : {"idle", "source", "verify", "count source", "count refusal",
                      "count account", "save failure", "clear", "mark"},
               row : UserRow, failures : Nat]

LimitTypeOK ==
    /\ limCount \in [LimitStores -> [Counters -> Nat]]
    /\ limRow \in UserRow
    /\ limLogin \in [Logins -> LoginState]
    /\ limFails \in Nat
    /\ limFault \in BOOLEAN /\ limCleared \in BOOLEAN

(* Logins whose failure is yet to be counted; logins that may still count  *)
(* one; and logins that counted the last one and have yet to lock the      *)
(* account.                                                                *)
Counting == {l \in Logins : limLogin[l].at \in {"count source", "count account"}}

Through == {l \in Logins : \/ limLogin[l].at \in {"verify", "count source", "count account"}
                           \/ limLogin[l].at = "source" /\ ~limLogin[l].row.locked}

Late == {l \in Logins : limLogin[l].at = "save failure" /\ limLogin[l].failures >= AccountMax}

(* By how much the failures a store counts are over the limit.             *)
Excess(s) == IF limCount[s].account >= AccountMax
             THEN limCount[s].account - (AccountMax - 1) ELSE 0

Over == Excess("redis") + Excess("sql")

(* Only a login that cleared the counters marks the success.               *)
MarkRule == \A l \in Logins : limLogin[l].at = "mark" => limCleared

(* Every failure is in one of the two counters, or about to be; SQL counts *)
(* only when Redis fails.                                                  *)
FailsRule ==
    /\ ~limFault => limCount["sql"].account = 0
    /\ ~limCleared => limFails = limCount["redis"].account + limCount["sql"].account
                                 + Cardinality(Counting)

(* An account over its limit is locked, or about to be by one login for    *)
(* each failure over the limit; once it is locked, only logins that had    *)
(* passed the check go on, each for one failure more.                      *)
OverRule ==
    ~limCleared => IF limRow.locked THEN Over + Cardinality(Through) <= Cardinality(Logins)
                                    ELSE Over = Cardinality(Late)

LimitIInv == LimitTypeOK /\ MarkRule /\ FailsRule /\ OverRule

LEMMA SmallerSum == \A a, b, c, d \in Nat : a + b <= d /\ c <= b => a + c <= d
OBVIOUS

LEMMA LimitStart == NewRow \in UserRow /\ NoLogin \in LoginState /\ NoLogin.at = "idle"
BY DEF NewRow, NoLogin, UserRow, LoginState

LEMMA AtRecord ==
    ASSUME NEW at \in {"idle", "source", "verify", "count source", "count refusal",
                       "count account", "save failure", "clear", "mark"}
    PROVE  /\ [NoLogin EXCEPT !.at = at] \in LoginState
           /\ [NoLogin EXCEPT !.at = at].at = at
           /\ [NoLogin EXCEPT !.at = at].row = NewRow
BY DEF NewRow, NoLogin, UserRow, LoginState

(* A set of logins with one more or one less. *)
LEMMA LoginCount ==
    ASSUME NEW S \in SUBSET Logins, NEW l \in Logins
    PROVE  /\ Cardinality(S) \in Nat /\ Cardinality(S) <= Cardinality(Logins)
           /\ Cardinality(Logins) \in Nat
           /\ l \in S => Cardinality(S \ {l}) = Cardinality(S) - 1
           /\ l \notin S => Cardinality(S \cup {l}) = Cardinality(S) + 1
<1>1. IsFiniteSet(Logins)
    BY LoginLimitsAssumption
<1>2. IsFiniteSet(S) /\ Cardinality(S) <= Cardinality(Logins)
    BY <1>1, FS_Subset
<1>3. Cardinality(S) \in Nat /\ Cardinality(Logins) \in Nat
    BY <1>1, <1>2, FS_CardinalityType
<1> QED BY <1>2, <1>3, FS_AddElement, FS_RemoveElement

LEMMA LessSets ==
    ASSUME NEW S \in SUBSET Logins, NEW T \in SUBSET S
    PROVE  Cardinality(T) \in Nat /\ Cardinality(T) <= Cardinality(S)
<1>1. IsFiniteSet(S) /\ IsFiniteSet(T)
    BY LoginLimitsAssumption, FS_Subset
<1> QED BY <1>1, FS_Subset, FS_CardinalityType

LEMMA ApartSets ==
    ASSUME NEW S \in SUBSET Logins, NEW T \in SUBSET Logins, S \cap T = {}
    PROVE  Cardinality(S) + Cardinality(T) <= Cardinality(Logins)
<1>1. IsFiniteSet(S) /\ IsFiniteSet(T) /\ S \cup T \in SUBSET Logins
    BY LoginLimitsAssumption, FS_Subset
<1>2. Cardinality(S \cup T) = Cardinality(S) + Cardinality(T) - Cardinality(S \cap T)
    BY <1>1, FS_Union
<1>3. Cardinality(S \cup T) <= Cardinality(Logins) /\ Cardinality(S \cap T) = 0
    BY <1>1, LessSets, FS_EmptySet
<1>4. Cardinality(S) \in Nat /\ Cardinality(T) \in Nat
    BY <1>1, FS_CardinalityType
<1> QED BY <1>2, <1>3, <1>4

(* What a step of one login does to the three sets. *)
LEMMA LoginChange ==
    ASSUME LimitTypeOK, NEW l \in Logins, NEW x \in LoginState,
           limLogin' = [limLogin EXCEPT ![l] = x]
    PROVE  /\ limLogin' \in [Logins -> LoginState] /\ limLogin'[l] = x
           /\ \A m \in Logins \ {l} : limLogin'[m] = limLogin[m]
           /\ Counting' = IF x.at \in {"count source", "count account"}
                          THEN Counting \cup {l} ELSE Counting \ {l}
           /\ Through' = IF \/ x.at \in {"verify", "count source", "count account"}
                            \/ x.at = "source" /\ ~x.row.locked
                         THEN Through \cup {l} ELSE Through \ {l}
           /\ Late' = IF x.at = "save failure" /\ x.failures >= AccountMax
                      THEN Late \cup {l} ELSE Late \ {l}
<1>1. /\ limLogin' \in [Logins -> LoginState] /\ limLogin'[l] = x
      /\ \A m \in Logins \ {l} : limLogin'[m] = limLogin[m]
    BY DEF LimitTypeOK
<1>2. Counting' = IF x.at \in {"count source", "count account"}
                  THEN Counting \cup {l} ELSE Counting \ {l}
    BY <1>1 DEF Counting
<1>3. Through' = IF \/ x.at \in {"verify", "count source", "count account"}
                    \/ x.at = "source" /\ ~x.row.locked
                 THEN Through \cup {l} ELSE Through \ {l}
    BY <1>1 DEF Through
<1>4. Late' = IF x.at = "save failure" /\ x.failures >= AccountMax
              THEN Late \cup {l} ELSE Late \ {l}
    BY <1>1 DEF Late
<1> QED BY <1>1, <1>2, <1>3, <1>4

LEMMA LimitSets == Counting \in SUBSET Logins /\ Through \in SUBSET Logins /\ Late \in SUBSET Logins
                   /\ Late \cap Through = {}
BY DEF Counting, Through, Late

LEMMA LimitInitially == LimitInit => LimitIInv
<1> SUFFICES ASSUME LimitInit PROVE LimitIInv
    OBVIOUS
<1>1. LimitTypeOK
    BY LimitStart DEF LimitInit, LimitTypeOK, LimitStores
<1>2. MarkRule /\ Counting = {} /\ Late = {}
    BY LimitStart DEF LimitInit, MarkRule, Counting, Late
<1>3. Cardinality({}) = 0
    BY FS_EmptySet
<1>4. limCount["redis"].account = 0 /\ limCount["sql"].account = 0 /\ limFails = 0
    BY DEF LimitInit, Counters
<1>5. FailsRule
    BY <1>2, <1>3, <1>4 DEF FailsRule
<1>6. OverRule
    BY <1>2, <1>3, <1>4, LoginLimitsAssumption DEF OverRule, Over, Excess, LimitInit, NewRow
<1> QED BY <1>1, <1>2, <1>5, <1>6 DEF LimitIInv

LEMMA OverIsNat == ASSUME LimitTypeOK PROVE Over \in Nat
<1>1. limCount["redis"].account \in Nat /\ limCount["sql"].account \in Nat
    BY DEF LimitTypeOK, LimitStores, Counters
<1> QED BY <1>1, LoginLimitsAssumption DEF Over, Excess

LEMMA StoreFaultType == ASSUME LimitTypeOK, NEW s, Store(s) PROVE limFault' \in BOOLEAN /\ (limFault => limFault')
BY DEF Store, LimitTypeOK

(* A step that counts nothing and neither locks nor unlocks. *)
LEMMA QuietStep ==
    ASSUME LimitIInv, NEW l \in Logins, NEW x \in LoginState,
           limLogin' = [limLogin EXCEPT ![l] = x],
           UNCHANGED <<limRow, limFails, limCleared>>,
           limCount' \in [LimitStores -> [Counters -> Nat]],
           \A s \in LimitStores : limCount'[s].account = limCount[s].account,
           limFault' \in BOOLEAN, limFault => limFault',
           x.at \notin {"mark", "save failure"}, limLogin[l].at # "save failure",
           x.at \in {"count source", "count account"} <=> l \in Counting,
           limRow.locked /\ (\/ x.at \in {"verify", "count source", "count account"}
                             \/ x.at = "source" /\ ~x.row.locked) => l \in Through
    PROVE  LimitIInv'
<1>0. LimitTypeOK /\ MarkRule /\ FailsRule /\ OverRule
    BY DEF LimitIInv
<1>a. /\ limLogin' \in [Logins -> LoginState] /\ limLogin'[l] = x
      /\ \A m \in Logins \ {l} : limLogin'[m] = limLogin[m]
    BY <1>0 DEF LimitTypeOK
<1>1. LimitTypeOK'
    BY <1>0, <1>a DEF LimitTypeOK
<1>2. MarkRule'
    BY <1>0, <1>a DEF MarkRule
<1>3. limCount'["redis"].account = limCount["redis"].account /\ limCount'["sql"].account = limCount["sql"].account
    BY DEF LimitStores
<1>4. Counting' = Counting /\ Late' = Late
    BY <1>a DEF Late, Counting
<1>5. FailsRule'
    BY <1>0, <1>3, <1>4 DEF FailsRule
<1>6. OverRule'
    <2> SUFFICES ASSUME ~limCleared' PROVE OverRule'
        BY DEF OverRule
    <2>1. Over' = Over
        BY <1>3 DEF Over, Excess
    <2>2. CASE limRow.locked
        <3>1. Through' = Through \/ (l \in Through /\ Through' = Through \ {l})
            BY <1>a, <2>2 DEF Through
        <3>2. Through \in SUBSET Logins
            BY LimitSets
        <3>3. /\ Cardinality(Through) \in Nat /\ Cardinality(Logins) \in Nat
              /\ l \in Through => Cardinality(Through \ {l}) = Cardinality(Through) - 1
            BY <3>2, LoginCount
        <3>4. Cardinality(Through') \in Nat /\ Cardinality(Through') <= Cardinality(Through)
            BY <3>1, <3>2, LessSets
        <3>5. Over \in Nat
            BY <1>0, OverIsNat
        <3>6. Over + Cardinality(Through) <= Cardinality(Logins)
            BY <1>0, <2>2 DEF OverRule
        <3>7. Over' + Cardinality(Through') <= Cardinality(Logins)
            <4>2. Over + Cardinality(Through') <= Cardinality(Logins)
                BY <3>3, <3>4, <3>5, <3>6, SmallerSum, Zenon
            <4> QED BY <2>1, <4>2, Zenon
        <3> QED BY <2>2, <3>7 DEF OverRule
    <2>3. CASE ~limRow.locked
        BY <1>0, <1>4, <2>1, <2>3 DEF OverRule
    <2> QED BY <2>2, <2>3
<1> QED BY <1>1, <1>2, <1>5, <1>6 DEF LimitIInv

LEMMA ReadSteps == ASSUME LimitIInv, NEW l \in Logins, ReadUser(l) PROVE LimitIInv'
<1> DEFINE x == [NoLogin EXCEPT !.at = "source", !.row = limRow]
<1>1. x \in LoginState /\ x.at = "source" /\ x.row = limRow
    BY LimitStart DEF LimitIInv, LimitTypeOK, LoginState, NoLogin
<1>2. limLogin' = [limLogin EXCEPT ![l] = x] /\ limLogin[l].at = "idle"
    BY LimitStart DEF ReadUser
<1>3. l \notin Counting
    BY <1>2 DEF Counting
<1>4. UNCHANGED <<limCount, limRow, limFails, limFault, limCleared>>
    BY DEF ReadUser
<1>5. limCount' \in [LimitStores -> [Counters -> Nat]] /\ limFault' \in BOOLEAN
    BY <1>4 DEF LimitIInv, LimitTypeOK
<1> HIDE DEF x
<1> QED BY <1>1, <1>2, <1>3, <1>4, <1>5, QuietStep

LEMMA CheckSteps == ASSUME LimitIInv, NEW l \in Logins, CheckSource(l) PROVE LimitIInv'
<1>1. PICK at \in {"idle", "count refusal", "verify"} :
         Goes(l, at) /\ (at = "verify" => ~limLogin[l].row.locked)
    BY DEF CheckSource
<1> DEFINE x == [NoLogin EXCEPT !.at = at]
<1>2. x \in LoginState /\ x.at = at
    BY AtRecord
<1>3. limLogin' = [limLogin EXCEPT ![l] = x] /\ limLogin[l].at = "source"
    BY <1>1 DEF CheckSource, Goes
<1>4. l \notin Counting /\ (at = "verify" => l \in Through)
    BY <1>1, <1>3 DEF Counting, Through
<1>5. UNCHANGED <<limCount, limRow, limFails, limCleared>>
    BY DEF CheckSource
<1>6. limCount' \in [LimitStores -> [Counters -> Nat]]
    BY <1>5 DEF LimitIInv, LimitTypeOK
<1>7. limFault' \in BOOLEAN /\ (limFault => limFault')
    BY StoreFaultType DEF CheckSource, LimitIInv
<1> HIDE DEF x
<1> QED BY <1>2, <1>3, <1>4, <1>5, <1>6, <1>7, QuietStep

LEMMA SourceSteps == ASSUME LimitIInv, NEW l \in Logins, CountSource(l) PROVE LimitIInv'
<1> DEFINE at == IF limLogin[l].at = "count source" THEN "count account" ELSE "idle"
           x == [NoLogin EXCEPT !.at = at]
<1>1. limLogin[l].at \in {"count source", "count refusal"} /\ limLogin' = [limLogin EXCEPT ![l] = x]
    BY DEF CountSource, Goes
<1>2. x \in LoginState /\ x.at = at
    BY AtRecord
<1>3. at = "count account" <=> l \in Counting
    BY <1>1 DEF Counting
<1>4. at = "count account" => l \in Through
    BY <1>1 DEF Through
<1>5. PICK s \in LimitStores : Store(s) /\ limCount' = [limCount EXCEPT ![s].source = @ + 1]
    BY DEF CountSource, LimitStores
<1>6. limCount' \in [LimitStores -> [Counters -> Nat]]
      /\ \A t \in LimitStores : limCount'[t].account = limCount[t].account
    BY <1>5 DEF LimitIInv, LimitTypeOK, Counters
<1>7. limFault' \in BOOLEAN /\ (limFault => limFault')
    BY <1>5, StoreFaultType DEF LimitIInv
<1>8. UNCHANGED <<limRow, limFails, limCleared>>
    BY DEF CountSource
<1>9. at \in {"count account", "idle"}
    OBVIOUS
<1> HIDE DEF at, x
<1> QED BY <1>1, <1>2, <1>3, <1>4, <1>6, <1>7, <1>8, <1>9, QuietStep

LEMMA VerifySteps == ASSUME LimitIInv, NEW l \in Logins, Verify(l) PROVE LimitIInv'
<1>0. limLogin[l].at = "verify" /\ UNCHANGED <<limCount, limRow, limFault, limCleared>>
    BY DEF Verify
<1>1. CASE Goes(l, "clear") /\ UNCHANGED limFails
    <2> DEFINE x == [NoLogin EXCEPT !.at = "clear"]
    <2>1. x \in LoginState /\ x.at = "clear"
        BY AtRecord
    <2>2. limLogin' = [limLogin EXCEPT ![l] = x] /\ l \notin Counting
        BY <1>0, <1>1 DEF Goes, Counting
    <2>3. limCount' \in [LimitStores -> [Counters -> Nat]] /\ limFault' \in BOOLEAN
        BY <1>0 DEF LimitIInv, LimitTypeOK
    <2> HIDE DEF x
    <2> QED BY <1>0, <1>1, <2>1, <2>2, <2>3, QuietStep
<1>2. CASE Goes(l, "count source") /\ limFails' = limFails + 1
    <2> DEFINE x == [NoLogin EXCEPT !.at = "count source"]
    <2>0. LimitTypeOK /\ MarkRule /\ FailsRule /\ OverRule
        BY DEF LimitIInv
    <2>1. x \in LoginState /\ x.at = "count source"
        BY AtRecord
    <2>2. limLogin' = [limLogin EXCEPT ![l] = x]
        BY <1>2 DEF Goes
    <2> HIDE DEF x
    <2>3. /\ limLogin' \in [Logins -> LoginState] /\ limLogin'[l] = x
          /\ \A m \in Logins \ {l} : limLogin'[m] = limLogin[m]
        BY <2>0, <2>1, <2>2 DEF LimitTypeOK
    <2>4. l \notin Counting /\ l \in Through /\ l \notin Late
        BY <1>0 DEF Counting, Through, Late
    <2>5. Counting' = Counting \cup {l} /\ Through' = Through /\ Late' = Late
        <3>1. Counting' = Counting \cup {l}
            BY <2>1, <2>3 DEF Counting
        <3>2. Through' = Through
            BY <2>1, <2>3, <2>4 DEF Through
        <3>3. Late' = Late
            BY <2>1, <2>3, <2>4 DEF Late
        <3> QED BY <3>1, <3>2, <3>3
    <2>6. Cardinality(Counting') = Cardinality(Counting) + 1 /\ Cardinality(Counting) \in Nat
        BY <2>4, <2>5, LimitSets, LoginCount
    <2>7. LimitTypeOK'
        <3>1. limFails' \in Nat
            <4>1. limFails \in Nat
                BY <2>0 DEF LimitTypeOK
            <4>2. limFails' = limFails + 1
                BY <1>2, Zenon
            <4> QED BY <4>1, <4>2
        <3>2. UNCHANGED <<limCount, limRow, limFault, limCleared>>
            BY <1>0
        <3> QED BY <2>0, <2>3, <3>1, <3>2 DEF LimitTypeOK
    <2>8. MarkRule'
        BY <1>0, <2>0, <2>1, <2>3 DEF MarkRule
    <2>9. FailsRule'
        <3>1. limCount["redis"].account \in Nat /\ limCount["sql"].account \in Nat
            BY <2>0 DEF LimitTypeOK, LimitStores, Counters
        <3>2. ASSUME ~limCleared
              PROVE  limFails + 1 = limCount["redis"].account + limCount["sql"].account
                                    + (Cardinality(Counting) + 1)
            <4>1. limFails = limCount["redis"].account + limCount["sql"].account + Cardinality(Counting)
                BY <2>0, <3>2 DEF FailsRule
            <4> QED BY <2>6, <3>1, <4>1
        <3> QED BY <1>0, <1>2, <2>0, <2>6, <3>2 DEF FailsRule
    <2>10. OverRule'
        BY <1>0, <2>0, <2>5 DEF OverRule, Over, Excess
    <2> QED BY <2>7, <2>8, <2>9, <2>10 DEF LimitIInv
<1> QED BY <1>1, <1>2 DEF Verify

(* One more failure of the account: over the limit if this store was at it. *)
LEMMA AccountSteps == ASSUME LimitIInv, NEW l \in Logins, CountAccount(l) PROVE LimitIInv'
<1>0. LimitTypeOK /\ MarkRule /\ FailsRule /\ OverRule
    BY DEF LimitIInv
<1>1. limLogin[l].at = "count account" /\ UNCHANGED <<limRow, limFails, limCleared>>
    BY DEF CountAccount
<1>2. PICK s \in LimitStores :
         /\ Store(s)
         /\ limCount' = [limCount EXCEPT ![s].account = @ + 1]
         /\ limLogin' = [limLogin EXCEPT ![l].at = "save failure",
                                         ![l].failures = limCount[s].account + 1]
    BY DEF CountAccount, LimitStores
<1> DEFINE x == [limLogin[l] EXCEPT !.at = "save failure", !.failures = limCount[s].account + 1]
           n == limCount[s].account
<1>3. n \in Nat /\ \A t \in LimitStores : limCount[t].account \in Nat
    BY <1>0 DEF LimitTypeOK, Counters
<1>4. x \in LoginState /\ x.at = "save failure" /\ x.failures = n + 1
    <2>1. limLogin[l] \in LoginState /\ limCount[s].account + 1 \in Nat
        BY <1>0, <1>3 DEF LimitTypeOK
    <2> QED BY <2>1 DEF LoginState
<1>5. limLogin' = [limLogin EXCEPT ![l] = x]
    BY <1>0, <1>2 DEF LimitTypeOK
<1>6. /\ limCount' \in [LimitStores -> [Counters -> Nat]] /\ limCount'[s].account = n + 1
      /\ \A t \in LimitStores \ {s} : limCount'[t].account = limCount[t].account
    <2>1. limCount' = [limCount EXCEPT ![s] = [limCount[s] EXCEPT !.account = n + 1]]
        BY <1>0, <1>2 DEF LimitTypeOK
    <2>2. [limCount[s] EXCEPT !.account = n + 1] \in [Counters -> Nat]
        BY <1>0, <1>3 DEF LimitTypeOK, Counters
    <2>3. [limCount[s] EXCEPT !.account = n + 1].account = n + 1
        BY <1>0 DEF LimitTypeOK, Counters
    <2> QED BY <1>0, <2>1, <2>2, <2>3 DEF LimitTypeOK
<1> HIDE DEF x, n
<1>7. /\ limLogin' \in [Logins -> LoginState] /\ limLogin'[l] = x
      /\ \A m \in Logins \ {l} : limLogin'[m] = limLogin[m]
    BY <1>0, <1>4, <1>5 DEF LimitTypeOK
<1>8. l \in Counting /\ l \in Through /\ l \notin Late
    BY <1>1 DEF Counting, Through, Late
<1>9. Counting' = Counting \ {l} /\ Through' = Through \ {l}
      /\ Late' = IF n + 1 >= AccountMax THEN Late \cup {l} ELSE Late
    <2>1. Counting' = Counting \ {l}
        BY <1>4, <1>7 DEF Counting
    <2>2. Through' = Through \ {l}
        BY <1>4, <1>7 DEF Through
    <2>3. Late' = IF n + 1 >= AccountMax THEN Late \cup {l} ELSE Late
        BY <1>4, <1>7, <1>8 DEF Late
    <2> QED BY <2>1, <2>2, <2>3
<1>10. /\ Cardinality(Counting') = Cardinality(Counting) - 1 /\ Cardinality(Counting) \in Nat
       /\ Cardinality(Through') = Cardinality(Through) - 1 /\ Cardinality(Through) \in Nat
    BY <1>8, <1>9, LimitSets, LoginCount
<1>11. Cardinality(Late') = IF n + 1 >= AccountMax THEN Cardinality(Late) + 1 ELSE Cardinality(Late)
    BY <1>8, <1>9, LimitSets, LoginCount
<1>12. Over' = IF n + 1 >= AccountMax THEN Over + 1 ELSE Over
    <2>1. Excess(s)' = IF n + 1 >= AccountMax THEN Excess(s) + 1 ELSE Excess(s)
        BY <1>3, <1>6, LoginLimitsAssumption DEF Excess, n
    <2>2. \A t \in LimitStores \ {s} : Excess(t)' = Excess(t)
        BY <1>6 DEF Excess
    <2>3. \A t \in LimitStores : Excess(t) \in Nat
        BY <1>3, LoginLimitsAssumption DEF Excess
    <2>4. s \in {"redis", "sql"}
        BY DEF LimitStores
    <2>5. CASE s = "redis"
        <3>1. Excess("sql")' = Excess("sql") /\ Excess("sql") \in Nat /\ Excess("redis") \in Nat
            BY <2>2, <2>3, <2>5 DEF LimitStores
        <3>2. Excess("redis")' = IF n + 1 >= AccountMax THEN Excess("redis") + 1 ELSE Excess("redis")
            BY <2>1, <2>5
        <3> QED BY <3>1, <3>2 DEF Over
    <2>6. CASE s = "sql"
        <3>1. Excess("redis")' = Excess("redis") /\ Excess("sql") \in Nat /\ Excess("redis") \in Nat
            BY <2>2, <2>3, <2>6 DEF LimitStores
        <3>2. Excess("sql")' = IF n + 1 >= AccountMax THEN Excess("sql") + 1 ELSE Excess("sql")
            BY <2>1, <2>6
        <3> QED BY <3>1, <3>2 DEF Over
    <2> QED BY <2>4, <2>5, <2>6
<1>13. LimitTypeOK'
    <2>1. limFault' \in BOOLEAN
        BY <1>0, <1>2, StoreFaultType
    <2> QED BY <1>0, <1>1, <1>6, <1>7, <2>1 DEF LimitTypeOK
<1>14. MarkRule'
    BY <1>0, <1>1, <1>4, <1>7 DEF MarkRule
<1>15. FailsRule'
    <2>1. ~limFault' => limCount'["sql"].account = 0
        BY <1>0, <1>2, <1>6 DEF FailsRule, Store, LimitStores
    <2>2. limCount'["redis"].account + limCount'["sql"].account
             = limCount["redis"].account + limCount["sql"].account + 1
        <3>1. s \in {"redis", "sql"} /\ "redis" \in LimitStores /\ "sql" \in LimitStores
            BY DEF LimitStores
        <3>2. CASE s = "redis"
            BY <1>3, <1>6, <3>1, <3>2 DEF n
        <3>3. CASE s = "sql"
            BY <1>3, <1>6, <3>1, <3>3 DEF n
        <3> QED BY <3>1, <3>2, <3>3
    <2>3. limCount["redis"].account \in Nat /\ limCount["sql"].account \in Nat
        BY <1>3 DEF LimitStores
    <2>4. ASSUME ~limCleared'
          PROVE  limFails' = limCount'["redis"].account + limCount'["sql"].account
                             + Cardinality(Counting')
        <3>1. limFails = limCount["redis"].account + limCount["sql"].account + Cardinality(Counting)
            BY <1>0, <1>1, <2>4 DEF FailsRule
        <3>2. limFails' = limFails
            BY <1>1
        <3>3. limFails = (limCount["redis"].account + limCount["sql"].account + 1) + (Cardinality(Counting) - 1)
            BY <1>10, <2>3, <3>1
        <3> QED BY <1>10, <2>2, <3>2, <3>3
    <2> QED BY <2>1, <2>4 DEF FailsRule
<1>16. OverRule'
    <2>1. Over \in Nat /\ Cardinality(Logins) \in Nat
        BY <1>0, OverIsNat, LimitSets, LoginCount
    <2> SUFFICES ASSUME ~limCleared' PROVE OverRule'
        BY DEF OverRule
    <2>2. ~limCleared /\ limRow' = limRow
        BY <1>1
    <2>3. CASE limRow.locked
        <3>1. Over + Cardinality(Through) <= Cardinality(Logins)
            BY <1>0, <2>2, <2>3 DEF OverRule
        <3>2. Over' + Cardinality(Through') <= Cardinality(Logins)
            BY <1>10, <1>12, <2>1, <3>1
        <3> QED BY <2>2, <2>3, <3>2 DEF OverRule
    <2>4. CASE ~limRow.locked
        <3>1. Over = Cardinality(Late)
            BY <1>0, <2>2, <2>4 DEF OverRule
        <3>2. Over' = Cardinality(Late')
            BY <1>11, <1>12, <3>1
        <3> QED BY <2>2, <2>4, <3>2 DEF OverRule
    <2> QED BY <2>3, <2>4
<1> QED BY <1>13, <1>14, <1>15, <1>16 DEF LimitIInv

(* The lock is set by a login that counted one too many: it leaves the late *)
(* ones, and those on their way past the check are none of them.           *)
LEMMA SaveSteps == ASSUME LimitIInv, NEW l \in Logins, SaveFailure(l) PROVE LimitIInv'
<1>0. LimitTypeOK /\ MarkRule /\ FailsRule /\ OverRule
    BY DEF LimitIInv
<1>1. limLogin[l].at = "save failure" /\ UNCHANGED <<limCount, limFails, limFault, limCleared>>
    BY DEF SaveFailure
<1> DEFINE x == [NoLogin EXCEPT !.at = "idle"]
<1>2. x \in LoginState /\ x.at = "idle"
    BY AtRecord
<1>3. limLogin' = [limLogin EXCEPT ![l] = x]
    BY DEF SaveFailure, Goes
<1> HIDE DEF x
<1>4. /\ limLogin' \in [Logins -> LoginState] /\ limLogin'[l] = x
      /\ \A m \in Logins \ {l} : limLogin'[m] = limLogin[m]
    BY <1>0, <1>2, <1>3 DEF LimitTypeOK
<1>5. Counting' = Counting
    BY <1>1, <1>2, <1>4 DEF Counting
<1>6. Through' = Through
    BY <1>1, <1>2, <1>4 DEF Through
<1>7. Late' = Late \ {l} /\ (l \in Late <=> limLogin[l].failures >= AccountMax)
    BY <1>1, <1>2, <1>4 DEF Late
<1>8. PICK b \in BOOLEAN : /\ limRow' = [limRow EXCEPT !.locked = b]
                           /\ b <=> limRow.locked \/ limLogin[l].failures >= AccountMax
    BY Zenon DEF SaveFailure
<1>9. limRow' \in UserRow /\ (limRow'.locked <=> limRow.locked \/ l \in Late)
    <2>1. limRow' \in UserRow /\ limRow'.locked = b
        BY <1>0, <1>8 DEF LimitTypeOK, UserRow
    <2> QED BY <1>7, <1>8, <2>1, Zenon
<1>10. LimitTypeOK'
    BY <1>0, <1>1, <1>4, <1>9 DEF LimitTypeOK
<1>11. MarkRule'
    BY <1>0, <1>1, <1>2, <1>4 DEF MarkRule
<1>12. FailsRule'
    BY <1>0, <1>1, <1>5 DEF FailsRule
<1>13. Over' = Over
    BY <1>1 DEF Over, Excess
<1>14. OverRule'
    <2> SUFFICES ASSUME ~limCleared' PROVE OverRule'
        BY DEF OverRule
    <2>1. ~limCleared
        BY <1>1
    <2>2. CASE limRow.locked
        BY <1>0, <1>6, <1>9, <1>13, <2>1, <2>2 DEF OverRule
    <2>3. CASE ~limRow.locked /\ l \in Late
        <3>1. Over = Cardinality(Late)
            BY <1>0, <2>1, <2>3 DEF OverRule
        <3>2. Cardinality(Late) + Cardinality(Through) <= Cardinality(Logins)
            BY LimitSets, ApartSets
        <3> QED BY <1>6, <1>9, <1>13, <2>3, <3>1, <3>2 DEF OverRule
    <2>4. CASE ~limRow.locked /\ l \notin Late
        <3>1. Over = Cardinality(Late) /\ Late' = Late
            BY <1>0, <1>7, <2>1, <2>4 DEF OverRule
        <3> QED BY <1>9, <1>13, <2>4, <3>1 DEF OverRule
    <2> QED BY <2>2, <2>3, <2>4
<1> QED BY <1>10, <1>11, <1>12, <1>14 DEF LimitIInv

LEMMA ClearSteps == ASSUME LimitIInv, NEW l \in Logins, ClearAccount(l) PROVE LimitIInv'
<1>0. LimitTypeOK /\ FailsRule
    BY DEF LimitIInv
<1>1. PICK s \in LimitStores :
         /\ Store(s)
         /\ limCount' = [t \in LimitStores |-> IF t \in {s, "sql"}
                            THEN [limCount[t] EXCEPT !.account = 0] ELSE limCount[t]]
    BY DEF ClearAccount, LimitStores
<1>2. limCount' \in [LimitStores -> [Counters -> Nat]] /\ limCount'["sql"].account = 0
    BY <1>0, <1>1 DEF LimitTypeOK, LimitStores, Counters
<1>3. limLogin' \in [Logins -> LoginState]
    <2>1. [NoLogin EXCEPT !.at = "mark"] \in LoginState
        BY AtRecord
    <2> QED BY <1>0, <2>1 DEF ClearAccount, Goes, LimitTypeOK
<1>4. limFault' \in BOOLEAN
    BY <1>0, <1>1, StoreFaultType
<1>5. limCleared' = TRUE /\ UNCHANGED <<limRow, limFails>>
    BY DEF ClearAccount
<1>6. LimitTypeOK'
    BY <1>0, <1>2, <1>3, <1>4, <1>5 DEF LimitTypeOK
<1>7. MarkRule' /\ FailsRule' /\ OverRule'
    BY <1>2, <1>5 DEF MarkRule, FailsRule, OverRule
<1> QED BY <1>6, <1>7 DEF LimitIInv

(* Once a lock or a count was cleared, only types are left to keep. *)
LEMMA MarkSteps == ASSUME LimitIInv, NEW l \in Logins, MarkSuccess(l) PROVE LimitIInv'
<1>0. LimitTypeOK /\ MarkRule /\ FailsRule
    BY DEF LimitIInv
<1>1. limCleared /\ UNCHANGED <<limCount, limFails, limFault, limCleared>>
    BY <1>0 DEF MarkRule, MarkSuccess
<1>2. limLogin' \in [Logins -> LoginState]
    <2>1. [NoLogin EXCEPT !.at = "idle"] \in LoginState
        BY AtRecord
    <2> QED BY <1>0, <2>1 DEF MarkSuccess, Goes, LimitTypeOK
<1>3. limRow' \in UserRow
    BY <1>0 DEF MarkSuccess, LimitTypeOK, UserRow
<1>4. LimitTypeOK'
    BY <1>0, <1>1, <1>2, <1>3 DEF LimitTypeOK
<1>5. MarkRule' /\ FailsRule' /\ OverRule'
    BY <1>0, <1>1 DEF MarkRule, FailsRule, OverRule
<1> QED BY <1>4, <1>5 DEF LimitIInv

LEMMA ResetSteps == ASSUME LimitIInv, ResetPassword PROVE LimitIInv'
<1>0. LimitTypeOK /\ FailsRule
    BY DEF LimitIInv
<1>1. limCleared' = TRUE /\ UNCHANGED <<limCount, limLogin, limFails, limFault>>
    BY DEF ResetPassword
<1>2. limRow' \in UserRow
    BY <1>0 DEF ResetPassword, LimitTypeOK, UserRow
<1>3. LimitTypeOK'
    BY <1>0, <1>1, <1>2 DEF LimitTypeOK
<1>4. MarkRule' /\ FailsRule' /\ OverRule'
    BY <1>0, <1>1 DEF MarkRule, FailsRule, OverRule
<1> QED BY <1>3, <1>4 DEF LimitIInv

LEMMA StatusSteps == ASSUME LimitIInv, SetUserStatus PROVE LimitIInv'
<1>0. LimitTypeOK /\ MarkRule /\ FailsRule /\ OverRule
    BY DEF LimitIInv
<1>1. UNCHANGED <<limCount, limLogin, limFails, limFault, limCleared>>
    BY DEF SetUserStatus
<1>2. PICK b \in BOOLEAN : limRow' = [limRow EXCEPT !.active = b]
    BY Zenon DEF SetUserStatus
<1>3. limRow' \in UserRow /\ limRow'.locked = limRow.locked
    BY <1>0, <1>2 DEF LimitTypeOK, UserRow
<1>4. LimitTypeOK'
    BY <1>0, <1>1, <1>3 DEF LimitTypeOK
<1>5. MarkRule' /\ FailsRule'
    BY <1>0, <1>1 DEF MarkRule, FailsRule, Counting
<1>6. Over' = Over /\ Through' = Through /\ Late' = Late
    BY <1>1 DEF Over, Excess, Through, Late
<1>7. OverRule'
    BY <1>0, <1>1, <1>3, <1>6 DEF OverRule
<1> QED BY <1>4, <1>5, <1>7 DEF LimitIInv

(* With every login at rest the three sets are empty. *)
LEMMA RestSets ==
    ASSUME AtRest
    PROVE  Counting = {} /\ Through = {} /\ Late = {}
BY LimitStart DEF AtRest, Counting, Through, Late

LEMMA WindowSteps == ASSUME LimitIInv, WindowEnds PROVE LimitIInv'
<1>0. LimitTypeOK /\ MarkRule
    BY DEF LimitIInv
<1>1. AtRest /\ UNCHANGED <<limRow, limLogin, limFault, limCleared>> /\ limFails' = 0
    BY DEF WindowEnds
<1>2. Counting' = {} /\ Through' = {} /\ Late' = {}
    <2>1. Counting' = Counting /\ Through' = Through /\ Late' = Late
        BY <1>1 DEF Counting, Through, Late
    <2> QED BY <1>1, <2>1, RestSets
<1>3. /\ limCount' \in [LimitStores -> [Counters -> Nat]]
      /\ limCount'["redis"].account = 0 /\ limCount'["sql"].account = 0
    BY DEF WindowEnds, LimitStores, Counters
<1>4. LimitTypeOK'
    BY <1>0, <1>1, <1>3 DEF LimitTypeOK
<1>5. MarkRule'
    BY <1>0, <1>1 DEF MarkRule
<1>6. Cardinality({}) = 0 /\ Cardinality(Logins) \in Nat
    BY FS_EmptySet, LoginCount, LoginLimitsAssumption, FS_CardinalityType
<1>7. FailsRule'
    BY <1>1, <1>2, <1>3, <1>6 DEF FailsRule
<1>8. Over' = 0
    BY <1>3, LoginLimitsAssumption DEF Over, Excess
<1>9. OverRule'
    <2>1. Over' + Cardinality(Through') <= Cardinality(Logins) /\ Over' = Cardinality(Late')
        BY <1>2, <1>6, <1>8
    <2> QED BY <2>1 DEF OverRule
<1> QED BY <1>4, <1>5, <1>7, <1>9 DEF LimitIInv

LEMMA LockSteps == ASSUME LimitIInv, LockEnds PROVE LimitIInv'
<1>0. LimitTypeOK /\ MarkRule /\ FailsRule
    BY DEF LimitIInv
<1>1. AtRest /\ UNCHANGED <<limCount, limLogin, limFails, limFault, limCleared>>
    BY DEF LockEnds
<1>2. limRow' \in UserRow /\ limRow'.locked = FALSE
    BY <1>0 DEF LockEnds, LimitTypeOK, UserRow
<1>3. LimitTypeOK'
    BY <1>0, <1>1, <1>2 DEF LimitTypeOK
<1>4. MarkRule' /\ FailsRule'
    BY <1>0, <1>1 DEF MarkRule, FailsRule, Counting
<1>5. Late' = {} /\ Over' = 0
    <2>1. Late' = Late
        BY <1>1 DEF Late
    <2>2. limCount'["redis"].account = 0 /\ limCount'["sql"].account = 0
        BY DEF LockEnds
    <2> QED BY <1>1, <2>1, <2>2, RestSets, LoginLimitsAssumption DEF Over, Excess
<1>6. OverRule'
    BY <1>2, <1>5, FS_EmptySet DEF OverRule
<1> QED BY <1>3, <1>4, <1>6 DEF LimitIInv

LEMMA LimitInvariant == LimitSpec => []LimitIInv
<1>1. LimitIInv /\ [LimitNext]_limVars => LimitIInv'
    <2> SUFFICES ASSUME LimitIInv, [LimitNext]_limVars PROVE LimitIInv'
        OBVIOUS
    <2>1. CASE LimitNext
        BY <2>1, ReadSteps, CheckSteps, VerifySteps, SourceSteps, AccountSteps, SaveSteps, ClearSteps,
           MarkSteps, ResetSteps, StatusSteps, WindowSteps, LockSteps DEF LimitNext
    <2>2. CASE UNCHANGED limVars
        BY <2>2 DEF limVars, LimitIInv, LimitTypeOK, MarkRule, FailsRule, OverRule, Counting, Through,
                    Late, Over, Excess
    <2> QED BY <2>1, <2>2
<1> QED BY <1>1, LimitInitially, PTL DEF LimitSpec

(* However logins race for an account, its failures exceed the limit by    *)
(* less than the logins that race (twice the limit once Redis fails), and  *)
(* the account is locked when they rest.                                   *)
THEOREM LoginLimitHolds == LimitSpec => []LimitHolds
<1>1. ASSUME LimitIInv PROVE CountedIsLocked
    <2> SUFFICES ASSUME AtRest, ~limCleared, NEW s \in LimitStores, limCount[s].account >= AccountMax
                 PROVE  limRow.locked
        BY DEF CountedIsLocked, LimitStores
    <2>1. Late = {} /\ Cardinality({}) = 0
        BY RestSets, FS_EmptySet
    <2>2. limCount["redis"].account \in Nat /\ limCount["sql"].account \in Nat
        BY <1>1 DEF LimitIInv, LimitTypeOK, LimitStores, Counters
    <2>3. Over # 0
        <3>1. Excess(s) > 0 /\ Excess("redis") \in Nat /\ Excess("sql") \in Nat
            BY <2>2, LoginLimitsAssumption DEF Excess, LimitStores
        <3> QED BY <3>1 DEF Over, LimitStores
    <2> QED BY <1>1, <2>1, <2>3 DEF LimitIInv, OverRule
<1>2. ASSUME LimitIInv PROVE FailuresWithinLimit
    <2> SUFFICES ASSUME ~limCleared
                 PROVE  limFails <= (IF limFault THEN 2 ELSE 1) * (AccountMax - 1)
                                    + Cardinality(Logins)
        BY DEF FailuresWithinLimit
    <2> DEFINE r == limCount["redis"].account
               q == limCount["sql"].account
    <2>1. r \in Nat /\ q \in Nat
        BY <1>2 DEF LimitIInv, LimitTypeOK, LimitStores, Counters
    <2>2. limFails = r + q + Cardinality(Counting) /\ (~limFault => q = 0)
        BY <1>2 DEF LimitIInv, FailsRule
    <2>3. /\ Cardinality(Counting) \in Nat /\ Cardinality(Logins) \in Nat
          /\ Over + Cardinality(Counting) <= Cardinality(Logins)
        <3>1. Counting \in SUBSET Through /\ Counting \in SUBSET Logins /\ Late \cap Counting = {}
            BY DEF Counting, Through, Late
        <3>2. Cardinality(Counting) \in Nat /\ Cardinality(Logins) \in Nat
            BY <3>1, LessSets
        <3>3. CASE limRow.locked
            <4>1. Over + Cardinality(Through) <= Cardinality(Logins)
                BY <1>2, <3>3 DEF LimitIInv, OverRule
            <4>2. Cardinality(Counting) <= Cardinality(Through) /\ Cardinality(Through) \in Nat
                BY <3>1, LimitSets, LessSets
            <4>3. Over \in Nat
                BY <1>2, OverIsNat DEF LimitIInv
            <4> QED BY <3>2, <4>1, <4>2, <4>3
        <3>4. CASE ~limRow.locked
            <4>1. Over = Cardinality(Late)
                BY <1>2, <3>4 DEF LimitIInv, OverRule
            <4>2. Cardinality(Late) + Cardinality(Counting) <= Cardinality(Logins)
                BY <3>1, LimitSets, ApartSets
            <4> QED BY <3>2, <4>1, <4>2
        <3> QED BY <3>3, <3>4
    <2>4. r <= AccountMax - 1 + Excess("redis") /\ q <= AccountMax - 1 + Excess("sql")
          /\ Excess("redis") \in Nat /\ Excess("sql") \in Nat
        BY <2>1, LoginLimitsAssumption DEF Excess
    <2>5. AccountMax - 1 \in Nat
        BY LoginLimitsAssumption
    <2> HIDE DEF r, q
    <2>6. CASE limFault
        BY <2>1, <2>2, <2>3, <2>4, <2>5, <2>6 DEF Over
    <2>7. CASE ~limFault
        BY <2>1, <2>2, <2>3, <2>4, <2>5, <2>7 DEF Over
    <2> QED BY <2>6, <2>7
<1>3. LimitIInv => LimitHolds
    BY <1>1, <1>2 DEF LimitHolds
<1> QED BY <1>3, LimitInvariant, PTL

-----------------------------------------------------------------------------
(* WorkerLeases: the row, its leases and the sweeps.                       *)

(* A sweep reads lapsed rows, so an attempt it still finds lapsed at the   *)
(* time of its read is the attempt it read: each later start or renewal    *)
(* gives an expiry beyond that time.                                       *)
SweepsReadThePast ==
    \A s \in Sweepers : lsSweep[s] # NoSweep =>
        /\ lsSweep[s].at <= lsClock
        /\ lsStatus = "running" /\ lsExpires < lsSweep[s].at => lsSweep[s].attempt = lsAttempt

LeaseIInv == /\ LeaseTypeOK /\ QueuedIsRunnable
             /\ HolderStartedAttempt /\ SweepsReadThePast

USE WorkerLeasesAssumption

LEMMA SweepRecord ==
    ASSUME LeaseTypeOK, NEW s \in Sweepers, lsSweep[s] # NoSweep
    PROVE  lsSweep[s].at \in Nat /\ lsSweep[s].attempt \in Nat
BY DEF LeaseTypeOK

LEMMA LeaseInitially == LeaseInit => LeaseIInv
<1> SUFFICES ASSUME LeaseInit PROVE LeaseIInv
    OBVIOUS
<1>1. LeaseTypeOK
    BY DEF LeaseInit, LeaseTypeOK
<1>2. QueuedIsRunnable /\ HolderStartedAttempt /\ SweepsReadThePast
    BY DEF LeaseInit, QueuedIsRunnable, HolderStartedAttempt, SweepsReadThePast
<1> QED BY <1>1, <1>2 DEF LeaseIInv

LEMMA StartKeeps ==
    ASSUME LeaseIInv, NEW w \in LeaseWorkers, Start(w) PROVE LeaseIInv'
<1>1. LeaseTypeOK'
    BY DEF LeaseIInv, LeaseTypeOK, Start
<1>2. QueuedIsRunnable'
    BY DEF Start, QueuedIsRunnable
<1>3. HolderStartedAttempt'
    BY DEF LeaseIInv, LeaseTypeOK, Start, HolderStartedAttempt
<1>4. SweepsReadThePast'
    <2> SUFFICES ASSUME NEW s \in Sweepers, lsSweep[s] # NoSweep
                 PROVE  lsSweep[s].at <= lsClock /\ ~(lsClock + LeaseSeconds < lsSweep[s].at)
        BY DEF Start, SweepsReadThePast
    <2>1. lsSweep[s].at <= lsClock /\ lsSweep[s].at \in Nat /\ lsClock \in Nat
        BY SweepRecord DEF LeaseIInv, SweepsReadThePast, LeaseTypeOK
    <2> QED BY <2>1
<1> QED BY <1>1, <1>2, <1>3, <1>4 DEF LeaseIInv

LEMMA HeartbeatKeeps ==
    ASSUME LeaseIInv, NEW w \in LeaseWorkers, Heartbeat(w) PROVE LeaseIInv'
<1>1. LeaseTypeOK'
    BY DEF LeaseIInv, LeaseTypeOK, Heartbeat
<1>2. QueuedIsRunnable' /\ HolderStartedAttempt'
    BY DEF LeaseIInv, Heartbeat, QueuedIsRunnable, HolderStartedAttempt
<1>3. SweepsReadThePast'
    <2> SUFFICES ASSUME NEW s \in Sweepers, lsSweep[s] # NoSweep
                 PROVE  lsSweep[s].at <= lsClock /\ ~(lsClock + LeaseSeconds < lsSweep[s].at)
        BY DEF Heartbeat, SweepsReadThePast
    <2>1. lsSweep[s].at <= lsClock /\ lsSweep[s].at \in Nat /\ lsClock \in Nat
        BY SweepRecord DEF LeaseIInv, SweepsReadThePast, LeaseTypeOK
    <2> QED BY <2>1
<1> QED BY <1>1, <1>2, <1>3 DEF LeaseIInv

LEMMA FinishKeeps ==
    ASSUME LeaseIInv, NEW w \in LeaseWorkers, Finish(w) PROVE LeaseIInv'
<1>1. LeaseTypeOK'
    BY DEF LeaseIInv, LeaseTypeOK, Finish, AfterFailure
<1>2. QueuedIsRunnable'
    BY DEF LeaseIInv, LeaseTypeOK, Finish, AfterFailure, QueuedIsRunnable
<1>3. HolderStartedAttempt'
    BY DEF Finish, AfterFailure, HolderStartedAttempt
<1>4. SweepsReadThePast'
    BY DEF LeaseIInv, Finish, AfterFailure, SweepsReadThePast
<1> QED BY <1>1, <1>2, <1>3, <1>4 DEF LeaseIInv

LEMMA ReadKeeps ==
    ASSUME LeaseIInv, NEW s \in Sweepers, ReadLapsed(s) PROVE LeaseIInv'
<1>1. LeaseTypeOK'
    <2>1. [at |-> lsClock, attempt |-> lsAttempt] \in [at : Nat, attempt : Nat]
        BY DEF LeaseIInv, LeaseTypeOK
    <2> QED BY <2>1 DEF LeaseIInv, LeaseTypeOK, ReadLapsed
<1>2. QueuedIsRunnable' /\ HolderStartedAttempt'
    BY DEF LeaseIInv, ReadLapsed, QueuedIsRunnable, HolderStartedAttempt
<1>3. SweepsReadThePast'
    <2> SUFFICES ASSUME NEW r \in Sweepers, lsSweep'[r] # NoSweep
                 PROVE  /\ lsSweep'[r].at <= lsClock
                        /\ lsStatus = "running" /\ lsExpires < lsSweep'[r].at
                              => lsSweep'[r].attempt = lsAttempt
        BY DEF ReadLapsed, SweepsReadThePast
    <2>1. CASE r = s
        BY <2>1 DEF LeaseIInv, LeaseTypeOK, ReadLapsed
    <2>2. CASE r # s
        BY <2>2 DEF LeaseIInv, LeaseTypeOK, ReadLapsed, SweepsReadThePast
    <2> QED BY <2>1, <2>2
<1> QED BY <1>1, <1>2, <1>3 DEF LeaseIInv

(* The attempts a sweep read are those of the row it takes back.           *)
LEMMA TakeBackKeeps ==
    ASSUME LeaseIInv, NEW s \in Sweepers, TakeBack(s) PROVE LeaseIInv'
<1>1. LeaseTypeOK'
    BY DEF LeaseIInv, LeaseTypeOK, TakeBack, AfterFailure
<1>2. CASE lsStatus = "running" /\ lsExpires < lsSweep[s].at
    <2>1. lsSweep[s].attempt = lsAttempt
        BY <1>2 DEF LeaseIInv, SweepsReadThePast, TakeBack
    <2>2. lsStatus' = AfterFailure(lsAttempt) /\ lsAttempt' = lsAttempt
        BY <1>2, <2>1 DEF TakeBack
    <2>3. QueuedIsRunnable' /\ HolderStartedAttempt'
        BY <2>2 DEF LeaseIInv, LeaseTypeOK, AfterFailure, QueuedIsRunnable, HolderStartedAttempt
    <2>4. SweepsReadThePast'
        BY <2>2 DEF LeaseIInv, LeaseTypeOK, TakeBack, AfterFailure, SweepsReadThePast
    <2> QED BY <1>1, <2>3, <2>4 DEF LeaseIInv
<1>3. CASE ~(lsStatus = "running" /\ lsExpires < lsSweep[s].at)
    <2>1. UNCHANGED <<lsStatus, lsWorker, lsExpires, lsAttempt, lsStarted, lsClock>>
        BY <1>3 DEF TakeBack
    <2>2. QueuedIsRunnable' /\ HolderStartedAttempt'
        BY <2>1 DEF LeaseIInv, QueuedIsRunnable, HolderStartedAttempt
    <2>3. SweepsReadThePast'
        BY <2>1 DEF LeaseIInv, LeaseTypeOK, TakeBack, SweepsReadThePast
    <2> QED BY <1>1, <2>2, <2>3 DEF LeaseIInv
<1> QED BY <1>2, <1>3

LEMMA TickKeeps == ASSUME LeaseIInv, Tick PROVE LeaseIInv'
<1>1. LeaseTypeOK'
    BY DEF LeaseIInv, LeaseTypeOK, Tick
<1>2. QueuedIsRunnable' /\ HolderStartedAttempt'
    BY DEF LeaseIInv, Tick, QueuedIsRunnable, HolderStartedAttempt
<1>3. SweepsReadThePast'
    BY SweepRecord DEF LeaseIInv, LeaseTypeOK, Tick, SweepsReadThePast
<1> QED BY <1>1, <1>2, <1>3 DEF LeaseIInv

LEMMA LeaseStep == LeaseIInv /\ [LeaseNext]_lsVars => LeaseIInv'
<1> SUFFICES ASSUME LeaseIInv, [LeaseNext]_lsVars PROVE LeaseIInv'
    OBVIOUS
<1>1. CASE \E w \in LeaseWorkers : Start(w) \/ Heartbeat(w) \/ Finish(w)
    BY <1>1, StartKeeps, HeartbeatKeeps, FinishKeeps
<1>2. CASE \E s \in Sweepers : ReadLapsed(s) \/ TakeBack(s)
    BY <1>2, ReadKeeps, TakeBackKeeps
<1>3. CASE Tick
    BY <1>3, TickKeeps
<1>4. CASE UNCHANGED lsVars
    BY <1>4 DEF LeaseIInv, LeaseTypeOK, QueuedIsRunnable, HolderStartedAttempt,
                SweepsReadThePast, lsVars
<1> QED BY <1>1, <1>2, <1>3, <1>4 DEF LeaseNext

LEMMA LeaseInvariant == LeaseSpec => []LeaseIInv
BY LeaseInitially, LeaseStep, PTL DEF LeaseSpec

(* No job is left queued with its attempts used up, although the sweep of  *)
(* WorkerControl.requeue_expired compares attempts it read earlier.        *)
THEOREM QueuedJobsAreRunnable == LeaseSpec => []QueuedIsRunnable
<1>1. LeaseIInv => QueuedIsRunnable
    BY DEF LeaseIInv
<1> QED BY <1>1, LeaseInvariant, PTL

(* The attempt in the row is the one its worker started: late workers hold *)
(* nothing.                                                                *)
THEOREM HoldersStartedTheirAttempt == LeaseSpec => []HolderStartedAttempt
<1>1. LeaseIInv => HolderStartedAttempt
    BY DEF LeaseIInv
<1> QED BY <1>1, LeaseInvariant, PTL

(* The types of the row, of the leases and of the sweeps. *)
THEOREM LeaseTypesHold == LeaseSpec => []LeaseTypeOK
<1>1. LeaseIInv => LeaseTypeOK
    BY DEF LeaseIInv
<1> QED BY <1>1, LeaseInvariant, PTL

LEMMA SweepsTakeLapsed ==
    ASSUME LeaseIInv, [LeaseNext]_lsVars, NEW s \in Sweepers,
           lsSweep[s] # NoSweep, lsSweep'[s] = NoSweep, lsStatus' # lsStatus
    PROVE  lsExpires < lsClock /\ lsSweep[s].attempt = lsAttempt
<1>1. PICK r \in Sweepers : TakeBack(r)
    BY DEF LeaseNext, lsVars, Start, Heartbeat, Finish, ReadLapsed, Tick, LeaseIInv, LeaseTypeOK
<1>2. r = s
    BY <1>1 DEF TakeBack, LeaseIInv, LeaseTypeOK
<1>3. lsStatus = "running" /\ lsExpires < lsSweep[s].at
    BY <1>1, <1>2 DEF TakeBack
<1>4. lsSweep[s].at <= lsClock /\ lsSweep[s].attempt = lsAttempt
    BY <1>3 DEF LeaseIInv, SweepsReadThePast
<1> QED BY <1>3, <1>4, SweepRecord DEF LeaseIInv, LeaseTypeOK

(* A sweep takes back only what lapsed, at the attempt it read. *)
THEOREM SweepsTakeOnlyLapsed == LeaseSpec => OnlyLapsedTakenBack
<1>1. LeaseIInv /\ [LeaseNext]_lsVars
        => [\A s \in Sweepers :
              lsSweep[s] # NoSweep /\ lsSweep'[s] = NoSweep /\ lsStatus' # lsStatus
                 => lsExpires < lsClock /\ lsSweep[s].attempt = lsAttempt]_lsVars
    BY SweepsTakeLapsed
<1> QED BY <1>1, LeaseInvariant, PTL DEF LeaseSpec, OnlyLapsedTakenBack

-----------------------------------------------------------------------------
(* StandardData: what a source holds, the rows made of it and the snapshot. *)

(* The steps of a run, and those at which its rows have been named ...     *)
StdSteps == {"load", "fetch", "name", "validate", "write", "read", "store", "save",
             "compare", "failed"}
NamedSteps == {"validate", "write", "read", "store", "save", "compare"}

Part == [key : SheetKeys, rows : Seq(RawRows)]

StandardTypeOK ==
    /\ stSupply \in Supplies
    /\ stStep \in StdSteps
    /\ stHeld \in Seq(RawRows)
    /\ stPage \in Nat \ {0}
    /\ stGot \in Seq(Part)
    /\ stSteady \in BOOLEAN
    /\ stStep = "load" => stSupply.how \in Uploads
    /\ stStep = "fetch" => stSupply.how \notin Uploads

(* ... from the parts it has, which name each sheet once and hold no row   *)
(* with two values of a column; then accepted, written with their digest,  *)
(* and read back only as the digest says.                                  *)
StageRule ==
    /\ stStep \in NamedSteps =>
          /\ stData = Canonical(stSupply, stGot)
          /\ ~SheetsRefused(stSupply, stGot) /\ ~RowsUnfit(stSupply, stGot)
    /\ stStep \in NamedSteps \ {"validate"} => Accepted(stSupply, stGot, stData)
    /\ stStep \in NamedSteps \ {"validate", "write"} => stDigest = LinesOf(stData)
    /\ stStep \in {"store", "save", "compare"} => stRead = stDigest
    /\ stStep = "compare" => stRow = stDigest

(* The rows of a steady source that cuts full pages are gathered page by   *)
(* page, from the first one on.                                            *)
FetchRule ==
    stSupply.how = "paged" /\ stSteady /\ stSupply.cap >= PageSize =>
    /\ stHeld = stSupply.parts[1].rows
    /\ stStep = "fetch" =>
          Gathered = SubSeq(stHeld, 1, Lesser((stPage - 1) * stSupply.cap, Len(stHeld)))
    /\ stStep \notin {"fetch", "failed"} => Gathered = stHeld

StandardInv == StandardTypeOK /\ StageRule /\ FetchRule

(* A set of naturals has a least element.                                  *)
LessOnNat == {p \in Nat \X Nat : p[1] < p[2]}

LEMMA LessOnNatWellFounded == IsWellFoundedOn(LessOnNat, Nat)
BY NatLessThanWellFounded DEF LessOnNat, OpToRel

LEMMA LeastOf ==
    ASSUME NEW T \in SUBSET Nat, T # {}
    PROVE  \E x \in T : \A y \in T : x <= y
<1>1. PICK x \in T : \A y \in T : <<y, x>> \notin LessOnNat
    BY LessOnNatWellFounded, WFMin
<1>2. \A y \in T : ~(y < x)
    BY <1>1 DEF LessOnNat
<1> QED BY <1>1, <1>2

(* A supply has a part at least, and its parts are rows under a key.       *)
LEMMA SupplyShape ==
    ASSUME NEW g \in Supplies
    PROVE  /\ g.parts \in Seq(Part) /\ g.cap \in Nat \ {0} /\ g.sheets \subseteq Sheets
           /\ g.how \in {"csv", "list", "object", "paged", "whole", "book"}
           /\ g.how \notin Several => Len(g.parts) = 1 /\ g.parts[1] \in Part
<1>1. g \in Supply
    BY StandardDataAssumption
<1>2. g.parts \in Seq(Part) /\ g.cap \in Nat \ {0} /\ g.sheets \subseteq Sheets
      /\ g.how \in {"csv", "list", "object", "paged", "whole", "book"}
    BY <1>1 DEF Supply, Part
<1>3. g.how \notin Several => Len(g.parts) = 1
    BY StandardDataAssumption
<1> QED BY <1>2, <1>3, ElementOfSeq

(* The first of the fields that are named as a column is one of them.      *)
LEMMA FirstIsMatched ==
    ASSUME NEW c \in DOMAIN Rank, NEW row \in RawRows, Matched(c, row) # {}
    PROVE  First(c, row) \in Matched(c, row)
<1> DEFINE M == Matched(c, row)
<1> DEFINE R(i) == RankIn(c, row, i)
<1>1. row \in Seq([key : DOMAIN HeaderOf \cup {NoName}, value : Values])
    BY StandardDataAssumption
<1>2. \A i \in M : i \in Nat
    BY <1>1 DEF Matched
<1>3. \A i \in M : R(i) \in Nat
    <2> SUFFICES ASSUME NEW i \in M PROVE R(i) \in Nat
        OBVIOUS
    <2>1. row[i].key \in DOMAIN HeaderOf
        <3>1. i \in 1 .. Len(row) /\ row[i].key # NoName
            BY <1>1 DEF Matched
        <3>2. row[i] \in [key : DOMAIN HeaderOf \cup {NoName}, value : Values]
            BY <1>1, <3>1, ElementOfSeq
        <3> QED BY <3>1, <3>2
    <2>2. HeaderOf[row[i].key] \in DOMAIN Rank[c]
        BY <2>1, StandardDataAssumption
    <2> QED BY <2>2, StandardDataAssumption DEF RankIn
<1>4. PICK r \in {R(i) : i \in M} : \A q \in {R(i) : i \in M} : r <= q
    <2>1. {R(i) : i \in M} \in SUBSET Nat
        BY <1>3
    <2>2. {R(i) : i \in M} # {}
        OBVIOUS
    <2> HIDE DEF R, M
    <2> QED BY <2>1, <2>2, LeastOf
<1>5. PICK k \in {i \in M : R(i) = r} : \A j \in {i \in M : R(i) = r} : k <= j
    <2>1. {i \in M : R(i) = r} \in SUBSET Nat
        BY <1>2
    <2>2. {i \in M : R(i) = r} # {}
        BY <1>4
    <2> HIDE DEF R, M
    <2> QED BY <2>1, <2>2, LeastOf
<1>6. k \in M /\ \A j \in M : R(k) < R(j) \/ (R(k) = R(j) /\ k <= j)
    <2> SUFFICES ASSUME NEW j \in M PROVE R(k) < R(j) \/ (R(k) = R(j) /\ k <= j)
        BY <1>5
    <2>1. CASE R(j) = r
        BY <1>5, <2>1
    <2>2. CASE R(j) # r
        <3> HIDE DEF R, M
        <3> QED BY <1>3, <1>4, <1>5, <2>2
    <2> QED BY <2>1, <2>2
<1> QED BY <1>6 DEF First

(* The rows of a part are those of its sheet.                              *)
LEMMA PartOfItsSheet ==
    ASSUME NEW g \in Supplies, NEW parts \in Seq(Part), ~SheetsRefused(g, parts),
           NEW p \in DOMAIN parts
    PROVE  /\ SheetOf(g, parts[p].key) \in Sheets
           /\ PartOf(g, parts, SheetOf(g, parts[p].key)) = p
<1> DEFINE s == SheetOf(g, parts[p].key)
<1>1. s \in Owners(g, parts[p].key)
    BY DEF SheetsRefused, SheetOf
<1>2. s \in Sheets
    BY <1>1, SupplyShape DEF Owners
<1>3. \A q \in DOMAIN parts : SheetOf(g, parts[q].key) = s => q = p
    BY DEF SheetsRefused
<1>4. PartOf(g, parts, s) = p
    BY <1>3 DEF PartOf
<1> QED BY <1>2, <1>4

(* Each value of a named row means what every field of the row that is     *)
(* named as its column says.                                               *)
LEMMA RowSaysTheSame ==
    ASSUME NEW s \in Sheets, NEW row \in RawRows, ~Conflict(s, row),
           NEW c \in ColumnsOf[s], NEW f \in Matched(c, row)
    PROVE  /\ c \in DOMAIN CanonicalRow(s, row)
           /\ SameMeaning(c, row[f].value, CanonicalRow(s, row)[c])
<1>1. c \in DOMAIN Rank
    BY StandardDataAssumption
<1>2. First(c, row) \in Matched(c, row)
    BY <1>1, FirstIsMatched
<1>3. CanonicalRow(s, row)[c] = row[First(c, row)].value /\ c \in DOMAIN CanonicalRow(s, row)
    BY DEF CanonicalRow
<1>4. SameMeaning(c, row[f].value, row[First(c, row)].value)
    <2>1. CASE f = First(c, row)
        BY <2>1 DEF SameMeaning
    <2>2. CASE f # First(c, row)
        BY <1>2, <2>2 DEF Conflict
    <2> QED BY <2>1, <2>2
<1> QED BY <1>3, <1>4

(* A slice of the rows, and its length.                                    *)
LEMMA SliceOf ==
    ASSUME NEW held \in Seq(RawRows), NEW i \in Nat, NEW j \in 0 .. Len(held)
    PROVE  /\ SubSeq(held, i + 1, j) \in Seq(RawRows)
           /\ Len(SubSeq(held, i + 1, j)) = IF i < j THEN j - i ELSE 0
<1>1. \A k \in i + 1 .. j : held[k] \in RawRows
    BY ElementOfSeq
<1>2. i + 1 \in Int /\ j \in Int
    OBVIOUS
<1> DEFINE m == i + 1
<1>3. m \in Int /\ m = i + 1 /\ \A k \in m .. j : held[k] \in RawRows
    BY <1>1
<1> HIDE DEF m
<1>4. SubSeq(held, m, j) \in Seq(RawRows) /\ Len(SubSeq(held, m, j)) = IF m <= j THEN j - m + 1 ELSE 0
    BY <1>2, <1>3, SubSeqProperties
<1> QED BY <1>2, <1>3, <1>4

(* Two slices that meet.                                                   *)
LEMMA SlicesMeet ==
    \A held \in Seq(RawRows) : \A a, b \in Nat : a <= b =>
        SubSeq(held, 1, Lesser(a, Len(held))) \o SubSeq(held, a + 1, Lesser(b, Len(held)))
        = SubSeq(held, 1, Lesser(b, Len(held)))
<1> SUFFICES ASSUME NEW held \in Seq(RawRows), NEW a \in Nat, NEW b \in Nat, a <= b
             PROVE  SubSeq(held, 1, Lesser(a, Len(held))) \o SubSeq(held, a + 1, Lesser(b, Len(held)))
                    = SubSeq(held, 1, Lesser(b, Len(held)))
    OBVIOUS
<1> DEFINE l == Len(held)
<1>0. l \in Nat
    BY LenProperties
<1> DEFINE e == Lesser(b, l)
<1>1. e \in 0 .. l /\ (b <= l => e = b) /\ (b >= l => e = l)
    BY <1>0 DEF Lesser
<1>2. CASE a < l
    <2>1. Lesser(a, l) = a /\ a <= e
        BY <1>0, <1>1, <1>2 DEF Lesser
    <2>2. a \in 1 - 1 .. Len(held) /\ 1 \in 1 .. Len(held) + 1 /\ e \in a .. Len(held)
        BY <1>0, <1>1, <1>2, <2>1
    <2> HIDE DEF e
    <2>3. SubSeq(held, 1, a) \o SubSeq(held, a + 1, e) = SubSeq(held, 1, e)
        BY <2>2, ConcatAdjacentSubSeq
    <2> QED BY <2>1, <2>3 DEF e
<1>3. CASE ~(a < l)
    <2>1. Lesser(a, l) = l /\ e = l
        BY <1>0, <1>1, <1>3 DEF Lesser
    <2>2. SubSeq(held, 1, l) = held
        BY SubSeqFull
    <2>3. SubSeq(held, a + 1, l) = <<>>
        BY <1>0, <1>3, SubSeqEmpty
    <2>4. held \o <<>> = held
        BY ConcatEmptySeq
    <2> QED BY <2>1, <2>2, <2>3, <2>4
<1> QED BY <1>2, <1>3

(* A page shorter than asked for ends where the rows do.                   *)
LEMMA ShortIsLast ==
    ASSUME NEW a \in Nat, NEW b \in Nat, NEW l \in Nat, a <= b,
           NEW k, k = IF a < Lesser(b, l) THEN Lesser(b, l) - a ELSE 0, k < b - a
    PROVE  Lesser(b, l) = l
BY DEF Lesser

(* Page by page: what is gathered after a page is what the source has up   *)
(* to its end, and all of it when the page is the last.                    *)
LEMMA NextPage ==
    ASSUME NEW held \in Seq(RawRows), NEW n \in Nat \ {0}, NEW cap \in Nat \ {0}
    PROVE  LET rows == SubSeq(held, 1, Lesser((n - 1) * cap, Len(held)))
               page == SubSeq(held, (n - 1) * cap + 1, Lesser(n * cap, Len(held)))
           IN  /\ rows \o page = SubSeq(held, 1, Lesser(n * cap, Len(held)))
               /\ Len(page) \in Nat /\ Len(rows \o page) \in Nat
               /\ Len(page) < cap => rows \o page = held
               /\ Len(rows \o page) >= Len(held) => rows \o page = held
<1> DEFINE a == (n - 1) * cap
<1> DEFINE b == n * cap
<1> DEFINE l == Len(held)
<1> DEFINE e == Lesser(b, l)
<1> DEFINE page == SubSeq(held, a + 1, e)
<1> DEFINE all == SubSeq(held, 1, Lesser(a, l)) \o page
<1>1. a \in Nat /\ b \in Nat /\ b - a = cap /\ a <= b /\ l \in Nat
    OBVIOUS
<1>2. SubSeq(held, 1, l) = held
    BY SubSeqFull
<1> HIDE DEF a, b
<1>3. all = SubSeq(held, 1, e)
    <2>1. a \in Nat /\ b \in Nat /\ a <= b
        BY <1>1
    <2> QED BY <2>1, SlicesMeet, Zenon
<1>4. e \in 0 .. l
    BY <1>1 DEF Lesser
<1>5. Len(page) = IF a < e THEN e - a ELSE 0
    <2> HIDE DEF e
    <2> QED BY <1>1, <1>4, SliceOf
<1>6. Len(page) < cap => e = l
    <2> HIDE DEF page
    <2>1. Len(page) < b - a => e = l
        BY <1>1, <1>5, ShortIsLast
    <2> HIDE DEF e
    <2> QED BY <1>1, <2>1
<1>7. Len(all) = e
    <2>1. \A i \in Nat : i = 0 => Len(SubSeq(held, i + 1, e)) = IF i < e THEN e - i ELSE 0
        <3> HIDE DEF e
        <3> QED BY <1>4, SliceOf
    <2> HIDE DEF e, all
    <2>2. Len(SubSeq(held, 0 + 1, e)) = IF 0 < e THEN e - 0 ELSE 0
        BY <2>1, Zenon
    <2>3. 0 + 1 = 1 /\ (IF 0 < e THEN e - 0 ELSE 0) = e
        BY <1>4
    <2> QED BY <1>3, <2>2, <2>3, Zenon
<1>8. Len(page) \in Nat /\ Len(all) \in Nat
    <2> HIDE DEF e, page, all
    <2> QED BY <1>1, <1>4, <1>5, <1>7
<1>9. (Len(page) < cap => all = held) /\ (Len(all) >= l => all = held)
    <2> HIDE DEF page, all, e
    <2>1. e >= l => e = l
        BY <1>1, <1>4
    <2> QED BY <1>2, <1>3, <1>6, <1>7, <2>1
<1> QED BY <1>3, <1>8, <1>9, Zenon DEF a, b

(* -------------------------------- the steps -------------------------- *)

LEMMA StandardInitOK == StandardInit => StandardInv
<1> SUFFICES ASSUME StandardInit PROVE StandardInv
    OBVIOUS
<1>1. stSupply \in Supplies
    BY DEF StandardInit
<1> DEFINE g == stSupply
<1>2. stStep \in {"load", "fetch"} /\ (stStep = "load" <=> g.how \in Uploads)
    BY DEF StandardInit
<1>3. g.how = "paged" => g.parts[1].rows \in Seq(RawRows)
    BY <1>1, SupplyShape DEF Several, Part
<1>4. StandardTypeOK
    BY <1>1, <1>2, <1>3, EmptySeq DEF StandardInit, StandardTypeOK, StdSteps
<1>5. StageRule
    BY <1>2 DEF StageRule, NamedSteps
<1>6. FetchRule
    <2> SUFFICES ASSUME g.how = "paged", stSteady, g.cap >= PageSize PROVE
            /\ stHeld = g.parts[1].rows
            /\ stStep = "fetch" => Gathered = SubSeq(stHeld, 1, Lesser((stPage - 1) * g.cap, Len(stHeld)))
            /\ stStep \notin {"fetch", "failed"} => Gathered = stHeld
        BY DEF FetchRule
    <2>1. stHeld = g.parts[1].rows /\ stHeld \in Seq(RawRows)
        BY <1>3 DEF StandardInit
    <2>2. stStep = "fetch"
        BY <1>2 DEF Uploads
    <2>3. stPage = 1 /\ Gathered = <<>>
        BY DEF StandardInit, Gathered
    <2>4. g.cap \in Nat /\ Len(stHeld) \in Nat
        BY <1>1, <2>1, SupplyShape
    <2>5. Lesser((stPage - 1) * g.cap, Len(stHeld)) = 0
        BY <2>3, <2>4 DEF Lesser
    <2>6. SubSeq(stHeld, 1, 0) = <<>>
        BY SubSeqEmpty
    <2> QED BY <2>1, <2>2, <2>3, <2>5, <2>6
<1> QED BY <1>4, <1>5, <1>6 DEF StandardInv

(* A step that leaves the supply, the source and what was fetched alone.   *)
Untouched == UNCHANGED <<stSupply, stHeld, stPage, stGot, stSteady>>

LEMMA GatheredKept == Untouched => Gathered' = Gathered
BY DEF Untouched, Gathered

LEMMA FetchKept ==
    ASSUME FetchRule, Untouched,
           \/ stStep' = "failed" \/ stStep' = stStep
           \/ stStep \notin {"fetch", "failed"} /\ stStep' # "fetch"
    PROVE  FetchRule'
<1>1. Gathered' = Gathered
    BY GatheredKept
<1>2. /\ stSupply' = stSupply /\ stHeld' = stHeld /\ stPage' = stPage /\ stSteady' = stSteady
    BY DEF Untouched
<1> DEFINE pages(step, got) ==
        stSupply.how = "paged" /\ stSteady /\ stSupply.cap >= PageSize =>
        /\ stHeld = stSupply.parts[1].rows
        /\ step = "fetch" => got = SubSeq(stHeld, 1, Lesser((stPage - 1) * stSupply.cap, Len(stHeld)))
        /\ step \notin {"fetch", "failed"} => got = stHeld
<1>3. pages(stStep, Gathered)
    BY DEF FetchRule
<1>4. FetchRule' <=> pages(stStep', Gathered')
    BY <1>2 DEF FetchRule, Lesser
<1>5. pages(stStep', Gathered)
    BY <1>3
<1> QED BY <1>1, <1>4, <1>5

LEMMA StopOK ==
    ASSUME StandardInv, Stop("failed")
    PROVE  StandardInv'
<1>1. stStep' = "failed" /\ Untouched
    BY DEF Stop, Untouched
<1>2. StandardTypeOK'
    BY <1>1 DEF StandardInv, StandardTypeOK, Untouched, StdSteps
<1>3. StageRule'
    BY <1>1 DEF StageRule, NamedSteps
<1>4. FetchRule'
    BY <1>1, FetchKept DEF StandardInv
<1> QED BY <1>2, <1>3, <1>4 DEF StandardInv

(* A step of the stages: it goes on to the next, and its facts with it.    *)
LEMMA StagesKeep ==
    ASSUME StandardTypeOK, Untouched, stStep \in NamedSteps, stStep' \in NamedSteps
    PROVE  StandardTypeOK'
BY DEF StandardTypeOK, Untouched, StdSteps, NamedSteps

LEMMA LoadUploadOK == ASSUME StandardInv, LoadUpload PROVE StandardInv'
<1> DEFINE parts == stSupply.parts
<1>1. CASE Stop("failed")
    BY <1>1, StopOK
<1>2. CASE /\ ~SheetsRefused(stSupply, parts) /\ ~RowsUnfit(stSupply, parts)
           /\ stGot' = parts /\ stData' = Canonical(stSupply, parts) /\ stStep' = "validate"
           /\ UNCHANGED <<stSupply, stHeld, stPage, stSteady>>
    <2>1. parts \in Seq(Part) /\ stSupply.how \in Uploads
        BY SupplyShape DEF StandardInv, StandardTypeOK, LoadUpload
    <2>2. StandardTypeOK'
        BY <1>2, <2>1 DEF StandardInv, StandardTypeOK, StdSteps
    <2>3. StageRule'
        <3>1. stSupply' = stSupply
            BY <1>2
        <3> QED BY <1>2, <3>1 DEF StageRule, NamedSteps
    <2>4. FetchRule'
        <3>1. stSupply'.how # "paged"
            BY <1>2, <2>1 DEF Uploads
        <3> QED BY <3>1 DEF FetchRule
    <2> QED BY <2>2, <2>3, <2>4 DEF StandardInv
<1> QED BY <1>1, <1>2 DEF LoadUpload

LEMMA LoseRequestOK == ASSUME StandardInv, LoseRequest PROVE StandardInv'
<1>1. CASE Stop("failed")
    BY <1>1, StopOK
<1>2. CASE UNCHANGED <<stSupply, stStep, stHeld, stPage, stGot, stData, stFile, stDigest, stRead,
                       stObject, stRow, stSteady>>
    <2>1. Untouched /\ stStep' = stStep /\ stStep = "fetch"
        BY <1>2 DEF Untouched, LoseRequest
    <2>2. StandardTypeOK'
        BY <2>1 DEF StandardInv, StandardTypeOK, Untouched
    <2>3. StageRule'
        BY <2>1 DEF StageRule, NamedSteps
    <2>4. FetchRule'
        BY <2>1, FetchKept DEF StandardInv
    <2> QED BY <2>2, <2>3, <2>4 DEF StandardInv
<1> QED BY <1>1, <1>2 DEF LoseRequest

LEMMA ReceivePageOK == ASSUME StandardInv, ReceivePage PROVE StandardInv'
<1> DEFINE page == PageAt(stPage)
<1> DEFINE rows == Gathered \o page
<1>1. CASE Stop("failed")
    BY <1>1, StopOK
<1>2. CASE /\ stGot' = <<[key |-> stSupply.parts[1].key, rows |-> rows]>>
           /\ IF IsLast(page, rows) THEN stStep' = "name" /\ UNCHANGED stPage
              ELSE stPage' = stPage + 1 /\ UNCHANGED stStep
           /\ UNCHANGED <<stSupply, stHeld, stSteady>>
    <2>1. /\ stSupply \in Supplies /\ stHeld \in Seq(RawRows) /\ stPage \in Nat \ {0}
          /\ stSupply.how = "paged" /\ stStep = "fetch" /\ stGot \in Seq(Part)
        BY DEF StandardInv, StandardTypeOK, ReceivePage
    <2>2. stSupply.cap \in Nat \ {0} /\ stSupply.parts[1].key \in SheetKeys
        BY <2>1, SupplyShape DEF Several, Part
    <2>3. Gathered \in Seq(RawRows)
        <3>1. CASE stGot = <<>>
            BY <3>1, EmptySeq DEF Gathered
        <3>2. CASE stGot # <<>>
            <4>1. 1 \in 1 .. Len(stGot)
                BY <2>1, <3>2, EmptySeq
            <4>2. stGot[1] \in Part
                BY <2>1, <4>1, ElementOfSeq
            <4> QED BY <3>2, <4>2 DEF Part, Gathered
        <3> QED BY <3>1, <3>2
    <2>4. page \in Seq(RawRows)
        <3> DEFINE i == (stPage - 1) * stSupply.cap
        <3> DEFINE j == Lesser(stPage * stSupply.cap, Len(stHeld))
        <3>1. i \in Nat /\ stPage * stSupply.cap \in Nat /\ Len(stHeld) \in Nat
            BY <2>1, <2>2
        <3>2. j \in 0 .. Len(stHeld)
            BY <3>1 DEF Lesser
        <3>3. page = SubSeq(stHeld, i + 1, j)
            BY DEF PageAt
        <3> HIDE DEF i, j
        <3> QED BY <2>1, <3>1, <3>2, <3>3, SliceOf
    <2>5. rows \in Seq(RawRows)
        BY <2>3, <2>4, ConcatProperties
    <2>6. stGot' \in Seq(Part) /\ Gathered' = rows
        <3> HIDE DEF rows, page
        <3>1. [key |-> stSupply.parts[1].key, rows |-> rows] \in Part
            BY <2>2, <2>5 DEF Part
        <3> QED BY <1>2, <3>1 DEF Gathered
    <2>7. StandardTypeOK'
        BY <1>2, <2>1, <2>6 DEF StandardInv, StandardTypeOK, StdSteps
    <2>8. StageRule'
        BY <1>2, <2>1 DEF StageRule, NamedSteps
    <2>9. FetchRule'
        <3> DEFINE cap == stSupply.cap
        <3> SUFFICES ASSUME stSupply.how = "paged", stSteady, cap >= PageSize
                     PROVE  /\ stHeld = stSupply.parts[1].rows
                            /\ stStep' = "fetch" => rows = SubSeq(stHeld, 1, Lesser((stPage' - 1) * cap, Len(stHeld)))
                            /\ stStep' \notin {"fetch", "failed"} => rows = stHeld
            <4> DEFINE pages(step, n, got) ==
                    stSupply.how = "paged" /\ stSteady /\ cap >= PageSize =>
                    /\ stHeld = stSupply.parts[1].rows
                    /\ step = "fetch" => got = SubSeq(stHeld, 1, Lesser((n - 1) * cap, Len(stHeld)))
                    /\ step \notin {"fetch", "failed"} => got = stHeld
            <4>1. stSupply' = stSupply /\ stHeld' = stHeld /\ stSteady' = stSteady
                BY <1>2
            <4>2. FetchRule' <=> pages(stStep', stPage', Gathered')
                BY <4>1 DEF FetchRule, Lesser
            <4>3. FetchRule' <=> pages(stStep', stPage', rows)
                BY <2>6, <4>2
            <4> HIDE DEF rows, page
            <4> QED BY <4>3
        <3>1. /\ stHeld = stSupply.parts[1].rows
              /\ Gathered = SubSeq(stHeld, 1, Lesser((stPage - 1) * cap, Len(stHeld)))
            BY <2>1 DEF StandardInv, FetchRule
        <3>2. page = SubSeq(stHeld, (stPage - 1) * cap + 1, Lesser(stPage * cap, Len(stHeld)))
            BY DEF PageAt
        <3>3. /\ rows = SubSeq(stHeld, 1, Lesser(stPage * cap, Len(stHeld)))
              /\ Len(page) < cap => rows = stHeld
              /\ Len(rows) >= Len(stHeld) => rows = stHeld
              /\ Len(page) \in Nat
            <4>1. rows = SubSeq(stHeld, 1, Lesser((stPage - 1) * cap, Len(stHeld))) \o page
                BY <3>1
            <4> HIDE DEF rows, page, cap
            <4> QED BY <2>1, <2>2, <3>2, <4>1, NextPage, Zenon DEF cap
        <3> HIDE DEF rows, page
        <3>4. CASE IsLast(page, rows)
            <4>1. Len(page) < PageSize => Len(page) < cap
                BY <2>2, <3>3, StandardDataAssumption
            <4>2. rows = stHeld /\ stStep' = "name"
                BY <1>2, <3>3, <3>4, <4>1 DEF IsLast
            <4> QED BY <3>1, <4>2
        <3>5. CASE ~IsLast(page, rows)
            <4>1. stStep' = "fetch" /\ stPage' - 1 = stPage
                BY <1>2, <2>1, <3>5
            <4> QED BY <3>1, <3>3, <4>1
        <3> QED BY <3>4, <3>5
    <2> QED BY <2>7, <2>8, <2>9 DEF StandardInv
<1> QED BY <1>1, <1>2 DEF ReceivePage

LEMMA ReceiveWholeOK == ASSUME StandardInv, ReceiveWhole PROVE StandardInv'
<1>1. CASE Stop("failed")
    BY <1>1, StopOK
<1>2. CASE /\ stGot' = stSupply.parts /\ stStep' = "name"
           /\ UNCHANGED <<stSupply, stHeld, stPage, stSteady>>
    <2>1. stSupply \in Supplies /\ stSupply.how # "paged" /\ stSupply.how \notin Uploads
        BY DEF StandardInv, StandardTypeOK, ReceiveWhole, Uploads
    <2>2. StandardTypeOK'
        BY <1>2, <2>1, SupplyShape DEF StandardInv, StandardTypeOK, StdSteps
    <2>3. StageRule'
        BY <1>2 DEF StageRule, NamedSteps
    <2>4. FetchRule'
        BY <1>2, <2>1 DEF FetchRule
    <2> QED BY <2>2, <2>3, <2>4 DEF StandardInv
<1> QED BY <1>1, <1>2 DEF ReceiveWhole

LEMMA ChangeSourceOK == ASSUME StandardInv, ChangeSource PROVE StandardInv'
<1>0. PICK i \in DOMAIN stHeld :
        stHeld' \in {SubSeq(stHeld, 1, i - 1) \o SubSeq(stHeld, i + 1, Len(stHeld)),
                     SubSeq(stHeld, i, i) \o stHeld}
    BY DEF ChangeSource
<1>1. stHeld \in Seq(RawRows) /\ i \in 1 .. Len(stHeld) /\ Len(stHeld) \in Nat
    BY DEF StandardInv, StandardTypeOK
<1>2. \A m, n \in Int : 1 <= m /\ n <= Len(stHeld) => SubSeq(stHeld, m, n) \in Seq(RawRows)
    <2> SUFFICES ASSUME NEW m \in Int, NEW n \in Int, 1 <= m, n <= Len(stHeld)
                 PROVE  SubSeq(stHeld, m, n) \in Seq(RawRows)
        OBVIOUS
    <2>1. \A k \in m .. n : stHeld[k] \in RawRows
        BY <1>1, ElementOfSeq
    <2> QED BY <2>1, SubSeqProperties
<1>3. /\ SubSeq(stHeld, 1, i - 1) \in Seq(RawRows) /\ SubSeq(stHeld, i + 1, Len(stHeld)) \in Seq(RawRows)
      /\ SubSeq(stHeld, i, i) \in Seq(RawRows)
    <2>1. 1 \in Int /\ i - 1 \in Int /\ i + 1 \in Int /\ i \in Int /\ Len(stHeld) \in Int
          /\ 1 <= 1 /\ i - 1 <= Len(stHeld) /\ 1 <= i + 1 /\ Len(stHeld) <= Len(stHeld) /\ 1 <= i /\ i <= Len(stHeld)
        BY <1>1
    <2> QED BY <1>2, <2>1, Zenon
<1>4. stHeld' \in Seq(RawRows)
    <2>1. SubSeq(stHeld, 1, i - 1) \o SubSeq(stHeld, i + 1, Len(stHeld)) \in Seq(RawRows)
        BY <1>3, ConcatProperties, Zenon
    <2>2. SubSeq(stHeld, i, i) \o stHeld \in Seq(RawRows)
        BY <1>1, <1>3, ConcatProperties, Zenon
    <2> QED BY <1>0, <2>1, <2>2, Zenon
<1>5. stSteady' = FALSE /\ UNCHANGED <<stSupply, stStep, stPage, stGot, stData, stDigest, stRead, stRow>>
      /\ stStep = "fetch"
    BY DEF ChangeSource
<1>6. StandardTypeOK'
    BY <1>4, <1>5 DEF StandardInv, StandardTypeOK
<1>7. StageRule'
    BY <1>5 DEF StageRule, NamedSteps
<1>8. FetchRule'
    BY <1>5 DEF FetchRule
<1> QED BY <1>6, <1>7, <1>8 DEF StandardInv

LEMMA CanonicalizeStandardOK == ASSUME StandardInv, CanonicalizeStandard PROVE StandardInv'
<1>1. CASE Stop("failed")
    BY <1>1, StopOK
<1>2. CASE /\ ~SheetsRefused(stSupply, stGot) /\ ~RowsUnfit(stSupply, stGot)
           /\ stData' = Canonical(stSupply, stGot) /\ stStep' = "validate"
           /\ UNCHANGED <<stSupply, stHeld, stPage, stGot, stSteady>>
    <2>1. Untouched /\ stStep = "name"
        BY <1>2 DEF Untouched, CanonicalizeStandard
    <2>2. StandardTypeOK'
        BY <1>2, <2>1 DEF StandardInv, StandardTypeOK, StdSteps
    <2>3. StageRule'
        <3>1. stSupply' = stSupply /\ stGot' = stGot
            BY <1>2
        <3> QED BY <1>2, <3>1 DEF StageRule, NamedSteps
    <2>4. FetchRule'
        BY <1>2, <2>1, FetchKept DEF StandardInv
    <2> QED BY <2>2, <2>3, <2>4 DEF StandardInv
<1> QED BY <1>1, <1>2 DEF CanonicalizeStandard

LEMMA StagesGoOn ==
    ASSUME StandardInv, Untouched, stStep \in NamedSteps, stStep' \in NamedSteps, StageRule'
    PROVE  StandardInv'
<1>1. FetchRule'
    <2>1. stStep \notin {"fetch", "failed"} /\ stStep' # "fetch"
        BY DEF NamedSteps
    <2> QED BY <2>1, FetchKept DEF StandardInv
<1>2. StandardTypeOK'
    BY StagesKeep DEF StandardInv
<1> QED BY <1>1, <1>2 DEF StandardInv

LEMMA ValidateStandardOK == ASSUME StandardInv, ValidateStandard PROVE StandardInv'
<1>1. CASE Stop("failed")
    BY <1>1, StopOK
<1>2. CASE Accepted(stSupply, stGot, stData) /\ Stop("write")
    <2>1. /\ Untouched /\ stStep = "validate" /\ stStep' = "write" /\ stData' = stData
          /\ stSupply' = stSupply /\ stGot' = stGot
        BY <1>2 DEF Untouched, Stop, ValidateStandard
    <2>2. stStep \in NamedSteps /\ stStep' \in NamedSteps
        BY <2>1 DEF NamedSteps
    <2>3. StageRule'
        BY <1>2, <2>1, <2>2 DEF StandardInv, StageRule
    <2> QED BY <2>1, <2>2, <2>3, StagesGoOn
<1> QED BY <1>1, <1>2 DEF ValidateStandard

LEMMA CreateSnapshotOK == ASSUME StandardInv, CreateSnapshot PROVE StandardInv'
<1>1. /\ Untouched /\ stStep = "write" /\ stStep' = "read" /\ stData' = stData
      /\ stSupply' = stSupply /\ stGot' = stGot /\ stDigest' = LinesOf(stData)
    BY DEF Untouched, CreateSnapshot
<1>2. stStep \in NamedSteps \ {"validate"} /\ stStep' \in NamedSteps
    BY <1>1 DEF NamedSteps
<1>3. stDigest' = LinesOf(stData')
    BY <1>1
<1>4. StageRule'
    BY <1>1, <1>2, <1>3 DEF StandardInv, StageRule
<1> QED BY <1>1, <1>2, <1>4, StagesGoOn

LEMMA LoadSnapshotOK == ASSUME StandardInv, LoadSnapshot PROVE StandardInv'
<1>1. CASE Stop("failed")
    BY <1>1, StopOK
<1>2. CASE stFile = stDigest /\ stRead' = stFile /\ stStep' = "store"
           /\ UNCHANGED <<stSupply, stHeld, stPage, stGot, stData, stDigest, stRow, stSteady>>
    <2>1. /\ Untouched /\ stStep = "read" /\ stData' = stData /\ stDigest' = stDigest
          /\ stSupply' = stSupply /\ stGot' = stGot /\ stRead' = stDigest'
        BY <1>2 DEF Untouched, LoadSnapshot
    <2>2. stStep \in NamedSteps \ {"validate", "write"} /\ stStep' \in NamedSteps
        BY <1>2, <2>1 DEF NamedSteps
    <2>3. StageRule'
        BY <1>2, <2>1, <2>2 DEF StandardInv, StageRule
    <2> QED BY <2>1, <2>2, <2>3, StagesGoOn
<1> QED BY <1>1, <1>2 DEF LoadSnapshot

LEMMA KeepSnapshotOK ==
    ASSUME StandardInv, StoreSnapshot \/ SaveSnapshot \/ DamageFile
    PROVE  StandardInv'
<1>1. /\ Untouched /\ stData' = stData /\ stDigest' = stDigest /\ stRead' = stRead
      /\ stSupply' = stSupply /\ stGot' = stGot
    BY DEF Untouched, StoreSnapshot, SaveSnapshot, DamageFile
<1>2. /\ stStep \in NamedSteps \ {"validate", "write", "compare"} /\ stStep' \in NamedSteps
      /\ stStep \notin {"store", "save"} => stStep' = "read"
      /\ stStep' = "compare" => stRow' = stDigest'
    BY DEF NamedSteps, StoreSnapshot, SaveSnapshot, DamageFile
<1>3. StageRule'
    BY <1>1, <1>2 DEF StandardInv, StageRule
<1> QED BY <1>1, <1>2, <1>3, StagesGoOn

LEMMA StandardStutterOK == ASSUME StandardInv, UNCHANGED stVars PROVE StandardInv'
<1>1. Untouched /\ stStep' = stStep
    BY DEF stVars, Untouched
<1>2. StandardTypeOK'
    BY <1>1 DEF StandardInv, StandardTypeOK, Untouched
<1>3. StageRule'
    BY DEF stVars, StandardInv, StageRule
<1>4. FetchRule'
    BY <1>1, FetchKept DEF StandardInv
<1> QED BY <1>2, <1>3, <1>4 DEF StandardInv

LEMMA StandardStepOK == ASSUME StandardInv, [StandardNext]_stVars PROVE StandardInv'
<1>1. CASE LoadUpload BY <1>1, LoadUploadOK
<1>2. CASE LoseRequest BY <1>2, LoseRequestOK
<1>3. CASE RefuseRequest BY <1>3, StopOK DEF RefuseRequest
<1>4. CASE ReceivePage BY <1>4, ReceivePageOK
<1>5. CASE ReceiveWhole BY <1>5, ReceiveWholeOK
<1>6. CASE ChangeSource BY <1>6, ChangeSourceOK
<1>7. CASE CanonicalizeStandard BY <1>7, CanonicalizeStandardOK
<1>8. CASE ValidateStandard BY <1>8, ValidateStandardOK
<1>9. CASE CreateSnapshot BY <1>9, CreateSnapshotOK
<1>10. CASE LoadSnapshot BY <1>10, LoadSnapshotOK
<1>11. CASE StoreSnapshot \/ SaveSnapshot \/ DamageFile BY <1>11, KeepSnapshotOK
<1>12. CASE StandardFails BY <1>12, StopOK DEF StandardFails
<1>13. CASE UNCHANGED stVars BY <1>13, StandardStutterOK
<1> QED BY <1>1, <1>2, <1>3, <1>4, <1>5, <1>6, <1>7, <1>8, <1>9, <1>10, <1>11, <1>12, <1>13
        DEF StandardNext

(* What a run has named, accepted, written and read back is what it was    *)
(* given, at every step.                                                   *)
THEOREM StandardInvariant == StandardSpec => []StandardInv
<1> QED BY StandardInitOK, StandardStepOK, PTL DEF StandardSpec

(* A source that stays as it is and cuts pages no shorter than it was      *)
(* asked for is fetched row for row, whatever requests are repeated.       *)
THEOREM SteadySourceFetched == StandardSpec => []FetchedAsHeld
<1>1. StandardInv => FetchedAsHeld
    BY DEF StandardInv, FetchRule, FetchedAsHeld
<1> QED BY <1>1, StandardInvariant, PTL

(* What is compared is what was supplied, row by row, and what the digest  *)
(* of the snapshot stands for, whatever became of its file.                *)
THEOREM RowsCompared == StandardSpec => []RowsAsSupplied
<1>1. StandardInv => RowsAsSupplied
    <2> SUFFICES ASSUME StandardInv, stStep = "compare" PROVE
            /\ stRead = stRow
            /\ \A p \in DOMAIN stGot :
                 LET s == SheetOf(stSupply, stGot[p].key)
                     rows == stGot[p].rows
                 IN  rows # <<>> =>
                     /\ s \in DOMAIN stRead /\ DOMAIN stRead[s] = DOMAIN rows
                     /\ \A i \in DOMAIN rows : \A c \in ColumnsOf[s] : \A f \in Matched(c, rows[i]) :
                           /\ c \in DOMAIN stRead[s][i]
                           /\ SameMeaning(c, rows[i][f].value, stRead[s][i][c])
        BY DEF RowsAsSupplied
    <2>1. /\ stSupply \in Supplies /\ stGot \in Seq(Part)
          /\ stData = Canonical(stSupply, stGot)
          /\ ~SheetsRefused(stSupply, stGot) /\ ~RowsUnfit(stSupply, stGot)
          /\ stRead = LinesOf(stData) /\ stRow = stRead
        BY DEF StandardInv, StandardTypeOK, StageRule, NamedSteps
    <2>2. SUFFICES ASSUME NEW p \in DOMAIN stGot, NEW s, NEW rows, stGot[p].rows # <<>>,
                          s = SheetOf(stSupply, stGot[p].key), rows = stGot[p].rows
                   PROVE  /\ s \in DOMAIN stRead /\ DOMAIN stRead[s] = DOMAIN rows
                          /\ \A i \in DOMAIN rows : \A c \in ColumnsOf[s] : \A f \in Matched(c, rows[i]) :
                                /\ c \in DOMAIN stRead[s][i]
                                /\ SameMeaning(c, rows[i][f].value, stRead[s][i][c])
        BY <2>1
    <2>3. s \in Sheets /\ PartOf(stSupply, stGot, s) = p
        BY <2>1, <2>2, PartOfItsSheet
    <2>4. stGot[p] \in Part
        BY <2>1, <2>2, ElementOfSeq
    <2>5. rows \in Seq(RawRows) /\ rows # <<>>
        BY <2>2, <2>4 DEF Part
    <2>6. s \in DOMAIN stData /\ stData[s] = [i \in DOMAIN rows |-> CanonicalRow(s, rows[i])]
        BY <2>1, <2>2, <2>3 DEF Canonical, Named
    <2>7. stData[s] # <<>>
        <3>1. Len(rows) \in Nat /\ Len(rows) # 0 /\ DOMAIN rows = 1 .. Len(rows)
            BY <2>5, EmptySeq
        <3>2. 1 \in DOMAIN rows
            BY <3>1
        <3> QED BY <2>6, <3>2
    <2>8. s \in DOMAIN stRead /\ stRead[s] = stData[s]
        BY <2>1, <2>6, <2>7 DEF LinesOf
    <2>9. ASSUME NEW i \in DOMAIN rows, NEW c \in ColumnsOf[s], NEW f \in Matched(c, rows[i])
          PROVE  c \in DOMAIN stRead[s][i] /\ SameMeaning(c, rows[i][f].value, stRead[s][i][c])
        <3>1. stRead[s][i] = CanonicalRow(s, rows[i])
            BY <2>6, <2>8, <2>9
        <3>2. rows[i] \in RawRows
            BY <2>5, <2>9, ElementOfSeq
        <3>3. ~Conflict(s, rows[i])
            BY <2>1, <2>2, <2>9 DEF RowsUnfit
        <3> QED BY <2>3, <2>9, <3>1, <3>2, <3>3, RowSaysTheSame
    <2> QED BY <2>6, <2>8, <2>9
<1> QED BY <1>1, StandardInvariant, PTL

(* No two records of a sheet that are compared have the same key.          *)
THEOREM RecordsDiffer == StandardSpec => []NoRecordTwice
<1>1. StandardInv => NoRecordTwice
    <2> SUFFICES ASSUME StandardInv, stStep = "compare" PROVE
            \A s \in DOMAIN stRead : Distinct(s, stRead[s])
        BY DEF NoRecordTwice, Distinct
    <2>1. stRead = LinesOf(stData) /\ Accepted(stSupply, stGot, stData)
        BY DEF StandardInv, StageRule, NamedSteps
    <2>2. \A s \in DOMAIN stRead : s \in DOMAIN stData /\ stRead[s] = stData[s]
        BY <2>1 DEF LinesOf
    <2> QED BY <2>1, <2>2 DEF Accepted
<1> QED BY <1>1, StandardInvariant, PTL

(* The comparison is of the standards as supplied, each of them once.      *)
THEOREM SuppliedCompared == StandardSpec => []ComparedAsSupplied
<1>1. RowsAsSupplied /\ NoRecordTwice => ComparedAsSupplied
    BY DEF ComparedAsSupplied
<1> QED BY <1>1, RowsCompared, RecordsDiffer, PTL

-----------------------------------------------------------------------------
(* MerchantProducts: the products read, their matches and the summary.     *)

(* The workbook, its products and the platform's, from when they are read. *)
MerchantTypeOK ==
    /\ mpStep \in {"read", "load", "match", "write", "written", "failed"}
    /\ mpStep \in {"read", "load"} =>
         /\ mpPlatform = <<>> /\ mpMatch = <<>> /\ mpAmbiguous = {} /\ mpAdded = {} /\ mpIssues = {}
         /\ mpTodo = DOMAIN mpProducts
    /\ mpBook \in Books \/ DOMAIN mpProducts = {}
    /\ \A m \in DOMAIN mpProducts : \E k \in DOMAIN mpBook : \E r \in DOMAIN mpBook[k].cells : m = <<k, r>>
    /\ \A m \in DOMAIN mpProducts : mpProducts[m] \in [Fields -> Texts]
    /\ IsList(mpPlatform)
    /\ \A j \in DOMAIN mpPlatform : mpPlatform[j].fixed \in [Fields -> Texts]
    /\ mpTodo \subseteq DOMAIN mpProducts
    /\ DOMAIN mpMatch \subseteq DOMAIN mpProducts

(* A record of the platform is the match of one product; a product without *)
(* one has two candidates alike or none that is free.                      *)
MatchRule ==
    /\ \A m \in DOMAIN mpMatch : m \notin mpTodo /\ mpMatch[m] \in DOMAIN mpPlatform
    /\ \A m, n \in DOMAIN mpMatch :
         mpPlatform[mpMatch[m]].id = mpPlatform[mpMatch[n]].id => m = n
    /\ mpStep \in {"match", "write", "written"} =>
         \A m \in DOMAIN mpProducts \ mpTodo :
            m \in DOMAIN mpMatch \/ m \in mpAmbiguous \/ mpPlatform = <<>> \/ Untaken(m) = {}

(* A product and the one that fits it fully are both waiting or matched.   *)
ExactRule ==
    mpStep \in {"match", "write", "written"} /\ Unmistakable =>
    \A m \in DOMAIN mpProducts : \A j \in DOMAIN mpPlatform : Score(m, j) = 100 =>
       \/ m \in mpTodo /\ mpPlatform[j].id \notin UsedIds
       \/ m \in DOMAIN mpMatch /\ mpMatch[m] = j

(* The summary has a row for each product and the records left.            *)
SummaryRule ==
    /\ mpStep \in {"write", "written"} =>
         \/ /\ mpPlatform = <<>> /\ mpAdded = {} /\ mpIssues = {}
            /\ mpRows = [m \in DOMAIN mpProducts |-> [status |-> "source_only",
                            fixed |-> mpProducts[m], record |-> 0, marked |-> {}]]
         \/ /\ mpTodo = {} /\ mpAdded = Unmatched /\ mpIssues = Mismatches
            /\ mpRows = [m \in DOMAIN mpProducts |-> OutputOf(m)]
    /\ mpStep = "written" =>
         mpComments = [at \in {x \in (DOMAIN mpRows) \X Fields : x[2] \in mpRows[x[1]].marked} |->
                         IssueFor(at[1], at[2])]

MerchantInv == MerchantTypeOK /\ MatchRule /\ ExactRule /\ SummaryRule

(* Integers up to a bound have a greatest one.                             *)
LEMMA GreatestIsOne ==
    ASSUME NEW n \in Int, NEW T, T # {}, \A x \in T : x \in Int /\ x <= n
    PROVE  Greatest(T) \in T /\ \A y \in T : y <= Greatest(T)
<1> DEFINE Below == {n - x : x \in T}
<1>1. Below \in SUBSET Nat /\ Below # {}
    OBVIOUS
<1>2. PICK d \in Below : \A e \in Below : d <= e
    <2> HIDE DEF Below
    <2> QED BY <1>1, LeastOf
<1>3. PICK x \in T : d = n - x
    BY <1>2
<1>4. \A y \in T : y <= x
    <2> SUFFICES ASSUME NEW y \in T PROVE y <= x
        OBVIOUS
    <2>1. n - y \in Below
        OBVIOUS
    <2>2. n - x <= n - y
        BY <1>2, <1>3, <2>1
    <2> QED BY <2>2
<1> HIDE DEF Below
<1> QED BY <1>3, <1>4 DEF Greatest

LEMMA LeastIsOne ==
    ASSUME NEW T \in SUBSET Nat, T # {}
    PROVE  Least(T) \in T
BY LeastOf DEF Least

(* A worksheet has texts only, a merged cell's, too.                       *)
LEMMA ValueIsText ==
    ASSUME NEW w, Worksheet(w), NEW r \in DOMAIN w.cells, NEW c \in 1 .. w.width
    PROVE  ValueAt(w, r, c) \in Texts
<1>1. CASE \E m \in w.merges : Covers(m, r, c)
    <2> DEFINE m == CHOOSE m \in w.merges : Covers(m, r, c)
    <2>1. m \in w.merges /\ Covers(m, r, c)
        BY <1>1
    <2> HIDE DEF m
    <2>2. m.top \in Nat \ {0} /\ m.left \in Nat \ {0} /\ m.bottom \in Nat /\ m.right \in Nat
        BY <2>1 DEF Worksheet, Region
    <2>3. m.top \in 1 .. Len(w.cells) /\ m.left \in 1 .. w.width
        BY <2>1, <2>2 DEF Covers, Worksheet
    <2>4. w.cells[m.top][m.left] \in Texts
        BY <2>3 DEF Worksheet
    <2>5. ValueAt(w, r, c) = w.cells[m.top][m.left]
        BY <1>1 DEF ValueAt, m
    <2> QED BY <2>4, <2>5
<1>2. CASE ~\E m \in w.merges : Covers(m, r, c)
    BY <1>2 DEF ValueAt, Worksheet
<1> QED BY <1>1, <1>2

LEMMA LastColumnInside ==
    ASSUME NEW w, Worksheet(w)
    PROVE  LastColumn(w) \in 0 .. w.width
<1> DEFINE T == {0} \cup {at[2] : at \in FilledCells(w)}
<1>1. w.width \in Nat
    BY DEF Worksheet
<1>2. \A x \in T : x \in 0 .. w.width
    <2>1. \A at \in FilledCells(w) : at[2] \in 1 .. w.width
        BY DEF FilledCells
    <2> QED BY <1>1, <2>1
<1>3. T # {}
    OBVIOUS
<1> HIDE DEF T
<1>4. Greatest(T) \in T
    BY <1>1, <1>2, <1>3, GreatestIsOne
<1> QED BY <1>2, <1>4 DEF LastColumn, T

(* What is read from a worksheet, and from a workbook.                     *)
LEMMA SheetTexts ==
    ASSUME NEW w, Worksheet(w), NEW r \in DOMAIN SheetProducts(w)
    PROVE  SheetProducts(w)[r] \in [Fields -> Texts]
<1> DEFINE first == HeaderRow(w)
           depth == HeaderDepth(w, first)
           fields == [c \in 1 .. LastColumn(w) |->
                        FieldNamed(HeaderParts(w, first, depth, c))]
           columns == [f \in Fields |-> {c \in DOMAIN fields : fields[c] = f}]
           below == {q \in DOMAIN w.cells : q >= first + depth /\ q <= LastRow(w) /\ ~IsNote(w, q)}
           rows == [q \in below |-> [f \in Fields |-> FieldAt(w, q, columns[f])]]
<1>0. RowsRead(w, below, fields) = rows
    BY DEF RowsRead
<1>1. SheetProducts(w) = [q \in {p \in DOMAIN rows : rows[p][NameField] # Blank} |-> rows[q]]
    BY <1>0 DEF SheetProducts, ProductsUnder, NamedRows
<1>2. columns = [f \in Fields |-> {c \in 1 .. LastColumn(w) : fields[c] = f}]
    OBVIOUS
<1>3. LastColumn(w) \in 0 .. w.width /\ w.width \in Nat
    BY LastColumnInside DEF Worksheet
<1> HIDE DEF columns, below, first, depth, fields
<1>4. \A q \in below : rows[q] \in [Fields -> Texts]
    <2> SUFFICES ASSUME NEW q \in below, NEW f \in Fields
                 PROVE  FieldAt(w, q, columns[f]) \in Texts
        OBVIOUS
    <2>1. q \in DOMAIN w.cells
        BY DEF below
    <2>2. Blank \in Texts
        BY MerchantAssumption DEF MerchantAssumption
    <2>3. columns[f] \in SUBSET Nat /\ columns[f] \subseteq 1 .. w.width
        BY <1>2, <1>3
    <2>4. CASE columns[f] # {}
        <3>1. Least(columns[f]) \in 1 .. w.width
            BY <2>3, <2>4, LeastIsOne
        <3> QED BY <2>1, <2>4, <3>1, ValueIsText DEF FieldAt
    <2> QED BY <2>2, <2>4 DEF FieldAt
<1> HIDE DEF rows
<1>5. DOMAIN rows = below
    BY DEF rows
<1>6. r \in below /\ SheetProducts(w)[r] = rows[r]
    BY <1>1, <1>5
<1> QED BY <1>4, <1>6

LEMMA BookTexts ==
    ASSUME NEW b \in Books, NEW at \in DOMAIN ProductsOf(b)
    PROVE  /\ \E k \in DOMAIN b : \E r \in DOMAIN b[k].cells : at = <<k, r>>
           /\ ProductsOf(b)[at] \in [Fields -> Texts]
<1> DEFINE sheets == [k \in {k \in DOMAIN b : HasProducts(b[k])} |-> SheetProducts(b[k])]
<1>1. ProductsOf(b) = [x \in UNION {{k} \X (DOMAIN sheets[k]) : k \in DOMAIN sheets} |->
                          sheets[x[1]][x[2]]]
    BY DEF ProductsOf, Together
<1>2. PICK k \in DOMAIN sheets : at \in {k} \X (DOMAIN sheets[k])
    BY <1>1
<1>3. k \in DOMAIN b /\ sheets[k] = SheetProducts(b[k])
    OBVIOUS
<1>4. ProductsOf(b)[at] = sheets[at[1]][at[2]]
    BY <1>1
<1> HIDE DEF sheets
<1>5. at = <<k, at[2]>> /\ at[1] = k /\ at[2] \in DOMAIN SheetProducts(b[k])
    BY <1>2, <1>3
<1>6. Worksheet(b[k])
    BY <1>3, MerchantAssumption DEF MerchantAssumption
<1>7. DOMAIN SheetProducts(b[k]) \subseteq DOMAIN b[k].cells
    BY DEF SheetProducts, ProductsUnder, NamedRows, RowsRead
<1>8. SheetProducts(b[k])[at[2]] \in [Fields -> Texts]
    BY <1>5, <1>6, SheetTexts
<1> QED BY <1>3, <1>4, <1>5, <1>7, <1>8

LEMMA RecordTexts ==
    ASSUME NEW p \in Payloads, NEW j \in DOMAIN p
    PROVE  RecordAt(p, j).fixed \in [Fields -> Texts]
<1> DEFINE e == p[j].entries
<1>1. IsList(e) /\ (\A i \in DOMAIN e : e[i].text \in Texts) /\ Blank \in Texts
    BY MerchantAssumption DEF MerchantAssumption
<1> HIDE DEF e
<1> SUFFICES ASSUME NEW f \in Fields, NEW T, T = {i \in DOMAIN e : FieldOf[e[i].key] = f}
             PROVE  (IF T = {} THEN Blank ELSE e[Greatest(T)].text) \in Texts
    BY DEF RecordAt, e
<1>2. \A x \in T : x \in Int /\ x <= Len(e)
    BY <1>1 DEF IsList
<1>3. Len(e) \in Int
    BY <1>1 DEF IsList
<1>4. CASE T # {}
    <2>1. Greatest(T) \in T
        BY <1>2, <1>3, <1>4, GreatestIsOne
    <2> QED BY <1>1, <1>4, <2>1
<1> QED BY <1>1, <1>4

-----------------------------------------------------------------------------
(* The names of a product and of a record are texts, and alike as such.    *)
LEMMA ScoreRange ==
    ASSUME MerchantTypeOK, NEW m \in DOMAIN mpProducts, NEW j \in DOMAIN mpPlatform
    PROVE  Score(m, j) \in 0 .. 100
<1>1. mpProducts[m] \in [Fields -> Texts] /\ mpPlatform[j].fixed \in [Fields -> Texts]
    BY DEF MerchantTypeOK
<1>2. NameField \in Fields
    BY MerchantAssumption DEF MerchantAssumption
<1>3. mpProducts[m][NameField] \in Texts /\ mpPlatform[j].fixed[NameField] \in Texts
    BY <1>1, <1>2
<1>4. Likeness[NameKey[mpProducts[m][NameField]]][NameKey[mpPlatform[j].fixed[NameField]]] \in 0 .. 100
    BY <1>3, MerchantAssumption DEF MerchantAssumption
<1>5. 100 \in 0 .. 100
    OBVIOUS
<1> QED BY <1>4, <1>5, Zenon DEF Score

LEMMA SharesRange ==
    ASSUME NEW m, NEW j, NEW f
    PROVE  Shares(m, j, f) \in {0, 1}
BY DEF Shares

(* The name counts for more than all the rest.                             *)
LEMMA StrengthRange ==
    ASSUME MerchantTypeOK, NEW m \in DOMAIN mpProducts, NEW j \in DOMAIN mpPlatform
    PROVE  /\ Strength(m, j) \in 0 .. 1615
           /\ Strength(m, j) >= 1600 <=> Score(m, j) = 100
<1>1. Score(m, j) \in 0 .. 100
    BY ScoreRange
<1>2. /\ Shares(m, j, SkuField) \in {0, 1} /\ Shares(m, j, BrandField) \in {0, 1}
      /\ Shares(m, j, CategoryField) \in {0, 1} /\ Shares(m, j, UnitField) \in {0, 1}
    BY SharesRange
<1>3. \A s \in 0 .. 100 : \A a, b, c, d \in {0, 1} :
         /\ 16 * s + 8 * a + 4 * b + 2 * c + d \in 0 .. 1615
         /\ 16 * s + 8 * a + 4 * b + 2 * c + d >= 1600 <=> s = 100
    <2> SUFFICES ASSUME NEW s \in 0 .. 100, NEW a \in {0, 1}, NEW b \in {0, 1}, NEW c \in {0, 1},
                        NEW d \in {0, 1}
                 PROVE  /\ 16 * s + 8 * a + 4 * b + 2 * c + d \in 0 .. 1615
                        /\ 16 * s + 8 * a + 4 * b + 2 * c + d >= 1600 <=> s = 100
        OBVIOUS
    <2>1. 8 * a + 4 * b + 2 * c + d \in 0 .. 15
        OBVIOUS
    <2> DEFINE t == 8 * a + 4 * b + 2 * c + d
    <2>2. 16 * s + t \in 0 .. 1615 /\ (16 * s + t >= 1600 <=> s = 100)
        <3> HIDE DEF t
        <3>1. t \in 0 .. 15
            BY <2>1 DEF t
        <3> QED BY <3>1
    <2>3. 16 * s + 8 * a + 4 * b + 2 * c + d = 16 * s + t
        OBVIOUS
    <2> QED BY <2>2, <2>3
<1> QED BY <1>1, <1>2, <1>3 DEF Strength

LEMMA Places ==
    ASSUME MerchantTypeOK
    PROVE  /\ Len(mpPlatform) \in Nat /\ DOMAIN mpPlatform = 1 .. Len(mpPlatform)
           /\ IsFiniteSet(DOMAIN mpPlatform)
<1>1. Len(mpPlatform) \in Nat /\ DOMAIN mpPlatform = 1 .. Len(mpPlatform)
    BY DEF MerchantTypeOK, IsList
<1> QED BY <1>1, FS_Interval

(* Of candidates one at least is strongest.                                *)
LEMMA StrongestOf ==
    ASSUME MerchantTypeOK, NEW m \in DOMAIN mpProducts, NEW T \in SUBSET DOMAIN mpPlatform, T # {}
    PROVE  \E j \in T : \A k \in T : Strength(m, k) <= Strength(m, j)
<1> DEFINE S == {Strength(m, j) : j \in T}
<1>1. S # {} /\ \A x \in S : x \in Int /\ x <= 1615
    <2>1. \A j \in T : j \in DOMAIN mpPlatform
        OBVIOUS
    <2>2. \A j \in T : Strength(m, j) \in 0 .. 1615
        <3> HIDE DEF S
        <3> QED BY <2>1, StrengthRange
    <2>3. S # {}
        OBVIOUS
    <2>4. \A x \in S : x \in 0 .. 1615
        BY <2>2
    <2> HIDE DEF S
    <2> QED BY <2>3, <2>4
<1>2. PICK x \in S : \A y \in S : y <= x
    <2> HIDE DEF S
    <2>1. Greatest(S) \in S /\ \A y \in S : y <= Greatest(S)
        BY <1>1, GreatestIsOne
    <2> QED BY <2>1
<1>3. PICK j \in T : x = Strength(m, j)
    BY <1>2
<1>4. \A k \in T : Strength(m, k) \in S
    OBVIOUS
<1> HIDE DEF S
<1> QED BY <1>2, <1>3, <1>4

LEMMA StrongestNonempty ==
    ASSUME MerchantTypeOK, NEW m \in DOMAIN mpProducts, NEW T \in SUBSET DOMAIN mpPlatform, T # {}
    PROVE  /\ Strongest(m, T) # {} /\ Strongest(m, T) \subseteq T
           /\ IsFiniteSet(Strongest(m, T)) /\ Cardinality(Strongest(m, T)) \in Nat \ {0}
<1>1. Strongest(m, T) # {} /\ Strongest(m, T) \subseteq T
    BY StrongestOf DEF Strongest
<1>2. IsFiniteSet(Strongest(m, T))
    BY <1>1, Places, FS_Subset
<1> QED BY <1>1, <1>2, FS_CardinalityType, FS_EmptySet

(* Where a product has a candidate, its top is the strength of one.        *)
LEMMA TopRange ==
    ASSUME MerchantTypeOK, NEW m \in DOMAIN mpProducts
    PROVE  /\ Top(m) \in Int
           /\ \A j \in Candidates(m) : Strength(m, j) <= Top(m)
           /\ Top(m) > -1 => \E j \in Candidates(m) : Top(m) = Strength(m, j)
<1> DEFINE S == {-1} \cup {Strength(m, j) : j \in Candidates(m)}
<1>1. \A j \in Candidates(m) : j \in DOMAIN mpPlatform /\ Strength(m, j) \in S
    BY DEF Candidates
<1>2. S # {} /\ \A x \in S : x \in Int /\ x <= 1615
    <2>1. \A j \in Candidates(m) : Strength(m, j) \in 0 .. 1615
        <3> HIDE DEF S
        <3> QED BY <1>1, StrengthRange
    <2>2. S # {}
        OBVIOUS
    <2>3. \A x \in S : x = -1 \/ x \in 0 .. 1615
        BY <2>1
    <2> HIDE DEF S
    <2> QED BY <2>2, <2>3
<1>3. \A x \in S : x = -1 \/ \E j \in Candidates(m) : x = Strength(m, j)
    OBVIOUS
<1>4. Top(m) = Greatest(S)
    BY DEF Top
<1> HIDE DEF S
<1>5. Greatest(S) \in S /\ \A y \in S : y <= Greatest(S)
    BY <1>2, GreatestIsOne
<1> QED BY <1>1, <1>2, <1>3, <1>4, <1>5

(* Of records with one id one is meant, and it has that id.                *)
LEMMA RecordIsOne ==
    ASSUME MerchantTypeOK, NEW m \in DOMAIN mpMatch, mpMatch[m] \in DOMAIN mpPlatform
    PROVE  /\ RecordOf(m) \in DOMAIN mpPlatform
           /\ mpPlatform[RecordOf(m)].id = mpPlatform[mpMatch[m]].id
<1> DEFINE T == {j \in DOMAIN mpPlatform : mpPlatform[j].id = mpPlatform[mpMatch[m]].id}
<1>1. T # {} /\ \A x \in T : x \in Int /\ x <= Len(mpPlatform)
    BY Places
<1>2. RecordOf(m) = Greatest(T)
    BY DEF RecordOf
<1>3. Len(mpPlatform) \in Int
    BY Places
<1>4. Greatest(T) \in T
    <2> HIDE DEF T
    <2> QED BY <1>1, <1>3, GreatestIsOne
<1> QED BY <1>2, <1>4

-----------------------------------------------------------------------------
(* The invariant holds at the start, and each action keeps it.             *)
LEMMA MerchantStart == MerchantInit => MerchantInv
<1> SUFFICES ASSUME MerchantInit PROVE MerchantInv
    OBVIOUS
<1> USE DEF MerchantInit
<1>1. MerchantTypeOK
    BY DEF MerchantTypeOK, IsList
<1>2. MatchRule
    BY DEF MatchRule
<1>3. ExactRule
    BY DEF ExactRule
<1>4. SummaryRule
    BY DEF SummaryRule
<1> QED BY <1>1, <1>2, <1>3, <1>4 DEF MerchantInv

LEMMA StopRunKeeps ==
    ASSUME MerchantInv, StopRun("failed")
    PROVE  MerchantInv'
<1> USE DEF MerchantInv, StopRun
<1>1. MerchantTypeOK'
    BY DEF MerchantTypeOK, IsList
<1>2. MatchRule'
    BY DEF MatchRule
<1>3. ExactRule'
    BY DEF ExactRule
<1>4. SummaryRule'
    BY DEF SummaryRule
<1> QED BY <1>1, <1>2, <1>3, <1>4

LEMMA ReadProductsKeeps ==
    ASSUME MerchantInv, ReadProducts
    PROVE  MerchantInv'
<1>1. PICK b \in Books :
         LET found == ProductsOf(b)
         IN  IF DOMAIN found = {} THEN StopRun("failed")
             ELSE /\ mpBook' = b /\ mpProducts' = found /\ mpTodo' = DOMAIN found /\ mpStep' = "load"
                  /\ UNCHANGED <<mpPlatform, mpMatch, mpAmbiguous, mpRows, mpAdded, mpIssues,
                                 mpComments>>
    BY DEF ReadProducts, TakeProducts
<1>2. CASE StopRun("failed")
    BY <1>2, StopRunKeeps
<1>3. CASE /\ mpBook' = b /\ mpProducts' = ProductsOf(b) /\ mpTodo' = DOMAIN ProductsOf(b)
           /\ mpStep' = "load"
           /\ UNCHANGED <<mpPlatform, mpMatch, mpAmbiguous, mpRows, mpAdded, mpIssues, mpComments>>
    <2>1. mpStep = "read"
        BY DEF ReadProducts
    <2>2. mpPlatform = <<>> /\ mpMatch = <<>> /\ mpAmbiguous = {} /\ mpAdded = {} /\ mpIssues = {}
        BY <2>1 DEF MerchantInv, MerchantTypeOK
    <2>3. MerchantTypeOK'
        <3>1. \A m \in DOMAIN ProductsOf(b) :
                 /\ \E k \in DOMAIN b : \E r \in DOMAIN b[k].cells : m = <<k, r>>
                 /\ ProductsOf(b)[m] \in [Fields -> Texts]
            BY BookTexts
        <3>2. DOMAIN mpMatch = {}
            BY <2>2
        <3> QED BY <1>3, <2>2, <3>1, <3>2 DEF MerchantTypeOK, IsList
    <2>4. MatchRule'
        BY <1>3, <2>2 DEF MatchRule
    <2>5. ExactRule'
        BY <1>3 DEF ExactRule
    <2>6. SummaryRule'
        BY <1>3 DEF SummaryRule
    <2> QED BY <2>3, <2>4, <2>5, <2>6 DEF MerchantInv
<1> QED BY <1>1, <1>2, <1>3

LEMMA ListProductsKeeps ==
    ASSUME MerchantInv, ListProducts
    PROVE  MerchantInv'
<1> USE DEF ListProducts
<1>1. mpPlatform = <<>> /\ mpMatch = <<>> /\ mpAmbiguous = {} /\ mpAdded = {} /\ mpIssues = {}
    BY DEF MerchantInv, MerchantTypeOK
<1>2. MerchantTypeOK'
    BY DEF MerchantInv, MerchantTypeOK, IsList
<1>3. MatchRule'
    BY <1>1 DEF MerchantInv, MatchRule
<1>4. ExactRule'
    <2>1. DOMAIN mpPlatform' = {}
        BY <1>1
    <2> QED BY <2>1 DEF ExactRule
<1>5. SummaryRule'
    <2> SUFFICES /\ mpPlatform' = <<>> /\ mpAdded' = {} /\ mpIssues' = {}
                 /\ mpRows' = [m \in DOMAIN mpProducts' |-> [status |-> "source_only",
                                 fixed |-> mpProducts'[m], record |-> 0, marked |-> {}]]
                 /\ mpStep' # "written"
        BY Zenon DEF SummaryRule
    <2> QED BY <1>1
<1> QED BY <1>2, <1>3, <1>4, <1>5 DEF MerchantInv

LEMMA LoadPlatformKeeps ==
    ASSUME MerchantInv, LoadPlatform
    PROVE  MerchantInv'
<1>1. PICK p \in Payloads :
         IF \E j \in DOMAIN p : RecordAt(p, j).fixed[NameField] = Blank
         THEN StopRun("failed")
         ELSE /\ mpPlatform' = [j \in DOMAIN p |-> RecordAt(p, j)] /\ mpStep' = "match"
              /\ UNCHANGED <<mpBook, mpProducts, mpTodo, mpMatch, mpAmbiguous, mpRows, mpAdded,
                             mpIssues, mpComments>>
    BY DEF LoadPlatform
<1>2. CASE StopRun("failed")
    BY <1>2, StopRunKeeps
<1>3. CASE /\ mpPlatform' = [j \in DOMAIN p |-> RecordAt(p, j)] /\ mpStep' = "match"
           /\ UNCHANGED <<mpBook, mpProducts, mpTodo, mpMatch, mpAmbiguous, mpRows, mpAdded,
                          mpIssues, mpComments>>
    <2>1. mpStep = "load"
        BY DEF LoadPlatform
    <2>2. mpMatch = <<>> /\ DOMAIN mpMatch = {} /\ mpTodo = DOMAIN mpProducts
        BY <2>1 DEF MerchantInv, MerchantTypeOK
    <2>3. MerchantTypeOK'
        <3>1. Len(p) \in Nat /\ DOMAIN p = 1 .. Len(p)
            BY MerchantAssumption DEF MerchantAssumption, IsList
        <3>2. Len(mpPlatform') \in Nat /\ DOMAIN mpPlatform' = 1 .. Len(mpPlatform')
            <4>1. mpPlatform' \in Seq({RecordAt(p, j) : j \in DOMAIN p})
                BY <1>3, <3>1
            <4> QED BY <4>1
        <3>3. \A j \in DOMAIN mpPlatform' : mpPlatform'[j].fixed \in [Fields -> Texts]
            BY <1>3, RecordTexts
        <3> QED BY <1>3, <2>2, <3>2, <3>3 DEF MerchantInv, MerchantTypeOK, IsList
    <2>4. MatchRule'
        BY <1>3, <2>2 DEF MatchRule
    <2>5. ExactRule'
        <3>1. UsedIds' = {}
            BY <1>3, <2>2 DEF UsedIds
        <3> QED BY <1>3, <2>2, <3>1 DEF ExactRule
    <2>6. SummaryRule'
        BY <1>3 DEF SummaryRule
    <2> QED BY <2>3, <2>4, <2>5, <2>6 DEF MerchantInv
<1> QED BY <1>1, <1>2, <1>3

(* A product waiting, and the record that fits it fully: the record is the *)
(* strongest of those free.                                                *)
LEMMA ExactIsStrongest ==
    ASSUME MerchantInv, mpStep = "match", Unmistakable,
           NEW m \in mpTodo, NEW j \in DOMAIN mpPlatform, Score(m, j) = 100
    PROVE  j \in Untaken(m) /\ Strongest(m, Untaken(m)) = {j} /\ Cardinality(Strongest(m, Untaken(m))) = 1
<1>1. MerchantTypeOK /\ m \in DOMAIN mpProducts
    BY DEF MerchantInv, MerchantTypeOK
<1>2. mpPlatform[j].id \notin UsedIds
    BY <1>1 DEF MerchantInv, ExactRule, MatchRule
<1>3. Threshold \in 0 .. 100
    BY MerchantAssumption DEF MerchantAssumption
<1>4. j \in Untaken(m)
    BY <1>2, <1>3 DEF Untaken, Candidates
<1>5. \A k \in Untaken(m) : k \in DOMAIN mpPlatform
    BY DEF Untaken, Candidates
<1>6. \A k \in Untaken(m) : Strength(m, k) \in 0 .. 1615 /\ (Strength(m, k) >= 1600 <=> Score(m, k) = 100)
    BY <1>1, <1>5, StrengthRange
<1>7. \A k \in Untaken(m) : Score(m, k) = 100 => k = j
    BY <1>1, <1>5 DEF Unmistakable
<1>8. \A k \in Untaken(m) : /\ Strength(m, k) <= Strength(m, j)
                            /\ Strength(m, j) <= Strength(m, k) => k = j
    <2> SUFFICES ASSUME NEW k \in Untaken(m), NEW x, NEW y, x = Strength(m, k), y = Strength(m, j)
                 PROVE  x <= y /\ (y <= x => k = j)
        OBVIOUS
    <2>1. x \in 0 .. 1615 /\ y \in 0 .. 1615 /\ y >= 1600
        BY <1>4, <1>6
    <2>2. x >= 1600 => k = j
        BY <1>6, <1>7
    <2>3. k = j => x = y
        OBVIOUS
    <2> QED BY <2>1, <2>2, <2>3
<1>9. Strongest(m, Untaken(m)) = {j}
    <2> QED BY <1>4, <1>8, Zenon DEF Strongest
<1> QED BY <1>4, <1>9, FS_Singleton

(* What the first product takes is not what fits another fully.            *)
LEMMA ExactIsSpared ==
    ASSUME MerchantInv, mpStep = "match", Unmistakable,
           NEW m \in mpTodo, NEW n \in mpTodo, m # n, Ahead(m, n),
           NEW k \in Strongest(m, Untaken(m)),
           NEW j \in DOMAIN mpPlatform, Score(n, j) = 100
    PROVE  mpPlatform[k].id # mpPlatform[j].id
<1>1. MerchantTypeOK /\ m \in DOMAIN mpProducts /\ n \in DOMAIN mpProducts
    BY DEF MerchantInv, MerchantTypeOK
<1>2. k \in Untaken(m) /\ k \in Candidates(m) /\ k \in DOMAIN mpPlatform
    BY DEF Strongest, Untaken, Candidates
<1>3. j \in Candidates(n)
    BY MerchantAssumption DEF MerchantAssumption, Candidates
<1>4. Top(n) >= 1600
    <2>1. Strength(n, j) >= 1600 /\ Strength(n, j) \in 0 .. 1615
        BY <1>1, StrengthRange
    <2>2. Top(n) \in Int /\ Strength(n, j) <= Top(n)
        BY <1>1, <1>3, TopRange
    <2> QED BY <2>1, <2>2
<1>5. Top(m) >= 1600
    <2>1. Top(m) \in Int /\ Top(n) \in Int
        BY <1>1, TopRange
    <2>2. Top(m) > Top(n) \/ Top(m) = Top(n)
        BY DEF Ahead
    <2> QED BY <1>4, <2>1, <2>2
<1>6. PICK i \in Candidates(m) : Top(m) = Strength(m, i)
    <2>1. Top(m) \in Int /\ (Top(m) > -1 => \E i \in Candidates(m) : Top(m) = Strength(m, i))
        BY <1>1, TopRange
    <2> QED BY <1>5, <2>1
<1>7. i \in DOMAIN mpPlatform /\ Score(m, i) = 100
    <2>1. i \in DOMAIN mpPlatform
        BY DEF Candidates
    <2> QED BY <1>1, <1>5, <1>6, <2>1, StrengthRange
<1>8. k = i
    BY <1>7, ExactIsStrongest
<1>9. k # j
    BY <1>1, <1>7, <1>8 DEF Unmistakable
<1> QED BY <1>2, <1>9 DEF Unmistakable

LEMMA MatchProductKeeps ==
    ASSUME MerchantInv, MatchProduct
    PROVE  MerchantInv'
<1>1. PICK m \in mpTodo :
         /\ \A n \in mpTodo : Ahead(m, n)
         /\ mpTodo' = mpTodo \ {m}
         /\ LET best == Strongest(m, Untaken(m))
            IN  CASE Cardinality(best) = 1 ->
                       /\ mpMatch' = [n \in DOMAIN mpMatch \cup {m} |->
                                       IF n = m THEN CHOOSE j \in best : TRUE ELSE mpMatch[n]]
                       /\ UNCHANGED mpAmbiguous
                  [] Cardinality(best) > 1 ->
                       mpAmbiguous' = mpAmbiguous \cup {m} /\ UNCHANGED mpMatch
                  [] OTHER -> UNCHANGED <<mpMatch, mpAmbiguous>>
    BY DEF MatchProduct
<1>2. /\ mpStep = "match"
      /\ UNCHANGED <<mpStep, mpBook, mpPlatform, mpProducts, mpRows, mpAdded, mpIssues, mpComments>>
    BY DEF MatchProduct
<1>3. MerchantTypeOK /\ m \in DOMAIN mpProducts /\ m \notin DOMAIN mpMatch
    BY DEF MerchantInv, MerchantTypeOK, MatchRule
<1>4. Untaken(m) \subseteq DOMAIN mpPlatform /\ \A j \in Untaken(m) : mpPlatform[j].id \notin UsedIds
    BY DEF Untaken, Candidates
<1> DEFINE best == Strongest(m, Untaken(m))
<1>5. Untaken(m) # {} => best # {} /\ best \subseteq Untaken(m) /\ Cardinality(best) \in Nat \ {0}
    BY <1>3, <1>4, StrongestNonempty
<1>6. Untaken(m) = {} => best = {} /\ Cardinality(best) = 0
    BY FS_EmptySet DEF Strongest
<1>7. \A n, j : (Score(n, j) = 100)' <=> Score(n, j) = 100
    BY <1>2 DEF Score
<1>8. Unmistakable' <=> Unmistakable
    BY <1>2 DEF Unmistakable, Score
<1>9. SummaryRule'
    BY <1>2 DEF SummaryRule
<1>10. \A n : Candidates(n)' = Candidates(n)
    BY <1>2 DEF Candidates, Score
<1>11. ASSUME Unmistakable, NEW j \in DOMAIN mpPlatform, Score(m, j) = 100
       PROVE  best = {j} /\ Cardinality(best) = 1
    BY <1>2, <1>11, ExactIsStrongest
<1>12. CASE Cardinality(best) = 1
    <2> DEFINE k == CHOOSE j \in best : TRUE
    <2>1. k \in best /\ k \in Untaken(m)
        BY <1>5, <1>6, <1>12
    <2>2. /\ DOMAIN mpMatch' = DOMAIN mpMatch \cup {m} /\ mpMatch'[m] = k
          /\ \A n \in DOMAIN mpMatch : mpMatch'[n] = mpMatch[n]
          /\ mpAmbiguous' = mpAmbiguous
        BY <1>1, <1>3, <1>12
    <2> HIDE DEF k, best
    <2>3. UsedIds' = UsedIds \cup {mpPlatform[k].id}
        BY <1>2, <2>2 DEF UsedIds
    <2>4. \A n : Untaken(n)' \subseteq Untaken(n)
        BY <1>2, <1>10, <2>3 DEF Untaken
    <2>5. MerchantTypeOK'
        BY <1>1, <1>2, <1>3, <2>2 DEF MerchantTypeOK, IsList
    <2>6. MatchRule'
        <3>1. \A n \in DOMAIN mpMatch' : n \notin mpTodo' /\ mpMatch'[n] \in DOMAIN mpPlatform'
            BY <1>1, <1>2, <1>4, <2>1, <2>2 DEF MerchantInv, MatchRule
        <3>2. \A n \in DOMAIN mpMatch : mpPlatform[mpMatch[n]].id # mpPlatform[k].id
            BY <1>4, <2>1 DEF UsedIds
        <3>3. \A n, l \in DOMAIN mpMatch' :
                 mpPlatform'[mpMatch'[n]].id = mpPlatform'[mpMatch'[l]].id => n = l
            BY <1>2, <2>2, <3>2 DEF MerchantInv, MatchRule
        <3>4. \A n \in DOMAIN mpProducts' \ mpTodo' :
                 n \in DOMAIN mpMatch' \/ n \in mpAmbiguous' \/ mpPlatform' = <<>> \/ Untaken(n)' = {}
            BY <1>1, <1>2, <2>2, <2>4 DEF MerchantInv, MatchRule
        <3> QED BY <3>1, <3>3, <3>4 DEF MatchRule
    <2>7. ExactRule'
        <3> SUFFICES ASSUME Unmistakable, NEW n \in DOMAIN mpProducts, NEW j \in DOMAIN mpPlatform,
                            Score(n, j) = 100
                     PROVE  \/ n \in mpTodo' /\ mpPlatform[j].id \notin UsedIds'
                            \/ n \in DOMAIN mpMatch' /\ mpMatch'[n] = j
            BY <1>2, <1>7, <1>8 DEF ExactRule
        <3>1. CASE n = m
            <4>1. best = {j}
                BY <1>11, <3>1
            <4> QED BY <2>1, <2>2, <3>1, <4>1
        <3>2. CASE n # m /\ n \in mpTodo /\ mpPlatform[j].id \notin UsedIds
            <4>1. k \in Strongest(m, Untaken(m)) /\ Ahead(m, n)
                BY <1>1, <2>1, <3>2 DEF best
            <4>2. mpPlatform[k].id # mpPlatform[j].id
                BY <1>2, <3>2, <4>1, ExactIsSpared
            <4> QED BY <1>1, <2>3, <3>2, <4>2
        <3>3. CASE n \in DOMAIN mpMatch /\ mpMatch[n] = j
            BY <2>2, <3>3
        <3> QED BY <1>2, <3>1, <3>2, <3>3 DEF MerchantInv, ExactRule
    <2> QED BY <1>9, <2>5, <2>6, <2>7 DEF MerchantInv
<1>13. CASE Cardinality(best) # 1
    <2>1. mpMatch' = mpMatch /\ (mpAmbiguous' = mpAmbiguous \cup {m} \/
                                (mpAmbiguous' = mpAmbiguous /\ ~(Cardinality(best) > 1)))
        BY <1>1, <1>13
    <2>2. ~(Cardinality(best) > 1) => Untaken(m) = {}
        BY <1>5, <1>13
    <2> HIDE DEF best
    <2>3. UsedIds' = UsedIds
        BY <1>2, <2>1 DEF UsedIds
    <2>4. \A n : Untaken(n)' = Untaken(n)
        BY <1>2, <1>10, <2>3 DEF Untaken
    <2>5. MerchantTypeOK'
        BY <1>1, <1>2, <1>3, <2>1 DEF MerchantTypeOK, IsList
    <2>6. MatchRule'
        <3>1. \A n \in DOMAIN mpProducts' \ mpTodo' :
                 n \in DOMAIN mpMatch' \/ n \in mpAmbiguous' \/ mpPlatform' = <<>> \/ Untaken(n)' = {}
            BY <1>1, <1>2, <2>1, <2>2, <2>4 DEF MerchantInv, MatchRule
        <3> QED BY <1>1, <1>2, <2>1, <3>1 DEF MerchantInv, MatchRule
    <2>7. ExactRule'
        <3> SUFFICES ASSUME Unmistakable, NEW n \in DOMAIN mpProducts, NEW j \in DOMAIN mpPlatform,
                            Score(n, j) = 100
                     PROVE  \/ n \in mpTodo' /\ mpPlatform[j].id \notin UsedIds'
                            \/ n \in DOMAIN mpMatch' /\ mpMatch'[n] = j
            BY <1>2, <1>7, <1>8 DEF ExactRule
        <3>1. n # m
            BY <1>11, <1>13
        <3> QED BY <1>1, <1>2, <2>1, <2>3, <3>1 DEF MerchantInv, ExactRule
    <2> QED BY <1>9, <2>5, <2>6, <2>7 DEF MerchantInv
<1> QED BY <1>12, <1>13

LEMMA ReconcileProductsKeeps ==
    ASSUME MerchantInv, ReconcileProducts
    PROVE  MerchantInv'
<1> USE DEF ReconcileProducts
<1>1. MerchantTypeOK'
    BY DEF MerchantInv, MerchantTypeOK, IsList
<1>2. /\ UsedIds' = UsedIds /\ (\A m : Untaken(m)' = Untaken(m)) /\ Unmistakable' = Unmistakable
      /\ \A m, j : Score(m, j)' = Score(m, j)
    BY DEF UsedIds, Untaken, Candidates, Score, Unmistakable
<1>3. MatchRule'
    BY <1>2 DEF MerchantInv, MatchRule
<1>4. ExactRule'
    BY <1>2 DEF MerchantInv, ExactRule
<1>5. SummaryRule'
    <2>1. mpRows' = [m \in DOMAIN mpProducts |-> OutputOf(m)]'
        BY DEF OutputOf, RecordOf, Differences, MergedFields
    <2>2. mpAdded' = Unmatched'
        BY <1>2 DEF Unmatched
    <2>3. mpIssues' = Mismatches'
        BY DEF Mismatches, Mismatch, RecordOf, Differences
    <2>4. mpTodo' = {} /\ mpStep' # "written"
        OBVIOUS
    <2> QED BY <2>1, <2>2, <2>3, <2>4, Zenon DEF SummaryRule
<1> QED BY <1>1, <1>3, <1>4, <1>5 DEF MerchantInv

LEMMA WriteSummaryKeeps ==
    ASSUME MerchantInv, WriteSummary
    PROVE  MerchantInv'
<1> USE DEF WriteSummary
<1>1. MerchantTypeOK'
    BY DEF MerchantInv, MerchantTypeOK, IsList
<1>2. /\ UsedIds' = UsedIds /\ (\A m : Untaken(m)' = Untaken(m)) /\ Unmistakable' = Unmistakable
      /\ \A m, j : Score(m, j)' = Score(m, j)
    BY DEF UsedIds, Untaken, Candidates, Score, Unmistakable
<1>3. MatchRule'
    BY <1>2 DEF MerchantInv, MatchRule
<1>4. ExactRule'
    BY <1>2 DEF MerchantInv, ExactRule
<1>5. SummaryRule'
    <2>1. [m \in DOMAIN mpProducts |-> OutputOf(m)]' = [m \in DOMAIN mpProducts |-> OutputOf(m)]
        BY DEF OutputOf, RecordOf, Differences, MergedFields
    <2>2. Unmatched' = Unmatched /\ Mismatches' = Mismatches
        BY <1>2 DEF Unmatched, Mismatches, Mismatch, RecordOf, Differences
    <2>3. UNCHANGED <<mpPlatform, mpAdded, mpIssues, mpRows, mpProducts, mpTodo>> /\ mpStep = "write"
        OBVIOUS
    <2>4. mpComments' = [at \in {x \in (DOMAIN mpRows) \X Fields : x[2] \in mpRows[x[1]].marked} |->
                           IssueFor(at[1], at[2])]'
        BY DEF IssueFor
    <2>5. \/ /\ mpPlatform = <<>> /\ mpAdded = {} /\ mpIssues = {}
             /\ mpRows = [m \in DOMAIN mpProducts |-> [status |-> "source_only",
                             fixed |-> mpProducts[m], record |-> 0, marked |-> {}]]
          \/ /\ mpTodo = {} /\ mpAdded = Unmatched /\ mpIssues = Mismatches
             /\ mpRows = [m \in DOMAIN mpProducts |-> OutputOf(m)]
        BY <2>3 DEF MerchantInv, SummaryRule
    <2> QED BY <2>1, <2>2, <2>3, <2>4, <2>5 DEF SummaryRule
<1> QED BY <1>1, <1>3, <1>4, <1>5 DEF MerchantInv

LEMMA MerchantStep == MerchantInv /\ [MerchantNext]_mpVars => MerchantInv'
<1> SUFFICES ASSUME MerchantInv, [MerchantNext]_mpVars PROVE MerchantInv'
    OBVIOUS
<1>1. CASE LeaveRun
    BY <1>1, StopRunKeeps DEF LeaveRun
<1>2. CASE UNCHANGED mpVars
    <2> USE <1>2 DEF mpVars
    <2>1. MerchantTypeOK'
        BY DEF MerchantInv, MerchantTypeOK, IsList
    <2>2. /\ UsedIds' = UsedIds /\ (\A m : Untaken(m)' = Untaken(m)) /\ Unmistakable' = Unmistakable
          /\ \A m, j : Score(m, j)' = Score(m, j)
        BY DEF UsedIds, Untaken, Candidates, Score, Unmistakable
    <2>3. MatchRule' /\ ExactRule'
        BY <2>2 DEF MerchantInv, MatchRule, ExactRule
    <2>4. SummaryRule'
        <3>1. [m \in DOMAIN mpProducts |-> OutputOf(m)]' = [m \in DOMAIN mpProducts |-> OutputOf(m)]
            BY DEF OutputOf, RecordOf, Differences, MergedFields
        <3>2. Unmatched' = Unmatched /\ Mismatches' = Mismatches
            BY <2>2 DEF Unmatched, Mismatches, Mismatch, RecordOf, Differences
        <3>3. \A m, f : IssueFor(m, f)' = IssueFor(m, f)
            BY DEF IssueFor
        <3> QED BY <3>1, <3>2, <3>3 DEF MerchantInv, SummaryRule
    <2> QED BY <2>1, <2>3, <2>4 DEF MerchantInv
<1> QED BY <1>1, <1>2, ReadProductsKeeps, ListProductsKeeps, LoadPlatformKeeps, MatchProductKeeps,
           ReconcileProductsKeeps, WriteSummaryKeeps DEF MerchantNext

(* The products, their matches and the summary are always as told above.   *)
THEOREM MerchantInvariant == MerchantSpec => []MerchantInv
BY MerchantStart, MerchantStep, PTL DEF MerchantSpec

-----------------------------------------------------------------------------
(* No product of the platform is lost, there twice or overlooked.          *)
LEMMA SummaryIsWhole == MerchantInv => NoProductLost
<1> SUFFICES ASSUME MerchantInv, mpStep = "written"
             PROVE  NoProductLost
    BY DEF NoProductLost
<1>1. MerchantTypeOK /\ \A m \in DOMAIN mpMatch : mpMatch[m] \in DOMAIN mpPlatform
    BY DEF MerchantInv, MatchRule
<1>2. CASE mpPlatform = <<>> /\ mpAdded = {}
    BY <1>2 DEF NoProductLost
<1>3. CASE /\ mpTodo = {} /\ mpAdded = Unmatched
           /\ mpRows = [m \in DOMAIN mpProducts |-> OutputOf(m)]
    <2>1. \A m \in DOMAIN mpMatch : /\ RecordOf(m) \in DOMAIN mpPlatform
                                   /\ mpPlatform[RecordOf(m)].id = mpPlatform[mpMatch[m]].id
        BY <1>1, RecordIsOne
    <2>2. 0 \notin DOMAIN mpPlatform
        BY <1>1, Places
    <2>3. /\ DOMAIN mpRows = DOMAIN mpProducts
          /\ \A m \in DOMAIN mpRows :
               /\ m \in DOMAIN mpMatch => mpRows[m].record = RecordOf(m) /\ mpRows[m].status = "matched"
               /\ m \notin DOMAIN mpMatch => mpRows[m].record = 0
               /\ mpRows[m].status = "merchant_only" => m \notin DOMAIN mpMatch /\ m \notin mpAmbiguous
        BY <1>3 DEF OutputOf
    <2>4. DOMAIN mpMatch \subseteq DOMAIN mpRows
        BY <1>1, <2>3 DEF MerchantTypeOK
    <2>5. ASSUME NEW j \in DOMAIN mpPlatform,
                 \A k \in DOMAIN mpPlatform : mpPlatform[k].id = mpPlatform[j].id => k = j
          PROVE  \/ j \in mpAdded /\ \A m \in DOMAIN mpRows : mpRows[m].record # j
                 \/ /\ j \notin mpAdded
                    /\ \E m \in DOMAIN mpRows : \A n \in DOMAIN mpRows : mpRows[n].record = j <=> n = m
        <3>1. \A n \in DOMAIN mpRows : mpRows[n].record = j <=>
                 n \in DOMAIN mpMatch /\ mpPlatform[mpMatch[n]].id = mpPlatform[j].id
            BY <2>1, <2>2, <2>3, <2>5
        <3>2. CASE mpPlatform[j].id \notin UsedIds
            BY <1>3, <3>1, <3>2 DEF Unmatched, UsedIds
        <3>3. CASE mpPlatform[j].id \in UsedIds
            <4>1. PICK m \in DOMAIN mpMatch : mpPlatform[mpMatch[m]].id = mpPlatform[j].id
                BY <3>3 DEF UsedIds
            <4>2. \A n \in DOMAIN mpMatch : mpPlatform[mpMatch[n]].id = mpPlatform[j].id => n = m
                BY <4>1 DEF MerchantInv, MatchRule
            <4>3. m \in DOMAIN mpRows /\ \A n \in DOMAIN mpRows : mpRows[n].record = j <=> n = m
                BY <2>4, <3>1, <4>1, <4>2
            <4> QED BY <1>3, <3>3, <4>3 DEF Unmatched
        <3> QED BY <3>2, <3>3
    <2>6. ASSUME NEW m \in DOMAIN mpRows, NEW j \in mpAdded, mpRows[m].status = "merchant_only"
          PROVE  Score(m, j) < Threshold
        <3>1. m \in DOMAIN mpProducts /\ m \notin DOMAIN mpMatch /\ m \notin mpAmbiguous
            BY <2>3, <2>6
        <3>2. j \in DOMAIN mpPlatform /\ mpPlatform[j].id \notin UsedIds /\ mpPlatform # <<>>
            BY <1>3 DEF Unmatched
        <3>3. Untaken(m) = {}
            BY <1>3, <3>1, <3>2 DEF MerchantInv, MatchRule
        <3>4. ~(Score(m, j) >= Threshold)
            BY <3>2, <3>3 DEF Untaken, Candidates
        <3>5. Score(m, j) \in 0 .. 100
            BY <1>1, <3>1, <3>2, ScoreRange
        <3>6. Threshold \in 0 .. 100
            BY MerchantAssumption DEF MerchantAssumption
        <3> QED BY <3>4, <3>5, <3>6
    <2> QED BY <2>5, <2>6 DEF NoProductLost
<1> QED BY <1>2, <1>3 DEF MerchantInv, SummaryRule

THEOREM PlatformKept == MerchantSpec => []NoProductLost
BY MerchantInvariant, SummaryIsWhole, PTL

(* Names that fit only each other meet.                                    *)
LEMMA ExactAreMatched == MerchantInv => ExactNamesMeet
<1> SUFFICES ASSUME MerchantInv, mpStep = "written", Unmistakable,
                    NEW m \in DOMAIN mpProducts, NEW j \in DOMAIN mpPlatform, Score(m, j) = 100
             PROVE  mpRows[m].record = j
    BY DEF ExactNamesMeet
<1>1. mpPlatform # <<>>
    OBVIOUS
<1>2. mpTodo = {} /\ mpRows = [n \in DOMAIN mpProducts |-> OutputOf(n)]
    BY <1>1 DEF MerchantInv, SummaryRule
<1>3. m \in DOMAIN mpMatch /\ mpMatch[m] = j
    BY <1>2 DEF MerchantInv, ExactRule
<1>4. mpRows[m].record = RecordOf(m)
    BY <1>2, <1>3 DEF OutputOf
<1>5. RecordOf(m) \in DOMAIN mpPlatform /\ mpPlatform[RecordOf(m)].id = mpPlatform[j].id
    BY <1>3, RecordIsOne DEF MerchantInv
<1> QED BY <1>4, <1>5 DEF Unmistakable

THEOREM NamesMeet == MerchantSpec => []ExactNamesMeet
BY MerchantInvariant, ExactAreMatched, PTL

(* A mark tells what the two say of its own row.                           *)
LEMMA MarksAreRight == MerchantInv => MarksTellTheirRow
<1> SUFFICES ASSUME MerchantInv, mpStep = "written",
                    NEW m \in DOMAIN mpRows, mpRows[m].status = "matched", NEW f \in Fields
             PROVE  LET ours == mpProducts[m][f] theirs == mpPlatform[mpRows[m].record].fixed[f]
                    IN  /\ mpRows[m].fixed[f] = IF ours = Blank THEN theirs ELSE ours
                        /\ <<m, f>> \in DOMAIN mpComments <=>
                             f # NameField /\ Blank \notin {ours, theirs} /\ Reads[f][ours] # Reads[f][theirs]
                        /\ <<m, f>> \in DOMAIN mpComments =>
                             mpComments[<<m, f>>].ours = ours /\ mpComments[<<m, f>>].theirs = theirs
    BY DEF MarksTellTheirRow
<1>1. /\ mpIssues = Mismatches /\ mpRows = [n \in DOMAIN mpProducts |-> OutputOf(n)]
    BY DEF MerchantInv, SummaryRule
<1>2. m \in DOMAIN mpProducts /\ m \in DOMAIN mpMatch
    BY <1>1 DEF OutputOf
<1> DEFINE j == RecordOf(m)
<1>3. mpRows[m].record = j /\ mpRows[m].fixed = MergedFields(m, j) /\ mpRows[m].marked = Differences(m, j)
    BY <1>1, <1>2 DEF OutputOf
<1>4. mpComments = [at \in {x \in (DOMAIN mpRows) \X Fields : x[2] \in mpRows[x[1]].marked} |->
                      IssueFor(at[1], at[2])]
    BY DEF MerchantInv, SummaryRule
<1>5. <<m, f>> \in DOMAIN mpComments <=> f \in Differences(m, j)
    BY <1>3, <1>4
<1>6. ASSUME f \in Differences(m, j)
      PROVE  mpComments[<<m, f>>].ours = mpProducts[m][f] /\ mpComments[<<m, f>>].theirs = mpPlatform[j].fixed[f]
    <2>1. mpComments[<<m, f>>] = IssueFor(m, f)
        BY <1>4, <1>5, <1>6
    <2>2. Mismatch(m, f) \in mpIssues
        BY <1>1, <1>2, <1>6 DEF Mismatches
    <2>3. \A i \in mpIssues : i.sheet = mpBook[m[1]].title /\ i.row = m[2] /\ i.field = f
             => i = Mismatch(m, f)
        <3> SUFFICES ASSUME NEW i \in mpIssues, i.sheet = mpBook[m[1]].title, i.row = m[2], i.field = f
                     PROVE  i = Mismatch(m, f)
            OBVIOUS
        <3>1. PICK n \in DOMAIN mpMatch : \E g \in Differences(n, RecordOf(n)) : i = Mismatch(n, g)
            BY <1>1 DEF Mismatches
        <3>2. PICK g \in Differences(n, RecordOf(n)) : i = Mismatch(n, g)
            BY <3>1
        <3>3. mpBook[n[1]].title = mpBook[m[1]].title /\ n[2] = m[2] /\ g = f
            BY <3>2 DEF Mismatch
        <3>4. n \in DOMAIN mpProducts
            BY DEF MerchantInv, MerchantTypeOK
        <3>5. /\ \E k \in DOMAIN mpBook : \E r \in DOMAIN mpBook[k].cells : m = <<k, r>>
              /\ \E k \in DOMAIN mpBook : \E r \in DOMAIN mpBook[k].cells : n = <<k, r>>
              /\ mpBook \in Books
            BY <1>2, <3>4 DEF MerchantInv, MerchantTypeOK
        <3>6. n[1] \in DOMAIN mpBook /\ m[1] \in DOMAIN mpBook /\ m = <<m[1], m[2]>> /\ n = <<n[1], n[2]>>
            BY <3>5
        <3>7. n[1] = m[1]
            BY <3>3, <3>5, <3>6, MerchantAssumption DEF MerchantAssumption
        <3>8. n = m
            BY <3>3, <3>6, <3>7
        <3> QED BY <3>2, <3>3, <3>8
    <2>4. Mismatch(m, f).sheet = mpBook[m[1]].title /\ Mismatch(m, f).row = m[2] /\ Mismatch(m, f).field = f
        BY DEF Mismatch
    <2>5. IssueFor(m, f) = Mismatch(m, f)
        BY <2>2, <2>3, <2>4 DEF IssueFor
    <2> QED BY <2>1, <2>5 DEF Mismatch
<1>7. mpRows[m].fixed[f] = IF mpProducts[m][f] = Blank THEN mpPlatform[j].fixed[f] ELSE mpProducts[m][f]
    BY <1>3 DEF MergedFields
<1>8. f \in Differences(m, j) <=>
         /\ f # NameField /\ Blank \notin {mpProducts[m][f], mpPlatform[j].fixed[f]}
         /\ Reads[f][mpProducts[m][f]] # Reads[f][mpPlatform[j].fixed[f]]
    BY DEF Differences
<1> QED BY <1>3, <1>5, <1>6, <1>7, <1>8

THEOREM MarksRight == MerchantSpec => []MarksTellTheirRow
BY MerchantInvariant, MarksAreRight, PTL

-----------------------------------------------------------------------------
(* RuleRegistry: the requests at work, the versions and the drafts.        *)

-----------------------------------------------------------------------------
(* The rules of one schema.  A request on its way relies on what it has    *)
(* seen or written: the file from then on, the row once it passed it, and  *)
(* the record of its draft all the time, unless an edit overlaps.          *)

DraftRecord == [status : {"draft", "published"}, config : Configs]
NewCall == [at |-> "new", draft |-> NoDraft]
RuleSteps == {"look", "open", "fill", "row", "insert", "mark", "save", "replace", "ended"}
RuleCall == [at : RuleSteps,
             draft : Drafts \cup {NoDraft}, config : Configs, record : DraftRecord]

RuleTypeOK ==
  /\ ruBase \in BOOLEAN
  /\ ruFile \in [RuleVersions -> Contents \cup {NoContent, Torn}]
  /\ ruRow \in [RuleVersions -> Contents \cup {NoContent}]
  /\ DOMAIN ruDraft \subseteq Drafts
  /\ \A d \in DOMAIN ruDraft : ruDraft[d] \in DraftRecord
  /\ ruTemp \in [Drafts -> DraftRecord \cup {NoRecord}]
  /\ ruCall \in [RuleCalls -> RuleCall \cup {NewCall}]
  /\ ruAnswers \subseteq Configs
  /\ ruClobbered \subseteq RuleVersions
  /\ ruStale \subseteq Drafts

Acting(c) == ruCall[c].at \notin {"new", "ended"}
Publisher(c) == Acting(c) /\ ruCall[c].record.status = "published"

(* A publication goes on with what it has seen to be published.           *)
CallFits(c) ==
  Acting(c) =>
    /\ ruCall[c].draft = NoDraft \/ ruCall[c].draft \in DOMAIN ruDraft
    /\ ruCall[c].at \in {"save", "replace"} => ruCall[c].draft # NoDraft
    /\ ruCall[c].at \notin {"save", "replace"} => Publisher(c)
    /\ Publisher(c) => Fit(ruCall[c].config)

(* It writes an unclobbered file alone, and past it finds its content.     *)
FileFits(c) ==
  Publisher(c) =>
    /\ ruCall[c].at = "fill" /\ Version(c) \notin ruClobbered =>
         /\ ruFile[Version(c)] = Torn
         /\ \A e \in RuleCalls :
              Publisher(e) /\ ruCall[e].at = "fill" /\ Version(e) = Version(c) => e = c
    /\ ruCall[c].at \in {"row", "insert"} /\ Version(c) \notin ruClobbered =>
         ruFile[Version(c)] = Content(c)
    /\ ruCall[c].at \in {"mark", "save", "replace"} => Kept(ruCall[c].config)

(* Publications of a draft no edit overlaps agree on what they publish.    *)
DraftFits(d) ==
  d \notin ruStale =>
    /\ ruDraft[d].status = "published" => Fit(ruDraft[d].config) /\ Kept(ruDraft[d].config)
    /\ \A c \in RuleCalls : Publishes(c, d) =>
         /\ ruCall[c].config = ruDraft[d].config
         /\ ruCall[c].record.config = ruDraft[d].config
         /\ ruCall[c].at = "replace" => ruTemp[d] \in {NoRecord, ruCall[c].record}
         /\ \A e \in RuleCalls : ~Edits(e, d)
    /\ \A c \in RuleCalls : Edits(c, d) /\ ruCall[c].at = "replace" =>
         ruTemp[d] = NoRecord \/ ruTemp[d].status = "draft"

CallRule == \A c \in RuleCalls : CallFits(c)
FileRule == \A c \in RuleCalls : FileFits(c)
AnswerRule == \A g \in ruAnswers : Fit(g) /\ Kept(g)
DraftRule == \A d \in DOMAIN ruDraft : DraftFits(d)

RuleInv == RuleTypeOK /\ CallRule /\ FileRule /\ AnswerRule /\ DraftRule

(* A request at work has a record of all four fields.                      *)
LEMMA CallsAtWork ==
  ASSUME RuleTypeOK, NEW c \in RuleCalls, Acting(c)
  PROVE  ruCall[c] \in RuleCall
BY DEF RuleTypeOK, Acting, NewCall

(* Where a request goes, all others stay where they are.                   *)
LEMMA ProceedsOn ==
  ASSUME RuleTypeOK, NEW c \in RuleCalls, Acting(c), NEW at \in RuleSteps, Proceeds(c, at)
  PROVE  /\ ruCall' \in [RuleCalls -> RuleCall \cup {NewCall}]
         /\ \A e \in RuleCalls : e # c => ruCall'[e] = ruCall[e]
         /\ ruCall'[c].at = at /\ ruCall'[c].draft = ruCall[c].draft
         /\ ruCall'[c].config = ruCall[c].config /\ ruCall'[c].record = ruCall[c].record
<1>1. ruCall[c] \in RuleCall
  BY CallsAtWork
<1>2. ruCall \in [RuleCalls -> RuleCall \cup {NewCall}]
  BY DEF RuleTypeOK
<1>3. [ruCall[c] EXCEPT !.at = at] \in RuleCall
  BY <1>1 DEF RuleCall
<1>4. ruCall' = [ruCall EXCEPT ![c] = [ruCall[c] EXCEPT !.at = at]]
  BY DEF Proceeds
<1>5. ruCall'[c] = [ruCall[c] EXCEPT !.at = at]
  BY <1>2, <1>4
<1> QED
  BY <1>1, <1>2, <1>3, <1>4, <1>5 DEF RuleCall

(* A call that starts.                                                     *)
LEMMA CallStarts ==
  ASSUME RuleTypeOK, NEW c \in RuleCalls, NEW x \in RuleCall,
         ruCall' = [ruCall EXCEPT ![c] = x]
  PROVE  /\ ruCall' \in [RuleCalls -> RuleCall \cup {NewCall}]
         /\ \A e \in RuleCalls : e # c => ruCall'[e] = ruCall[e]
         /\ ruCall'[c] = x
BY DEF RuleTypeOK

LEMMA RuleTypeStep ==
  ASSUME RuleRegistryAssumption, RuleTypeOK, CallRule, [RuleNext]_ruVars
  PROVE  RuleTypeOK'
<1> USE DEF RuleTypeOK
<1>1. ASSUME NEW d \in Drafts, CreateDraft(d) PROVE RuleTypeOK'
  BY <1>1 DEF CreateDraft, DraftRecord
<1>2. ASSUME NEW c \in RuleCalls, EditDraft(c) PROVE RuleTypeOK'
  <2>1. PICK d \in DOMAIN ruDraft, g \in Configs :
          /\ ruCall' = [ruCall EXCEPT ![c] = [at |-> "save", draft |-> d, config |-> g,
                                              record |-> [status |-> "draft", config |-> g]]]
          /\ ruStale' = ruStale \cup {e \in {d} : \E q \in RuleCalls : Publishes(q, e)}
    BY <1>2 DEF EditDraft
  <2>2. [at |-> "save", draft |-> d, config |-> g, record |-> [status |-> "draft", config |-> g]] \in RuleCall
    BY DEF RuleCall, DraftRecord, RuleSteps
  <2> QED
    BY <1>2, <2>1, <2>2 DEF EditDraft
<1>3. ASSUME NEW c \in RuleCalls, WriteTemp(c) PROVE RuleTypeOK'
  <2>1. Acting(c)
    BY <1>3 DEF WriteTemp, Acting
  <2>2. ruCall[c] \in RuleCall /\ ruCall[c].record \in DraftRecord
    BY <2>1, CallsAtWork DEF RuleCall
  <2>3. ruCall' \in [RuleCalls -> RuleCall \cup {NewCall}]
    BY <1>3, <2>1, ProceedsOn DEF WriteTemp, RuleSteps
  <2> QED
    BY <1>3, <2>2, <2>3 DEF WriteTemp
<1>4. ASSUME NEW c \in RuleCalls, ReplaceDraft(c) PROVE RuleTypeOK'
  <2>1. Acting(c)
    BY <1>4 DEF ReplaceDraft, Acting
  <2>2. ruCall[c] \in RuleCall /\ ruCall[c].config \in Configs
    BY <2>1, CallsAtWork DEF RuleCall
  <2>3. ruCall' \in [RuleCalls -> RuleCall \cup {NewCall}]
    BY <1>4, <2>1, ProceedsOn DEF ReplaceDraft, RuleSteps
  <2>4. ruCall[c].draft \in DOMAIN ruDraft /\ ruCall[c].draft \in Drafts
    BY <1>4, <2>1 DEF CallRule, CallFits, ReplaceDraft
  <2>5. CASE ruTemp[ruCall[c].draft] = NoRecord
    BY <1>4, <2>3, <2>5 DEF ReplaceDraft
  <2>6. CASE ruTemp[ruCall[c].draft] # NoRecord
    <3>1. ruTemp[ruCall[c].draft] \in DraftRecord
      BY <2>4, <2>6
    <3>2. /\ ruDraft' = [ruDraft EXCEPT ![ruCall[c].draft] = ruTemp[ruCall[c].draft]]
          /\ ruTemp' = [ruTemp EXCEPT ![ruCall[c].draft] = NoRecord]
          /\ ruAnswers' = ruAnswers \cup {g \in {ruCall[c].config} : ruCall[c].record.status = "published"}
          /\ UNCHANGED <<ruBase, ruFile, ruRow, ruClobbered, ruStale>>
      BY <1>4, <2>6 DEF ReplaceDraft, Answered
    <3>3. ruTemp' \in [Drafts -> DraftRecord \cup {NoRecord}] /\ ruAnswers' \subseteq Configs
      BY <3>2, <2>2
    <3>4. DOMAIN ruDraft' = DOMAIN ruDraft /\ \A d \in DOMAIN ruDraft : ruDraft'[d] \in DraftRecord
      BY <3>1, <3>2
    <3> QED
      BY <2>3, <3>2, <3>3, <3>4
  <2> QED
    BY <2>5, <2>6
<1>5. ASSUME NEW c \in RuleCalls, PublishSchema(c) PROVE RuleTypeOK'
  <2>1. PICK g \in Configs : ruCall' = [ruCall EXCEPT ![c] = Publication(NoDraft, g)]
    BY <1>5 DEF PublishSchema
  <2>2. Publication(NoDraft, g) \in RuleCall
    BY DEF RuleCall, DraftRecord, RuleSteps, Publication
  <2> QED
    BY <1>5, <2>1, <2>2 DEF PublishSchema
<1>6. ASSUME NEW c \in RuleCalls, PublishDraft(c) PROVE RuleTypeOK'
  <2>1. PICK d \in DOMAIN ruDraft :
          /\ ruCall' = [ruCall EXCEPT ![c] = Publication(d, ruDraft[d].config)]
          /\ ruStale' = ruStale \cup {e \in {d} : \E q \in RuleCalls : Edits(q, e)}
    BY <1>6 DEF PublishDraft
  <2>2. Publication(d, ruDraft[d].config) \in RuleCall
    BY DEF RuleCall, DraftRecord, RuleSteps, Publication
  <2> QED
    BY <1>6, <2>1, <2>2 DEF PublishDraft
<1>7. ASSUME NEW c \in RuleCalls, LookUpFile(c) PROVE RuleTypeOK'
  BY <1>7, ProceedsOn DEF LookUpFile, Acting, RuleSteps, Stored
<1>8. ASSUME NEW c \in RuleCalls, OpenFile(c) PROVE RuleTypeOK'
  <2>1. Acting(c)
    BY <1>8 DEF OpenFile, Acting
  <2>2. ruCall[c].config \in Configs
    BY <2>1, CallsAtWork DEF RuleCall
  <2>3. Version(c) \in RuleVersions
    BY <2>2 DEF Version, Configs
  <2>4. ruCall' \in [RuleCalls -> RuleCall \cup {NewCall}]
    BY <1>8, <2>1, ProceedsOn DEF OpenFile, RuleSteps
  <2> QED
    BY <1>8, <2>3, <2>4 DEF OpenFile
<1>9. ASSUME NEW c \in RuleCalls, FillFile(c) PROVE RuleTypeOK'
  <2>1. Acting(c)
    BY <1>9 DEF FillFile, Acting
  <2>2. ruCall[c].config \in Configs /\ Fit(ruCall[c].config)
    BY <1>9, <2>1, CallsAtWork DEF RuleCall, CallRule, CallFits, FillFile
  <2>3. Content(c) \in Contents
    BY <2>2 DEF Content, Configs, Fit
  <2>4. ruCall' \in [RuleCalls -> RuleCall \cup {NewCall}]
    BY <1>9, <2>1, ProceedsOn DEF FillFile, RuleSteps, Stored
  <2>5. PICK x \in {Content(c), Torn} : ruFile' = [ruFile EXCEPT ![Version(c)] = x]
    BY <1>9 DEF FillFile
  <2>6. ruFile' \in [RuleVersions -> Contents \cup {NoContent, Torn}]
    BY <2>3, <2>5
  <2> QED
    BY <1>9, <2>4, <2>6 DEF FillFile
<1>10. ASSUME NEW c \in RuleCalls, LookUpRow(c) PROVE RuleTypeOK'
  BY <1>10, ProceedsOn DEF LookUpRow, Acting, RuleSteps
<1>11. ASSUME NEW c \in RuleCalls, InsertRule(c) PROVE RuleTypeOK'
  <2>1. Acting(c)
    BY <1>11 DEF InsertRule, Acting
  <2>2. ruCall[c].config \in Configs /\ Fit(ruCall[c].config)
    BY <1>11, <2>1, CallsAtWork DEF RuleCall, CallRule, CallFits, InsertRule
  <2>3. Content(c) \in Contents
    BY <2>2 DEF Content, Configs, Fit
  <2>4. ruCall' \in [RuleCalls -> RuleCall \cup {NewCall}]
    BY <1>11, <2>1, ProceedsOn DEF InsertRule, RuleSteps
  <2> QED
    BY <1>11, <2>3, <2>4 DEF InsertRule
<1>12. ASSUME NEW c \in RuleCalls, AnswerSchema(c) PROVE RuleTypeOK'
  <2>1. Acting(c)
    BY <1>12 DEF AnswerSchema, Acting
  <2>2. ruCall[c].config \in Configs
    BY <2>1, CallsAtWork DEF RuleCall
  <2>4. ruCall' \in [RuleCalls -> RuleCall \cup {NewCall}]
    BY <1>12, <2>1, ProceedsOn DEF AnswerSchema, RuleSteps
  <2> QED
    BY <1>12, <2>2, <2>4 DEF AnswerSchema, Answered
<1>13. ASSUME NEW c \in RuleCalls, ReadDraft(c) PROVE RuleTypeOK'
  <2>1. Acting(c)
    BY <1>13 DEF ReadDraft, Acting
  <2>2. ruCall[c] \in RuleCall
    BY <2>1, CallsAtWork
  <2>3. ruDraft[ruCall[c].draft] \in DraftRecord
    BY <1>13, <2>1 DEF CallRule, CallFits, ReadDraft
  <2>4. [ruCall[c] EXCEPT !.at = "save", !.record.config = ruDraft[ruCall[c].draft].config] \in RuleCall
    BY <2>2, <2>3 DEF RuleCall, RuleSteps, DraftRecord
  <2>5. ruCall' = [ruCall EXCEPT ![c] = [ruCall[c] EXCEPT !.at = "save", !.record.config = ruDraft[ruCall[c].draft].config]]
    BY <1>13 DEF ReadDraft
  <2> QED
    BY <1>13, <2>4, <2>5 DEF ReadDraft
<1>14. ASSUME NEW c \in RuleCalls, LeaveCall(c) PROVE RuleTypeOK'
  BY <1>14, ProceedsOn DEF LeaveCall, Acting, RuleSteps
<1>15. ASSUME UNCHANGED ruVars PROVE RuleTypeOK'
  BY <1>15 DEF ruVars
<1> QED
  BY <1>1, <1>2, <1>3, <1>4, <1>5, <1>6, <1>7, <1>8, <1>9, <1>10, <1>11, <1>12, <1>13, <1>14, <1>15
  DEF RuleNext

-----------------------------------------------------------------------------
(* What is stored.                                                         *)

(* Kept, without the name of what serves, now and after a step.            *)
LEMMA KeptIs ==
  ASSUME RuleTypeOK, NEW g
  PROVE  Kept(g) <=> /\ ruBase => ruRow[g.version] = g.content
                     /\ g.version \notin ruClobbered => ruFile[g.version] = g.content
<1>1. ruBase \in BOOLEAN
  BY DEF RuleTypeOK
<1>2. CASE ruBase
  BY <1>2 DEF Kept, Served
<1>3. CASE ~ruBase
  BY <1>3 DEF Kept, Served
<1> QED
  BY <1>1, <1>2, <1>3

LEMMA KeptAfter ==
  ASSUME RuleTypeOK, [RuleNext]_ruVars, NEW g
  PROVE  /\ ruBase' = ruBase
         /\ Kept(g)' <=> /\ ruBase => ruRow'[g.version] = g.content
                         /\ g.version \notin ruClobbered' => ruFile'[g.version] = g.content
<1>1. ruBase \in BOOLEAN
  BY DEF RuleTypeOK
<1>2. ruBase' = ruBase
  BY DEF RuleNext, ruVars, CreateDraft, EditDraft, WriteTemp, ReplaceDraft, PublishSchema, PublishDraft,
         LookUpFile, OpenFile, FillFile, LookUpRow, InsertRule, AnswerSchema, ReadDraft, LeaveCall
<1>3. CASE ruBase
  <2>1. ruBase'
    BY <1>2, <1>3
  <2>2. Served(g.version)' = ruRow'[g.version]
    BY <2>1 DEF Served
  <2> QED
    BY <1>2, <1>3, <2>1, <2>2, Zenon DEF Kept
<1>4. CASE ~ruBase
  <2>1. ~ruBase'
    BY <1>2, <1>4, Zenon
  <2>2. Served(g.version)' = ruFile'[g.version]
    BY <2>1 DEF Served
  <2> QED
    BY <1>2, <1>4, <2>1, <2>2, Zenon DEF Kept
<1> QED
  BY <1>1, <1>2, <1>3, <1>4

(* What a publication at work has: a version and a content.                *)
LEMMA PublisherHas ==
  ASSUME RuleTypeOK, CallRule, NEW c \in RuleCalls, Publisher(c)
  PROVE  /\ ruCall[c] \in RuleCall /\ ruCall[c].config \in Configs /\ Fit(ruCall[c].config)
         /\ Version(c) \in RuleVersions /\ Content(c) \in Contents
         /\ Content(c) = ruCall[c].config.content /\ Version(c) = ruCall[c].config.version
<1>1. ruCall[c] \in RuleCall
  BY CallsAtWork DEF Publisher
<1>2. ruCall[c].config \in Configs
  BY <1>1 DEF RuleCall
<1>3. Fit(ruCall[c].config)
  BY DEF CallRule, CallFits, Publisher
<1> QED
  BY <1>1, <1>2, <1>3 DEF Content, Version, Configs, Fit

LEMMA FitContent ==
  ASSUME NEW g \in Configs, Fit(g)
  PROVE  g.version \in RuleVersions /\ g.content \in Contents
BY DEF Configs, Fit

(* Who opens a file.                                                       *)
LEMMA OpenFileDoes ==
  ASSUME RuleTypeOK, CallRule, NEW c \in RuleCalls, OpenFile(c)
  PROVE  /\ Publisher(c) /\ Version(c) \in RuleVersions
         /\ ruFile' = [ruFile EXCEPT ![Version(c)] = Torn] /\ ruFile'[Version(c)] = Torn
         /\ ruClobbered \subseteq ruClobbered'
         /\ ruFile[Version(c)] # NoContent => Version(c) \in ruClobbered'
         /\ \A v \in RuleVersions : v # Version(c) => ruFile'[v] = ruFile[v]
         /\ UNCHANGED <<ruBase, ruRow>>
<1>1. Publisher(c)
  BY DEF OpenFile, CallRule, CallFits, Publisher, Acting
<1>2. Version(c) \in RuleVersions
  BY <1>1, PublisherHas
<1> QED
  BY <1>1, <1>2 DEF OpenFile, RuleTypeOK

(* Who fills it: no one else, if it is not clobbered.                      *)
LEMMA FillFileDoes ==
  ASSUME RuleRegistryAssumption, RuleTypeOK, CallRule, FileRule,
         NEW c \in RuleCalls, FillFile(c)
  PROVE  /\ Publisher(c) /\ Version(c) \in RuleVersions
         /\ Version(c) \notin ruClobbered =>
              ruFile'[Version(c)] = Content(c) /\ ruFile[Version(c)] = Torn
         /\ \A v \in RuleVersions : v # Version(c) => ruFile'[v] = ruFile[v]
         /\ UNCHANGED <<ruBase, ruRow, ruClobbered>>
<1>1. Publisher(c) /\ ruCall[c].at = "fill"
  BY DEF FillFile, CallRule, CallFits, Publisher, Acting
<1>2. Version(c) \in RuleVersions
  BY <1>1, PublisherHas
<1>3. PICK x \in {Content(c)} \cup {t \in {Torn} : Version(c) \in ruClobbered} :
         ruFile' = [ruFile EXCEPT ![Version(c)] = x]
  BY DEF FillFile
<1>4. Version(c) \notin ruClobbered => x = Content(c)
  OBVIOUS
<1>5. Version(c) \notin ruClobbered => ruFile[Version(c)] = Torn
  BY <1>1 DEF FileRule, FileFits
<1> QED
  BY <1>1, <1>2, <1>3, <1>4, <1>5 DEF FillFile, RuleTypeOK

LEMMA InsertRuleDoes ==
  ASSUME RuleTypeOK, CallRule, NEW c \in RuleCalls, InsertRule(c)
  PROVE  /\ Publisher(c) /\ Version(c) \in RuleVersions
         /\ \A v \in RuleVersions : ruRow[v] # NoContent => ruRow'[v] = ruRow[v]
         /\ ruRow[Version(c)] = NoContent => ruRow'[Version(c)] = Content(c)
         /\ UNCHANGED <<ruBase, ruFile, ruClobbered>>
<1>1. Publisher(c)
  BY DEF InsertRule, CallRule, CallFits, Publisher, Acting
<1>2. Version(c) \in RuleVersions
  BY <1>1, PublisherHas
<1> QED
  BY <1>1, <1>2 DEF InsertRule, RuleTypeOK

(* All other steps leave what is stored alone.                             *)
StoreSame == UNCHANGED <<ruBase, ruFile, ruRow, ruClobbered>>

LEMMA StoresAlone ==
  ASSUME [RuleNext]_ruVars, \A c \in RuleCalls : ~OpenFile(c) /\ ~FillFile(c) /\ ~InsertRule(c)
  PROVE  StoreSame
BY DEF RuleNext, ruVars, StoreSame, CreateDraft, EditDraft, WriteTemp, ReplaceDraft, PublishSchema,
       PublishDraft, LookUpFile, LookUpRow, AnswerSchema, ReadDraft, LeaveCall

(* What was once kept is kept.                                             *)
LEMMA KeptStep ==
  ASSUME RuleRegistryAssumption, RuleTypeOK, CallRule, FileRule, [RuleNext]_ruVars,
         NEW g \in Configs, Fit(g), Kept(g)
  PROVE  Kept(g)'
<1>1. g.version \in RuleVersions /\ g.content \in Contents
  BY FitContent
<1>2. g.content # NoContent /\ g.content # Torn
  BY <1>1 DEF RuleRegistryAssumption
<1>3. /\ ruBase => ruRow[g.version] = g.content
      /\ g.version \notin ruClobbered => ruFile[g.version] = g.content
  BY KeptIs
<1>4. ASSUME NEW c \in RuleCalls, OpenFile(c) PROVE Kept(g)'
  <2>1. g.version \notin ruClobbered' => ruFile'[g.version] = ruFile[g.version] /\ g.version \notin ruClobbered
    BY <1>1, <1>2, <1>3, <1>4, OpenFileDoes
  <2>2. ruRow' = ruRow
    BY <1>4, OpenFileDoes
  <2> QED
    BY <1>3, <2>1, <2>2, KeptAfter, Zenon
<1>5. ASSUME NEW c \in RuleCalls, FillFile(c) PROVE Kept(g)'
  <2>1. g.version \notin ruClobbered' => ruFile'[g.version] = ruFile[g.version] /\ g.version \notin ruClobbered
    BY <1>1, <1>2, <1>3, <1>5, FillFileDoes
  <2>2. ruRow' = ruRow
    BY <1>5, FillFileDoes
  <2> QED
    BY <1>3, <2>1, <2>2, KeptAfter, Zenon
<1>6. ASSUME NEW c \in RuleCalls, InsertRule(c) PROVE Kept(g)'
  <2>1. ruRow[g.version] # NoContent => ruRow'[g.version] = ruRow[g.version]
    BY <1>1, <1>6, InsertRuleDoes
  <2>2. ruFile' = ruFile /\ ruClobbered' = ruClobbered
    BY <1>6, InsertRuleDoes
  <2> QED
    BY <1>2, <1>3, <2>1, <2>2, KeptAfter, Zenon
<1>7. CASE StoreSame
  <2>1. ruFile' = ruFile /\ ruRow' = ruRow /\ ruClobbered' = ruClobbered
    BY <1>7 DEF StoreSame
  <2> QED
    BY <1>3, <2>1, KeptAfter, Zenon
<1> QED
  BY <1>4, <1>5, <1>6, <1>7, StoresAlone

-----------------------------------------------------------------------------
(* The requests.                                                           *)

(* A step of one of them disturbs what holds of no other.                  *)
LEMMA CallRuleFor ==
  ASSUME RuleTypeOK, CallRule, NEW c \in RuleCalls,
         \A e \in RuleCalls : e # c => ruCall'[e] = ruCall[e],
         DOMAIN ruDraft \subseteq DOMAIN ruDraft', CallFits(c)'
  PROVE  CallRule'
BY DEF CallRule, CallFits, Acting, Publisher

LEMMA CallRuleGoes ==
  ASSUME RuleTypeOK, CallRule, NEW c \in RuleCalls, Acting(c),
         NEW at \in RuleSteps, Proceeds(c, at), DOMAIN ruDraft \subseteq DOMAIN ruDraft',
         at = "ended" \/ (at \in {"save", "replace"} <=> ruCall[c].at \in {"save", "replace"})
  PROVE  CallRule'
<1>1. /\ \A e \in RuleCalls : e # c => ruCall'[e] = ruCall[e]
      /\ ruCall'[c].at = at /\ ruCall'[c].draft = ruCall[c].draft
      /\ ruCall'[c].config = ruCall[c].config /\ ruCall'[c].record = ruCall[c].record
  BY ProceedsOn
<1>2. CallFits(c)
  BY DEF CallRule
<1>3. ruCall[c].at \in {"save", "replace"} \/ ruCall[c].at \notin {"save", "replace"}
  OBVIOUS
<1>4. CallFits(c)'
  <2>1. Acting(c)' => /\ ruCall'[c].draft = NoDraft \/ ruCall'[c].draft \in DOMAIN ruDraft'
                      /\ ruCall'[c].at \in {"save", "replace"} => ruCall'[c].draft # NoDraft
    BY <1>1, <1>2 DEF CallFits
  <2>2. Publisher(c)' => Publisher(c)
    BY <1>1 DEF Publisher
  <2>3. Acting(c)' /\ ruCall'[c].at \notin {"save", "replace"} => Publisher(c)'
    BY <1>1, <1>2, <1>3 DEF CallFits, Publisher, Acting
  <2>4. Publisher(c)' => Fit(ruCall'[c].config)
    BY <1>1, <1>2, <2>2 DEF CallFits
  <2> QED
    BY <2>1, <2>3, <2>4 DEF CallFits
<1> QED
  BY <1>1, <1>4, CallRuleFor

LEMMA CallRuleStep ==
  ASSUME RuleTypeOK, RuleTypeOK', CallRule, [RuleNext]_ruVars
  PROVE  CallRule'
<1>1. ASSUME NEW d \in Drafts, CreateDraft(d) PROVE CallRule'
  <2>1. ruCall' = ruCall /\ DOMAIN ruDraft \subseteq DOMAIN ruDraft'
    BY <1>1 DEF CreateDraft
  <2> QED
    BY <2>1 DEF CallRule, CallFits, Acting, Publisher
<1>2. ASSUME NEW c \in RuleCalls, EditDraft(c) PROVE CallRule'
  <2>1. PICK d \in DOMAIN ruDraft, g \in Configs :
          ruCall' = [ruCall EXCEPT ![c] = [at |-> "save", draft |-> d, config |-> g,
                                           record |-> [status |-> "draft", config |-> g]]]
    BY <1>2 DEF EditDraft
  <2>2. /\ \A e \in RuleCalls : e # c => ruCall'[e] = ruCall[e]
        /\ ruCall'[c] = [at |-> "save", draft |-> d, config |-> g,
                         record |-> [status |-> "draft", config |-> g]]
    BY <2>1 DEF RuleTypeOK
  <2>3. ruDraft' = ruDraft
    BY <1>2 DEF EditDraft
  <2>4. d # NoDraft
    BY RuleRegistryAssumption DEF RuleTypeOK, RuleRegistryAssumption
  <2>5. CallFits(c)'
    BY <2>2, <2>3, <2>4 DEF CallFits, Publisher
  <2> QED
    BY <2>2, <2>3, <2>5, CallRuleFor
<1>3. ASSUME NEW c \in RuleCalls, WriteTemp(c) PROVE CallRule'
  BY <1>3, CallRuleGoes DEF WriteTemp, Acting, RuleSteps
<1>4. ASSUME NEW c \in RuleCalls, ReplaceDraft(c) PROVE CallRule'
  <2>1. Acting(c) /\ Proceeds(c, "ended")
    BY <1>4 DEF ReplaceDraft, Acting
  <2>2. DOMAIN ruDraft \subseteq DOMAIN ruDraft'
    BY <1>4 DEF ReplaceDraft
  <2> QED
    BY <2>1, <2>2, CallRuleGoes DEF RuleSteps
<1>5. ASSUME NEW c \in RuleCalls, PublishSchema(c) PROVE CallRule'
  <2>1. PICK g \in Configs : Fit(g) /\ ruCall' = [ruCall EXCEPT ![c] = Publication(NoDraft, g)]
    BY <1>5 DEF PublishSchema
  <2>2. /\ \A e \in RuleCalls : e # c => ruCall'[e] = ruCall[e]
        /\ ruCall'[c] = Publication(NoDraft, g)
    BY <2>1 DEF RuleTypeOK
  <2>3. ruDraft' = ruDraft
    BY <1>5 DEF PublishSchema
  <2>4. CallFits(c)'
    BY <2>1, <2>2 DEF CallFits, Publisher, Acting, Publication, Fit
  <2> QED
    BY <2>2, <2>3, <2>4, CallRuleFor
<1>6. ASSUME NEW c \in RuleCalls, PublishDraft(c) PROVE CallRule'
  <2>1. PICK d \in DOMAIN ruDraft :
          Fit(ruDraft[d].config) /\ ruCall' = [ruCall EXCEPT ![c] = Publication(d, ruDraft[d].config)]
    BY <1>6 DEF PublishDraft
  <2>2. /\ \A e \in RuleCalls : e # c => ruCall'[e] = ruCall[e]
        /\ ruCall'[c] = Publication(d, ruDraft[d].config)
    BY <2>1 DEF RuleTypeOK
  <2>3. ruDraft' = ruDraft
    BY <1>6 DEF PublishDraft
  <2>4. CallFits(c)'
    BY <2>1, <2>2, <2>3 DEF CallFits, Publisher, Acting, Publication, Fit
  <2> QED
    BY <2>2, <2>3, <2>4, CallRuleFor
<1>7. ASSUME NEW c \in RuleCalls, LookUpFile(c) PROVE CallRule'
  <2>1. Acting(c) /\ ruDraft' = ruDraft /\ ruCall[c].at = "look"
    BY <1>7 DEF LookUpFile, Acting
  <2>2. PICK at \in {"open", "row", "mark", "ended"} : Proceeds(c, at)
    BY <1>7 DEF LookUpFile, Stored
  <2> QED
    BY <2>1, <2>2, CallRuleGoes DEF RuleSteps
<1>8. ASSUME NEW c \in RuleCalls, OpenFile(c) PROVE CallRule'
  BY <1>8, CallRuleGoes DEF OpenFile, Acting, RuleSteps
<1>9. ASSUME NEW c \in RuleCalls, FillFile(c) PROVE CallRule'
  <2>1. Acting(c) /\ ruDraft' = ruDraft /\ ruCall[c].at = "fill"
    BY <1>9 DEF FillFile, Acting
  <2>2. PICK at \in {"row", "mark"} : Proceeds(c, at)
    BY <1>9 DEF FillFile, Stored
  <2> QED
    BY <2>1, <2>2, CallRuleGoes DEF RuleSteps
<1>10. ASSUME NEW c \in RuleCalls, LookUpRow(c) PROVE CallRule'
  <2>1. Acting(c) /\ ruDraft' = ruDraft /\ ruCall[c].at = "row"
    BY <1>10 DEF LookUpRow, Acting
  <2>2. PICK at \in {"insert", "mark", "ended"} : Proceeds(c, at)
    BY <1>10 DEF LookUpRow
  <2> QED
    BY <2>1, <2>2, CallRuleGoes DEF RuleSteps
<1>11. ASSUME NEW c \in RuleCalls, InsertRule(c) PROVE CallRule'
  <2>1. Acting(c) /\ ruDraft' = ruDraft /\ ruCall[c].at = "insert"
    BY <1>11 DEF InsertRule, Acting
  <2>2. PICK at \in {"mark", "ended"} : Proceeds(c, at)
    BY <1>11 DEF InsertRule
  <2> QED
    BY <2>1, <2>2, CallRuleGoes DEF RuleSteps
<1>12. ASSUME NEW c \in RuleCalls, AnswerSchema(c) PROVE CallRule'
  BY <1>12, CallRuleGoes DEF AnswerSchema, Acting, RuleSteps
<1>13. ASSUME NEW c \in RuleCalls, ReadDraft(c) PROVE CallRule'
  <2>1. Acting(c) /\ ruCall[c] \in RuleCall /\ ruCall[c].at = "mark" /\ ruCall[c].draft # NoDraft
    BY <1>13, CallsAtWork DEF ReadDraft, Acting
  <2>2. \A e \in RuleCalls : e # c => ruCall'[e] = ruCall[e]
    BY <1>13 DEF ReadDraft, RuleTypeOK
  <2>3. /\ ruCall'[c].draft = ruCall[c].draft /\ ruCall'[c].config = ruCall[c].config
        /\ ruCall'[c].at = "save" /\ ruCall'[c].record.status = ruCall[c].record.status
    BY <1>13, <2>1 DEF ReadDraft, RuleTypeOK, RuleCall, DraftRecord
  <2>4. ruDraft' = ruDraft
    BY <1>13 DEF ReadDraft
  <2>5. CallFits(c)
    BY DEF CallRule
  <2>6. CallFits(c)'
    BY <2>1, <2>3, <2>4, <2>5 DEF CallFits, Publisher, Acting, Fit
  <2> QED
    BY <2>2, <2>4, <2>6, CallRuleFor
<1>14. ASSUME NEW c \in RuleCalls, LeaveCall(c) PROVE CallRule'
  BY <1>14, CallRuleGoes DEF LeaveCall, Acting, RuleSteps
<1>15. ASSUME UNCHANGED ruVars PROVE CallRule'
  BY <1>15 DEF ruVars, CallRule, CallFits, Acting, Publisher
<1> QED
  BY <1>1, <1>2, <1>3, <1>4, <1>5, <1>6, <1>7, <1>8, <1>9, <1>10, <1>11, <1>12, <1>13, <1>14, <1>15
  DEF RuleNext

-----------------------------------------------------------------------------
(* The files, and what a publication found in them.                        *)

(* A publication past its file goes on with what is kept.                  *)
LEMMA PastKept ==
  ASSUME RuleRegistryAssumption, RuleTypeOK, CallRule, FileRule, [RuleNext]_ruVars,
         NEW c \in RuleCalls, Publisher(c), ruCall[c].at \in {"mark", "save", "replace"}
  PROVE  Kept(ruCall[c].config) /\ \A g : g = ruCall[c].config => Kept(g)'
<1>1. Kept(ruCall[c].config)
  BY DEF FileRule, FileFits
<1>2. ruCall[c].config \in Configs /\ Fit(ruCall[c].config)
  BY PublisherHas
<1>3. ASSUME NEW g, g = ruCall[c].config PROVE Kept(g)'
  BY <1>1, <1>2, <1>3, KeptStep
<1> QED
  BY <1>1, <1>3

(* Where no file is touched only the request that moves has to be looked   *)
(* at.                                                                     *)
LEMMA FileRuleFor ==
  ASSUME RuleRegistryAssumption, RuleTypeOK, CallRule, FileRule, [RuleNext]_ruVars,
         UNCHANGED <<ruFile, ruClobbered>>, NEW c \in RuleCalls,
         \A e \in RuleCalls : e # c => ruCall'[e] = ruCall[e],
         Acting(c)' => ruCall'[c].at # "fill", FileFits(c)'
  PROVE  FileRule'
<1>2. ASSUME NEW e \in RuleCalls, e # c PROVE FileFits(e)'
  <2>1. ruCall'[e] = ruCall[e] /\ (Publisher(e)' <=> Publisher(e))
    BY <1>2 DEF Publisher, Acting
  <2>2. FileFits(e)
    BY DEF FileRule
  <2>3. Version(e)' = Version(e) /\ Content(e)' = Content(e)
    BY <2>1 DEF Version, Content
  <2>4. ASSUME Publisher(e), ruCall[e].at = "fill", Version(e) \notin ruClobbered,
               NEW f \in RuleCalls, Publisher(f)', ruCall'[f].at = "fill", Version(f)' = Version(e)
        PROVE  f = e
    <3>1. f # c
      BY <2>4 DEF Publisher
    <3>2. ruCall'[f] = ruCall[f]
      BY <3>1
    <3> QED
      BY <2>2, <2>4, <3>2 DEF FileFits, Publisher, Acting, Version
  <2>5. Publisher(e) /\ ruCall[e].at \in {"mark", "save", "replace"} => Kept(ruCall[e].config)'
    <3> SUFFICES ASSUME Publisher(e), ruCall[e].at \in {"mark", "save", "replace"}
                 PROVE  Kept(ruCall[e].config)'
      OBVIOUS
    <3>1. PICK g : g = ruCall[e].config
      OBVIOUS
    <3>2. Kept(g)'
      BY <3>1, PastKept
    <3>3. ruCall'[e].config = g
      BY <2>1, <3>1
    <3> QED
      BY <3>2, <3>3 DEF Kept, Served
  <2> QED
    BY <2>1, <2>2, <2>3, <2>4, <2>5 DEF FileFits
<1> QED
  BY <1>2 DEF FileRule

(* A request that goes anywhere but to what it would have to know.         *)
LEMMA FileRuleGoes ==
  ASSUME RuleRegistryAssumption, RuleTypeOK, CallRule, FileRule, [RuleNext]_ruVars,
         UNCHANGED <<ruFile, ruClobbered>>, NEW c \in RuleCalls, Acting(c),
         NEW at \in RuleSteps \ {"fill"}, Proceeds(c, at),
         Publisher(c) /\ at \in {"row", "insert"} /\ Version(c) \notin ruClobbered =>
            ruFile[Version(c)] = Content(c),
         Publisher(c) /\ at \in {"mark", "save", "replace"} =>
            \A g : g = ruCall[c].config => Kept(g)'
  PROVE  FileRule'
<1>1. /\ \A e \in RuleCalls : e # c => ruCall'[e] = ruCall[e]
      /\ ruCall'[c].at = at /\ ruCall'[c].config = ruCall[c].config
      /\ ruCall'[c].record = ruCall[c].record
  BY ProceedsOn
<1>2. Publisher(c)' => Publisher(c)
  BY <1>1 DEF Publisher
<1>3. Version(c)' = Version(c) /\ Content(c)' = Content(c)
  BY <1>1 DEF Version, Content
<1>4. Publisher(c) /\ at \in {"mark", "save", "replace"} => Kept(ruCall[c].config)'
  <2>1. PICK g : g = ruCall[c].config
    OBVIOUS
  <2>2. ruCall'[c].config = g
    BY <1>1, <2>1
  <2> QED
    BY <2>1, <2>2 DEF Kept, Served
<1>5. FileFits(c)'
  BY <1>1, <1>2, <1>3, <1>4 DEF FileFits
<1> QED
  BY <1>1, <1>5, FileRuleFor

(* Whoever opens a file that another is at clobbers it.                    *)
LEMMA OpenFileFits ==
  ASSUME RuleRegistryAssumption, RuleTypeOK, CallRule, FileRule, [RuleNext]_ruVars,
         NEW c \in RuleCalls, OpenFile(c)
  PROVE  FileRule'
<1>1. /\ Publisher(c) /\ Version(c) \in RuleVersions
      /\ ruFile'[Version(c)] = Torn /\ ruClobbered \subseteq ruClobbered'
      /\ ruFile[Version(c)] # NoContent => Version(c) \in ruClobbered'
      /\ \A v \in RuleVersions : v # Version(c) => ruFile'[v] = ruFile[v]
  BY OpenFileDoes
<1>2. Acting(c) /\ Proceeds(c, "fill")
  BY DEF OpenFile, Acting
<1>3. /\ \A e \in RuleCalls : e # c => ruCall'[e] = ruCall[e]
      /\ ruCall'[c].at = "fill" /\ ruCall'[c].config = ruCall[c].config
      /\ ruCall'[c].record = ruCall[c].record
  BY <1>2, ProceedsOn DEF RuleSteps
<1>4. NoContent # Torn /\ NoContent \notin Contents
  BY DEF RuleRegistryAssumption
<1>5. ASSUME NEW e \in RuleCalls, Publisher(e), ruCall[e].at \in {"fill", "row", "insert"},
             Version(e) = Version(c)
      PROVE  Version(c) \in ruClobbered'
  <2>1. Content(e) \in Contents
    BY <1>5, PublisherHas
  <2>2. FileFits(e)
    BY DEF FileRule
  <2> QED
    BY <1>1, <1>4, <1>5, <2>1, <2>2 DEF FileFits
<1>6. \A e \in RuleCalls : Version(e)' = Version(e) /\ Content(e)' = Content(e)
  BY <1>3 DEF Version, Content
<1>7. \A e \in RuleCalls : Publisher(e)' => Publisher(e)
  BY <1>1, <1>3 DEF Publisher, Acting
<1>8. ASSUME NEW e \in RuleCalls, e # c PROVE FileFits(e)'
  <2>1. ruCall'[e] = ruCall[e] /\ (Publisher(e)' <=> Publisher(e))
    BY <1>3, <1>8 DEF Publisher, Acting
  <2>2. FileFits(e)
    BY DEF FileRule
  <2>3. Publisher(e) => Version(e) \in RuleVersions
    BY PublisherHas
  <2>4. Publisher(e) /\ ruCall[e].at \in {"mark", "save", "replace"} => Kept(ruCall[e].config)'
    <3> SUFFICES ASSUME Publisher(e), ruCall[e].at \in {"mark", "save", "replace"}
                 PROVE  Kept(ruCall[e].config)'
      OBVIOUS
    <3>1. PICK g : g = ruCall[e].config
      OBVIOUS
    <3>2. Kept(g)'
      BY <3>1, PastKept
    <3>3. ruCall'[e].config = g
      BY <2>1, <3>1
    <3> QED
      BY <3>2, <3>3 DEF Kept, Served
  <2>5. ASSUME Publisher(e), ruCall[e].at = "fill", Version(e) \notin ruClobbered',
               NEW f \in RuleCalls, Publisher(f)', ruCall'[f].at = "fill", Version(f)' = Version(e)
        PROVE  f = e
    <3>1. f # c
      BY <1>5, <1>6, <2>5
    <3>2. ruCall'[f] = ruCall[f]
      BY <1>3, <3>1
    <3>3. Version(e) \notin ruClobbered
      BY <1>1, <2>5
    <3> QED
      BY <1>6, <1>7, <2>2, <2>5, <3>2, <3>3 DEF FileFits
  <2>6. Publisher(e) /\ ruCall[e].at \in {"fill", "row", "insert"} /\ Version(e) \notin ruClobbered' =>
          ruFile'[Version(e)] = ruFile[Version(e)] /\ Version(e) \notin ruClobbered
    BY <1>1, <1>5, <2>3
  <2>7. Version(e)' = Version(e) /\ Content(e)' = Content(e)
    BY <1>6
  <2> QED
    BY <2>1, <2>2, <2>4, <2>5, <2>6, <2>7 DEF FileFits
<1>9. FileFits(c)'
  <2>1. ASSUME Version(c) \notin ruClobbered', NEW f \in RuleCalls, Publisher(f)',
               ruCall'[f].at = "fill", Version(f)' = Version(c)
        PROVE  f = c
    BY <1>3, <1>5, <1>6, <1>7, <2>1
  <2> QED
    BY <1>1, <1>3, <1>6, <2>1 DEF FileFits
<1> QED
  BY <1>8, <1>9 DEF FileRule

(* Whoever fills one that is not clobbered is the only one there.          *)
LEMMA FillFileFits ==
  ASSUME RuleRegistryAssumption, RuleTypeOK, CallRule, FileRule, [RuleNext]_ruVars,
         NEW c \in RuleCalls, FillFile(c)
  PROVE  FileRule'
<1>1. /\ Publisher(c) /\ Version(c) \in RuleVersions
      /\ Version(c) \notin ruClobbered =>
           ruFile'[Version(c)] = Content(c) /\ ruFile[Version(c)] = Torn
      /\ \A v \in RuleVersions : v # Version(c) => ruFile'[v] = ruFile[v]
      /\ UNCHANGED <<ruBase, ruRow, ruClobbered>>
  BY FillFileDoes
<1>2. Acting(c) /\ ruCall[c].at = "fill"
  BY DEF FillFile, Acting
<1>3. PICK at \in {"row", "mark"} : Proceeds(c, at) /\ (at = "mark" => ~ruBase)
  BY DEF FillFile, Stored
<1>4. /\ \A e \in RuleCalls : e # c => ruCall'[e] = ruCall[e]
      /\ ruCall'[c].at = at /\ ruCall'[c].config = ruCall[c].config
      /\ ruCall'[c].record = ruCall[c].record
  BY <1>2, <1>3, ProceedsOn DEF RuleSteps
<1>5. Torn \notin Contents
  BY DEF RuleRegistryAssumption
<1>6. \A e \in RuleCalls : Version(e)' = Version(e) /\ Content(e)' = Content(e)
  BY <1>4 DEF Version, Content
<1>7. \A e \in RuleCalls : Publisher(e)' => Publisher(e)
  BY <1>1, <1>4 DEF Publisher, Acting
<1>8. ASSUME NEW e \in RuleCalls, e # c PROVE FileFits(e)'
  <2>1. ruCall'[e] = ruCall[e] /\ (Publisher(e)' <=> Publisher(e))
    BY <1>4, <1>8 DEF Publisher, Acting
  <2>2. FileFits(e)
    BY DEF FileRule
  <2>3. Publisher(e) => Version(e) \in RuleVersions /\ Content(e) \in Contents
    BY PublisherHas
  <2>4. Publisher(e) /\ ruCall[e].at \in {"mark", "save", "replace"} => Kept(ruCall[e].config)'
    <3> SUFFICES ASSUME Publisher(e), ruCall[e].at \in {"mark", "save", "replace"}
                 PROVE  Kept(ruCall[e].config)'
      OBVIOUS
    <3>1. PICK g : g = ruCall[e].config
      OBVIOUS
    <3>2. Kept(g)'
      BY <3>1, PastKept
    <3>3. ruCall'[e].config = g
      BY <2>1, <3>1
    <3> QED
      BY <3>2, <3>3 DEF Kept, Served
  <2>5. ASSUME Publisher(e), ruCall[e].at = "fill", Version(e) \notin ruClobbered,
               NEW f \in RuleCalls, Publisher(f)', ruCall'[f].at = "fill", Version(f)' = Version(e)
        PROVE  f = e
    <3>1. f # c
      BY <1>4, <2>5
    <3>2. ruCall'[f] = ruCall[f]
      BY <1>4, <3>1
    <3> QED
      BY <1>6, <1>7, <2>2, <2>5, <3>2 DEF FileFits
  <2>6. Publisher(e) /\ ruCall[e].at \in {"fill", "row", "insert"} /\ Version(e) \notin ruClobbered =>
          Version(e) # Version(c)
    <3> SUFFICES ASSUME Publisher(e), ruCall[e].at \in {"fill", "row", "insert"},
                        Version(e) \notin ruClobbered, Version(e) = Version(c)
                 PROVE  FALSE
      OBVIOUS
    <3>1. ruFile[Version(e)] = Torn
      BY <1>1
    <3>2. CASE ruCall[e].at = "fill"
      BY <1>1, <1>2, <1>8, <2>2, <3>2 DEF FileFits
    <3>3. CASE ruCall[e].at \in {"row", "insert"}
      BY <1>5, <2>2, <2>3, <3>1, <3>3 DEF FileFits
    <3> QED
      BY <3>2, <3>3
  <2>7. Version(e)' = Version(e) /\ Content(e)' = Content(e)
    BY <1>6
  <2>8. Publisher(e) /\ Version(e) # Version(c) => ruFile'[Version(e)] = ruFile[Version(e)]
    BY <1>1, <2>3
  <2> QED
    BY <1>1, <2>1, <2>2, <2>4, <2>5, <2>6, <2>7, <2>8 DEF FileFits
<1>9. FileFits(c)'
  <2>1. at = "mark" => Kept(ruCall[c].config)'
    <3> SUFFICES ASSUME at = "mark" PROVE Kept(ruCall[c].config)'
      OBVIOUS
    <3>1. PICK g : g = ruCall[c].config
      OBVIOUS
    <3>2. ~ruBase
      BY <1>3
    <3>3. g.version = Version(c) /\ g.content = Content(c)
      BY <3>1 DEF Version, Content
    <3>4. g.version \notin ruClobbered' => ruFile'[g.version] = g.content
      BY <1>1, <3>3
    <3>5. Kept(g)'
      BY <3>2, <3>4, KeptAfter
    <3>6. ruCall'[c].config = g
      BY <1>4, <3>1
    <3> QED
      BY <3>5, <3>6 DEF Kept, Served
  <2> QED
    BY <1>1, <1>3, <1>4, <1>6, <2>1 DEF FileFits
<1> QED
  BY <1>8, <1>9 DEF FileRule

LEMMA FileRuleStep ==
  ASSUME RuleRegistryAssumption, RuleTypeOK, CallRule, FileRule, [RuleNext]_ruVars
  PROVE  FileRule'
<1>1. ASSUME UNCHANGED <<ruBase, ruFile, ruRow, ruClobbered, ruCall>> PROVE FileRule'
  BY <1>1 DEF FileRule, FileFits, Publisher, Acting, Version, Content, Kept, Served
<1>2. ASSUME NEW c \in RuleCalls, EditDraft(c) PROVE FileRule'
  <2>1. PICK d \in DOMAIN ruDraft, g \in Configs :
          ruCall' = [ruCall EXCEPT ![c] = [at |-> "save", draft |-> d, config |-> g,
                                           record |-> [status |-> "draft", config |-> g]]]
    BY <1>2 DEF EditDraft
  <2>2. /\ \A e \in RuleCalls : e # c => ruCall'[e] = ruCall[e]
        /\ ruCall'[c].at = "save" /\ ruCall'[c].record.status = "draft"
    BY <2>1 DEF RuleTypeOK
  <2>3. UNCHANGED <<ruFile, ruClobbered>>
    BY <1>2 DEF EditDraft
  <2>4. FileFits(c)'
    BY <2>2 DEF FileFits, Publisher
  <2> QED
    BY <2>2, <2>3, <2>4, FileRuleFor
<1>3. ASSUME NEW c \in RuleCalls, WriteTemp(c) PROVE FileRule'
  <2>1. Acting(c) /\ ruCall[c].at = "save" /\ Proceeds(c, "replace") /\ UNCHANGED <<ruFile, ruClobbered>>
    BY <1>3 DEF WriteTemp, Acting
  <2>2. Publisher(c) => \A g : g = ruCall[c].config => Kept(g)'
    BY <2>1, PastKept
  <2> QED
    BY <2>1, <2>2, FileRuleGoes DEF RuleSteps
<1>4. ASSUME NEW c \in RuleCalls, ReplaceDraft(c) PROVE FileRule'
  <2>1. Acting(c) /\ Proceeds(c, "ended") /\ UNCHANGED <<ruFile, ruClobbered>>
    BY <1>4 DEF ReplaceDraft, Acting
  <2> QED
    BY <2>1, FileRuleGoes DEF RuleSteps
<1>5. ASSUME NEW c \in RuleCalls, PublishSchema(c) PROVE FileRule'
  <2>1. PICK g \in Configs : ruCall' = [ruCall EXCEPT ![c] = Publication(NoDraft, g)]
    BY <1>5 DEF PublishSchema
  <2>2. (\A e \in RuleCalls : e # c => ruCall'[e] = ruCall[e]) /\ ruCall'[c].at = "look"
    BY <2>1 DEF RuleTypeOK, Publication
  <2>3. UNCHANGED <<ruFile, ruClobbered>>
    BY <1>5 DEF PublishSchema
  <2> QED
    BY <2>2, <2>3, FileRuleFor DEF FileFits
<1>6. ASSUME NEW c \in RuleCalls, PublishDraft(c) PROVE FileRule'
  <2>1. PICK d \in DOMAIN ruDraft : ruCall' = [ruCall EXCEPT ![c] = Publication(d, ruDraft[d].config)]
    BY <1>6 DEF PublishDraft
  <2>2. (\A e \in RuleCalls : e # c => ruCall'[e] = ruCall[e]) /\ ruCall'[c].at = "look"
    BY <2>1 DEF RuleTypeOK, Publication
  <2>3. UNCHANGED <<ruFile, ruClobbered>>
    BY <1>6 DEF PublishDraft
  <2> QED
    BY <2>2, <2>3, FileRuleFor DEF FileFits
<1>7. ASSUME NEW c \in RuleCalls, LookUpFile(c) PROVE FileRule'
  <2>1. Acting(c) /\ UNCHANGED <<ruFile, ruClobbered>>
    BY <1>7 DEF LookUpFile, Acting
  <2>2. PICK at \in {"open", "row", "mark", "ended"} :
          /\ Proceeds(c, at)
          /\ at \in {"row", "mark"} => ruFile[Version(c)] = Content(c)
          /\ at = "mark" => ~ruBase
    <3> DEFINE x == ruFile[Version(c)]
    <3>0. Content(c) # NoContent /\ CASE x = NoContent -> Proceeds(c, "open")
                                      [] x = Content(c) -> Stored(c)
                                      [] OTHER -> Proceeds(c, "ended")
      <4>1. Publisher(c)
        BY <1>7 DEF LookUpFile, CallRule, CallFits, Acting
      <4> QED
        BY <1>7, <4>1, PublisherHas DEF LookUpFile, RuleRegistryAssumption
    <3> HIDE DEF x
    <3>1. CASE x = NoContent
      <4>1. Proceeds(c, "open")
        BY <3>0, <3>1
      <4> QED
        BY <4>1
    <3>2. CASE x # NoContent /\ x = Content(c)
      <4>1. Stored(c)
        BY <3>0, <3>2
      <4>2. CASE ruBase
        BY <3>2, <4>1, <4>2 DEF Stored, x
      <4>3. CASE ~ruBase
        BY <3>2, <4>1, <4>3 DEF Stored, x
      <4> QED
        BY <4>2, <4>3
    <3>3. CASE x # NoContent /\ x # Content(c)
      BY <3>0, <3>3
    <3> QED
      BY <3>1, <3>2, <3>3
  <2>3. ASSUME at = "mark", NEW g, g = ruCall[c].config PROVE Kept(g)'
    <3>1. g.version = Version(c) /\ g.content = Content(c)
      BY <2>3 DEF Version, Content
    <3>2. ~ruBase /\ ruFile'[g.version] = g.content
      BY <2>1, <2>2, <2>3, <3>1
    <3> QED
      BY <3>2, KeptAfter
  <2> QED
    BY <2>1, <2>2, <2>3, FileRuleGoes DEF RuleSteps
<1>8. ASSUME NEW c \in RuleCalls, LookUpRow(c) PROVE FileRule'
  <2>1. Acting(c) /\ ruCall[c].at = "row" /\ UNCHANGED <<ruRow, ruFile, ruClobbered>>
    BY <1>8 DEF LookUpRow, Acting
  <2>2. PICK at \in {"insert", "mark", "ended"} :
          Proceeds(c, at) /\ (at = "mark" => ruRow[Version(c)] = Content(c))
    <3>1. CASE ruRow[Version(c)] = NoContent
      BY <1>8, <3>1 DEF LookUpRow
    <3>2. CASE ruRow[Version(c)] # NoContent /\ ruRow[Version(c)] = Content(c)
      BY <1>8, <3>2 DEF LookUpRow
    <3>3. CASE ruRow[Version(c)] # NoContent /\ ruRow[Version(c)] # Content(c)
      BY <1>8, <3>3 DEF LookUpRow
    <3> QED
      BY <3>1, <3>2, <3>3
  <2>3. Publisher(c) /\ Version(c) \notin ruClobbered => ruFile[Version(c)] = Content(c)
    BY <2>1 DEF FileRule, FileFits
  <2>4. ASSUME Publisher(c), at = "mark", NEW g, g = ruCall[c].config PROVE Kept(g)'
    <3>1. g.version = Version(c) /\ g.content = Content(c)
      BY <2>4 DEF Version, Content
    <3>2. /\ ruRow'[g.version] = g.content
          /\ g.version \notin ruClobbered' => ruFile'[g.version] = g.content
      BY <2>1, <2>2, <2>3, <2>4, <3>1
    <3> QED
      BY <3>2, KeptAfter
  <2> QED
    BY <2>1, <2>2, <2>3, <2>4, FileRuleGoes DEF RuleSteps
<1>9. ASSUME NEW c \in RuleCalls, InsertRule(c) PROVE FileRule'
  <2>1. Acting(c) /\ ruCall[c].at = "insert" /\ UNCHANGED <<ruFile, ruClobbered>>
    BY <1>9 DEF InsertRule, Acting
  <2>2. PICK at \in {"mark", "ended"} : Proceeds(c, at) /\ (at = "mark" => ruRow[Version(c)] = NoContent)
    BY <1>9 DEF InsertRule
  <2>3. Publisher(c) /\ Version(c) \notin ruClobbered => ruFile[Version(c)] = Content(c)
    BY <2>1 DEF FileRule, FileFits
  <2>4. ASSUME Publisher(c), at = "mark", NEW g, g = ruCall[c].config PROVE Kept(g)'
    <3>1. g.version = Version(c) /\ g.content = Content(c)
      BY <2>4 DEF Version, Content
    <3>2. /\ ruRow'[g.version] = g.content
          /\ g.version \notin ruClobbered' => ruFile'[g.version] = g.content
      BY <1>9, <2>1, <2>2, <2>3, <2>4, <3>1, InsertRuleDoes
    <3> QED
      BY <3>2, KeptAfter
  <2> QED
    BY <2>1, <2>2, <2>3, <2>4, FileRuleGoes DEF RuleSteps
<1>10. ASSUME NEW c \in RuleCalls, AnswerSchema(c) PROVE FileRule'
  BY <1>10, FileRuleGoes DEF AnswerSchema, Acting, RuleSteps
<1>11. ASSUME NEW c \in RuleCalls, ReadDraft(c) PROVE FileRule'
  <2>1. Acting(c) /\ ruCall[c] \in RuleCall /\ ruCall[c].at = "mark" /\ UNCHANGED <<ruFile, ruClobbered>>
    BY <1>11, CallsAtWork DEF ReadDraft, Acting
  <2>2. \A e \in RuleCalls : e # c => ruCall'[e] = ruCall[e]
    BY <1>11 DEF ReadDraft, RuleTypeOK
  <2>3. /\ ruCall'[c].config = ruCall[c].config /\ ruCall'[c].at = "save"
        /\ ruCall'[c].record.status = ruCall[c].record.status
    BY <1>11, <2>1 DEF ReadDraft, RuleTypeOK, RuleCall, DraftRecord
  <2>4. Publisher(c)' => Publisher(c)
    BY <2>1, <2>3 DEF Publisher
  <2>5. Publisher(c) => Kept(ruCall[c].config)'
    <3> SUFFICES ASSUME Publisher(c) PROVE Kept(ruCall[c].config)'
      OBVIOUS
    <3>1. PICK g : g = ruCall[c].config
      OBVIOUS
    <3>2. Kept(g)'
      BY <2>1, <3>1, PastKept
    <3>3. ruCall'[c].config = g
      BY <2>3, <3>1
    <3> QED
      BY <3>2, <3>3 DEF Kept, Served
  <2>6. FileFits(c)'
    BY <2>3, <2>4, <2>5 DEF FileFits
  <2> QED
    BY <2>1, <2>2, <2>3, <2>6, FileRuleFor
<1>12. ASSUME NEW c \in RuleCalls, LeaveCall(c) PROVE FileRule'
  BY <1>12, FileRuleGoes DEF LeaveCall, Acting, RuleSteps
<1> QED
  BY <1>1, <1>2, <1>3, <1>4, <1>5, <1>6, <1>7, <1>8, <1>9, <1>10, <1>11, <1>12, OpenFileFits, FillFileFits
  DEF RuleNext, ruVars, CreateDraft

-----------------------------------------------------------------------------
(* The answers.                                                            *)

(* Answers join, if any do, when a publication is past its file.           *)
LEMMA AnswersJoin ==
  ASSUME RuleTypeOK, CallRule, [RuleNext]_ruVars, NEW g \in ruAnswers', g \notin ruAnswers
  PROVE  \E c \in RuleCalls : /\ Publisher(c) /\ ruCall[c].at \in {"mark", "save", "replace"}
                              /\ g = ruCall[c].config
<1>1. ASSUME NEW c \in RuleCalls, ReplaceDraft(c) PROVE Publisher(c) /\ g = ruCall[c].config /\ ruCall[c].at = "replace"
  BY <1>1 DEF ReplaceDraft, Answered, Publisher, Acting
<1>2. ASSUME NEW c \in RuleCalls, AnswerSchema(c) PROVE Publisher(c) /\ g = ruCall[c].config /\ ruCall[c].at = "mark"
  BY <1>2 DEF AnswerSchema, Answered, Publisher, Acting
<1>3. \/ \E c \in RuleCalls : ReplaceDraft(c) \/ AnswerSchema(c)
      \/ ruAnswers' = ruAnswers
  BY DEF RuleNext, ruVars, CreateDraft, EditDraft, WriteTemp, PublishSchema, PublishDraft,
         LookUpFile, OpenFile, FillFile, LookUpRow, InsertRule, ReadDraft, LeaveCall
<1> QED
  BY <1>1, <1>2, <1>3

LEMMA AnswerRuleStep ==
  ASSUME RuleRegistryAssumption, RuleTypeOK, CallRule, FileRule, AnswerRule, [RuleNext]_ruVars
  PROVE  AnswerRule'
<1>1. ASSUME NEW g \in ruAnswers' PROVE Fit(g)' /\ Kept(g)'
  <2>1. CASE g \in ruAnswers
    BY <2>1, KeptStep DEF AnswerRule, RuleTypeOK, Fit
  <2>2. CASE g \notin ruAnswers
    <3>1. PICK c \in RuleCalls : /\ Publisher(c) /\ ruCall[c].at \in {"mark", "save", "replace"}
                                 /\ g = ruCall[c].config
      BY <2>2, AnswersJoin
    <3>2. Kept(g)'
      BY <3>1, PastKept
    <3>3. Fit(g)
      BY <3>1, PublisherHas
    <3> QED
      BY <3>2, <3>3 DEF Fit
  <2> QED
    BY <2>1, <2>2
<1> QED
  BY <1>1 DEF AnswerRule

-----------------------------------------------------------------------------
(* The drafts.                                                             *)

(* A draft shown as published was kept, and is.                            *)
LEMMA ShownKept ==
  ASSUME RuleRegistryAssumption, RuleTypeOK, CallRule, FileRule, [RuleNext]_ruVars,
         NEW d \in DOMAIN ruDraft, DraftFits(d), d \notin ruStale, ruDraft[d].status = "published"
  PROVE  Fit(ruDraft[d].config) /\ \A g : g = ruDraft[d].config => Kept(g)'
<1>1. Fit(ruDraft[d].config) /\ Kept(ruDraft[d].config)
  BY DEF DraftFits
<1>2. ruDraft[d].config \in Configs
  BY DEF RuleTypeOK, DraftRecord
<1> QED
  BY <1>1, <1>2, KeptStep

(* Who is under way on a draft that a step leaves alone.                   *)
LEMMA DraftSame ==
  ASSUME RuleRegistryAssumption, RuleTypeOK, CallRule, FileRule, [RuleNext]_ruVars,
         NEW d \in DOMAIN ruDraft, DraftFits(d),
         ruDraft'[d] = ruDraft[d], ruTemp'[d] = ruTemp[d], ruStale \subseteq ruStale',
         \A e \in RuleCalls : d \notin ruStale' =>
            /\ Publishes(e, d)' =>
                 /\ Publishes(e, d)
                 /\ ruCall'[e].config = ruCall[e].config
                 /\ ruCall'[e].record.config \in {ruCall[e].record.config, ruDraft[d].config}
                 /\ ruCall'[e].at = "replace" => ruCall'[e] = ruCall[e]
            /\ Edits(e, d)' => Edits(e, d)
            /\ Edits(e, d)' /\ ruCall'[e].at = "replace" => ruCall[e].at = "replace"
  PROVE  DraftFits(d)'
<1> SUFFICES ASSUME d \notin ruStale' PROVE DraftFits(d)'
  BY DEF DraftFits
<1>1. d \notin ruStale
  OBVIOUS
<1>2. ruDraft'[d].status = "published" => Fit(ruDraft'[d].config) /\ Kept(ruDraft[d].config)'
  <2> SUFFICES ASSUME ruDraft[d].status = "published"
               PROVE  Fit(ruDraft'[d].config) /\ Kept(ruDraft[d].config)'
    OBVIOUS
  <2>1. PICK g : g = ruDraft[d].config
    OBVIOUS
  <2>2. Fit(g) /\ Kept(g)'
    BY <1>1, <2>1, ShownKept
  <2>3. ruDraft'[d].config = g
    BY <2>1
  <2> QED
    BY <2>1, <2>2, <2>3 DEF Kept, Served
<1>3. ASSUME NEW c \in RuleCalls, Publishes(c, d)'
      PROVE  /\ ruCall'[c].config = ruDraft'[d].config
             /\ ruCall'[c].record.config = ruDraft'[d].config
             /\ ruCall'[c].at = "replace" => ruTemp'[d] \in {NoRecord, ruCall'[c].record}
             /\ \A e \in RuleCalls : ~Edits(e, d)'
  BY <1>1, <1>3 DEF DraftFits
<1>4. ASSUME NEW c \in RuleCalls, Edits(c, d)', ruCall'[c].at = "replace"
      PROVE  ruTemp'[d] = NoRecord \/ ruTemp'[d].status = "draft"
  BY <1>1, <1>4 DEF DraftFits
<1> QED
  BY <1>2, <1>3, <1>4 DEF DraftFits, Fit

LEMMA DraftGoes ==
  ASSUME RuleRegistryAssumption, RuleTypeOK, CallRule, FileRule, DraftRule, [RuleNext]_ruVars,
         UNCHANGED <<ruDraft, ruTemp, ruStale>>, NEW c \in RuleCalls, Acting(c),
         NEW at \in RuleSteps \ {"replace"}, Proceeds(c, at)
  PROVE  DraftRule'
<1>1. /\ \A e \in RuleCalls : e # c => ruCall'[e] = ruCall[e]
      /\ ruCall'[c].at = at /\ ruCall'[c].draft = ruCall[c].draft
      /\ ruCall'[c].config = ruCall[c].config /\ ruCall'[c].record = ruCall[c].record
  BY ProceedsOn
<1>2. ASSUME NEW d \in DOMAIN ruDraft PROVE DraftFits(d)'
  <2>1. ASSUME NEW e \in RuleCalls
        PROVE  /\ Publishes(e, d)' =>
                    /\ Publishes(e, d)
                    /\ ruCall'[e].config = ruCall[e].config
                    /\ ruCall'[e].record.config \in {ruCall[e].record.config, ruDraft[d].config}
                    /\ ruCall'[e].at = "replace" => ruCall'[e] = ruCall[e]
               /\ Edits(e, d)' => Edits(e, d)
               /\ Edits(e, d)' /\ ruCall'[e].at = "replace" => ruCall[e].at = "replace"
    BY <1>1 DEF Publishes, Edits, Under, Acting
  <2>2. DraftFits(d)
    BY DEF DraftRule
  <2> QED
    BY <2>1, <2>2, DraftSame
<1> QED
  BY <1>2 DEF DraftRule

(* The other drafts, where one is written.                                 *)
LEMMA OtherDrafts ==
  ASSUME RuleRegistryAssumption, RuleTypeOK, CallRule, FileRule, DraftRule, [RuleNext]_ruVars,
         NEW c \in RuleCalls, NEW d \in DOMAIN ruDraft,
         \A e \in RuleCalls : e # c => ruCall'[e] = ruCall[e],
         ruCall'[c].draft # d,
         ruDraft'[d] = ruDraft[d], ruTemp'[d] = ruTemp[d], ruStale \subseteq ruStale'
  PROVE  DraftFits(d)'
<1>1. ASSUME NEW e \in RuleCalls
      PROVE  /\ Publishes(e, d)' =>
                  /\ Publishes(e, d)
                  /\ ruCall'[e].config = ruCall[e].config
                  /\ ruCall'[e].record.config \in {ruCall[e].record.config, ruDraft[d].config}
                  /\ ruCall'[e].at = "replace" => ruCall'[e] = ruCall[e]
             /\ Edits(e, d)' => Edits(e, d)
             /\ Edits(e, d)' /\ ruCall'[e].at = "replace" => ruCall[e].at = "replace"
  BY DEF Publishes, Edits, Under
<1>2. DraftFits(d)
  BY DEF DraftRule
<1> QED
  BY <1>1, <1>2, DraftSame

(* A new draft has nobody at work on it.                                   *)
LEMMA CreateDraftFits ==
  ASSUME RuleRegistryAssumption, RuleTypeOK, CallRule, FileRule, DraftRule, [RuleNext]_ruVars,
         NEW d \in Drafts, CreateDraft(d)
  PROVE  DraftRule'
<1>1. PICK g \in Configs :
         ruDraft' = [e \in DOMAIN ruDraft \cup {d} |->
                       IF e = d THEN [status |-> "draft", config |-> g] ELSE ruDraft[e]]
  BY DEF CreateDraft
<1>2. d \notin DOMAIN ruDraft /\ UNCHANGED <<ruTemp, ruCall, ruStale>>
  BY DEF CreateDraft
<1>3. ASSUME NEW e \in DOMAIN ruDraft PROVE DraftFits(e)'
  <2>1. ruDraft'[e] = ruDraft[e]
    BY <1>1, <1>2
  <2>2. DraftFits(e)
    BY DEF DraftRule
  <2>3. \A c \in RuleCalls : (Publishes(c, e)' <=> Publishes(c, e)) /\ (Edits(c, e)' <=> Edits(c, e))
    BY <1>2 DEF Publishes, Edits, Under
  <2> QED
    BY <1>2, <2>1, <2>2, <2>3, DraftSame
<1>4. \A c \in RuleCalls : ~Publishes(c, d)' /\ ~Edits(c, d)'
  <2>1. NoDraft # d
    BY DEF RuleRegistryAssumption
  <2>2. \A c \in RuleCalls : Acting(c) => ruCall[c].draft # d
    BY <1>2, <2>1 DEF CallRule, CallFits
  <2> QED
    BY <1>2, <2>2 DEF Publishes, Edits, Under, Acting
<1>5. DraftFits(d)'
  BY <1>1, <1>4 DEF DraftFits
<1> QED
  BY <1>1, <1>3, <1>5 DEF DraftRule

(* An edit begins: where a publication is under way they overlap.          *)
LEMMA EditDraftFits ==
  ASSUME RuleRegistryAssumption, RuleTypeOK, CallRule, FileRule, DraftRule, [RuleNext]_ruVars,
         NEW c \in RuleCalls, EditDraft(c)
  PROVE  DraftRule'
<1>1. PICK d \in DOMAIN ruDraft, g \in Configs :
         /\ ruDraft[d].status = "draft"
         /\ ruCall' = [ruCall EXCEPT ![c] = [at |-> "save", draft |-> d, config |-> g,
                                             record |-> [status |-> "draft", config |-> g]]]
         /\ ruStale' = ruStale \cup {e \in {d} : \E q \in RuleCalls : Publishes(q, e)}
  BY DEF EditDraft
<1>2. /\ \A e \in RuleCalls : e # c => ruCall'[e] = ruCall[e]
      /\ ruCall'[c].at = "save" /\ ruCall'[c].draft = d /\ ruCall'[c].record.status = "draft"
  BY <1>1 DEF RuleTypeOK
<1>3. UNCHANGED <<ruDraft, ruTemp>> /\ ruCall[c].at = "new"
  BY DEF EditDraft
<1>4. ASSUME NEW e \in DOMAIN ruDraft, e # d PROVE DraftFits(e)'
  BY <1>1, <1>2, <1>3, <1>4, OtherDrafts
<1>5. DraftFits(d)'
  <2> SUFFICES ASSUME d \notin ruStale' PROVE DraftFits(d)'
    BY DEF DraftFits
  <2>1. d \notin ruStale /\ \A q \in RuleCalls : ~Publishes(q, d)
    BY <1>1
  <2>2. \A q \in RuleCalls : ~Publishes(q, d)'
    BY <1>2, <2>1 DEF Publishes, Under
  <2>3. ASSUME NEW q \in RuleCalls, Edits(q, d)', ruCall'[q].at = "replace"
        PROVE  ruTemp'[d] = NoRecord \/ ruTemp'[d].status = "draft"
    <3>1. Edits(q, d) /\ ruCall[q].at = "replace"
      BY <1>2, <2>3 DEF Edits, Under
    <3> QED
      BY <1>3, <2>1, <3>1 DEF DraftRule, DraftFits
  <2> QED
    BY <1>1, <1>3, <2>2, <2>3 DEF DraftFits
<1> QED
  BY <1>3, <1>4, <1>5 DEF DraftRule

(* A publication begins: where an edit is under way they overlap.          *)
LEMMA PublishDraftFits ==
  ASSUME RuleRegistryAssumption, RuleTypeOK, CallRule, FileRule, DraftRule, [RuleNext]_ruVars,
         NEW c \in RuleCalls, PublishDraft(c)
  PROVE  DraftRule'
<1>1. PICK d \in DOMAIN ruDraft :
         /\ ruCall' = [ruCall EXCEPT ![c] = Publication(d, ruDraft[d].config)]
         /\ ruStale' = ruStale \cup {e \in {d} : \E q \in RuleCalls : Edits(q, e)}
  BY DEF PublishDraft
<1>2. /\ \A e \in RuleCalls : e # c => ruCall'[e] = ruCall[e]
      /\ ruCall'[c] = Publication(d, ruDraft[d].config)
  BY <1>1 DEF RuleTypeOK
<1>3. /\ ruCall'[c].at = "look" /\ ruCall'[c].draft = d /\ ruCall'[c].config = ruDraft[d].config
      /\ ruCall'[c].record.status = "published" /\ ruCall'[c].record.config = ruDraft[d].config
  BY <1>2 DEF Publication
<1>4. UNCHANGED <<ruDraft, ruTemp>>
  BY DEF PublishDraft
<1>5. ASSUME NEW e \in DOMAIN ruDraft, e # d PROVE DraftFits(e)'
  BY <1>1, <1>2, <1>3, <1>4, <1>5, OtherDrafts
<1>6. DraftFits(d)'
  <2> SUFFICES ASSUME d \notin ruStale' PROVE DraftFits(d)'
    BY DEF DraftFits
  <2>1. d \notin ruStale /\ \A q \in RuleCalls : ~Edits(q, d)
    BY <1>1
  <2>2. \A q \in RuleCalls : ~Edits(q, d)'
    BY <1>2, <1>3, <2>1 DEF Edits, Under
  <2>3. DraftFits(d)
    BY DEF DraftRule
  <2>4. ruDraft'[d].status = "published" => Fit(ruDraft'[d].config) /\ Kept(ruDraft[d].config)'
    <3> SUFFICES ASSUME ruDraft[d].status = "published"
                 PROVE  Fit(ruDraft'[d].config) /\ Kept(ruDraft[d].config)'
      BY <1>4
    <3>1. PICK g : g = ruDraft[d].config
      OBVIOUS
    <3>2. Fit(g) /\ Kept(g)'
      BY <2>1, <2>3, <3>1, ShownKept
    <3>3. ruDraft'[d].config = g
      BY <1>4, <3>1
    <3> QED
      BY <3>1, <3>2, <3>3 DEF Kept, Served
  <2>5. ASSUME NEW q \in RuleCalls, Publishes(q, d)'
        PROVE  /\ ruCall'[q].config = ruDraft'[d].config
               /\ ruCall'[q].record.config = ruDraft'[d].config
               /\ ruCall'[q].at = "replace" => ruTemp'[d] \in {NoRecord, ruCall'[q].record}
    <3>1. CASE q = c
      BY <1>3, <1>4, <3>1
    <3>2. CASE q # c
      <4>1. Publishes(q, d) /\ ruCall'[q] = ruCall[q]
        BY <1>2, <2>5, <3>2 DEF Publishes, Under
      <4> QED
        BY <1>4, <2>1, <2>3, <4>1 DEF DraftFits
    <3> QED
      BY <3>1, <3>2
  <2> QED
    BY <2>2, <2>4, <2>5 DEF DraftFits, Fit
<1> QED
  BY <1>4, <1>5, <1>6 DEF DraftRule

(* Beside a draft its record is written: a publication and an edit that do *)
(* not overlap never find each other's there.                              *)
LEMMA WriteTempFits ==
  ASSUME RuleRegistryAssumption, RuleTypeOK, CallRule, FileRule, DraftRule, [RuleNext]_ruVars,
         NEW c \in RuleCalls, WriteTemp(c)
  PROVE  DraftRule'
<1>0. PICK d : d = ruCall[c].draft
  OBVIOUS
<1>1. Acting(c) /\ ruCall[c].at = "save" /\ Proceeds(c, "replace") /\ UNCHANGED <<ruDraft, ruStale>>
  BY DEF WriteTemp, Acting
<1>2. /\ \A e \in RuleCalls : e # c => ruCall'[e] = ruCall[e]
      /\ ruCall'[c].at = "replace" /\ ruCall'[c].draft = d
      /\ ruCall'[c].config = ruCall[c].config /\ ruCall'[c].record = ruCall[c].record
  BY <1>0, <1>1, ProceedsOn DEF RuleSteps
<1>3. d \in DOMAIN ruDraft /\ ruCall[c].record \in DraftRecord
  BY <1>0, <1>1, CallsAtWork DEF CallRule, CallFits, RuleCall
<1>4. ruTemp'[d] = ruCall[c].record /\ \A e \in Drafts : e # d => ruTemp'[e] = ruTemp[e]
  BY <1>0, <1>3 DEF WriteTemp, RuleTypeOK
<1>5. ASSUME NEW e \in DOMAIN ruDraft, e # d PROVE DraftFits(e)'
  <2>1. ruTemp'[e] = ruTemp[e]
    BY <1>4, <1>5 DEF RuleTypeOK
  <2> QED
    BY <1>1, <1>2, <1>5, <2>1, OtherDrafts
<1>6. DraftFits(d)'
  <2> SUFFICES ASSUME d \notin ruStale' PROVE DraftFits(d)'
    BY DEF DraftFits
  <2>1. d \notin ruStale
    BY <1>1
  <2>2. DraftFits(d)
    BY <1>3 DEF DraftRule
  <2>3. \A q \in RuleCalls : (Publishes(q, d)' <=> Publishes(q, d)) /\ (Edits(q, d)' <=> Edits(q, d))
    BY <1>0, <1>1, <1>2 DEF Publishes, Edits, Under, Acting
  <2>4. ruDraft'[d].status = "published" => Fit(ruDraft'[d].config) /\ Kept(ruDraft[d].config)'
    <3> SUFFICES ASSUME ruDraft[d].status = "published"
                 PROVE  Fit(ruDraft'[d].config) /\ Kept(ruDraft[d].config)'
      BY <1>1
    <3>1. PICK g : g = ruDraft[d].config
      OBVIOUS
    <3>2. Fit(g) /\ Kept(g)'
      BY <1>3, <2>1, <2>2, <3>1, ShownKept
    <3>3. ruDraft'[d].config = g
      BY <1>1, <3>1
    <3> QED
      BY <3>1, <3>2, <3>3 DEF Kept, Served
  <2>5. Publishes(c, d) \/ Edits(c, d)
    BY <1>0, <1>1, <1>3 DEF Publishes, Edits, Under, Acting, DraftRecord
  <2>6. ASSUME NEW q \in RuleCalls, Publishes(q, d)'
        PROVE  /\ ruCall'[q].config = ruDraft'[d].config
               /\ ruCall'[q].record.config = ruDraft'[d].config
               /\ ruCall'[q].at = "replace" => ruTemp'[d] \in {NoRecord, ruCall'[q].record}
               /\ \A e \in RuleCalls : ~Edits(e, d)'
    <3>1. Publishes(q, d) /\ Publishes(c, d)
      BY <2>1, <2>2, <2>3, <2>5, <2>6 DEF DraftFits
    <3>2. /\ ruCall[q].record.config = ruDraft[d].config /\ ruCall[c].record.config = ruDraft[d].config
          /\ ruCall[q].config = ruDraft[d].config
      BY <2>1, <2>2, <3>1 DEF DraftFits
    <3>3. ruCall[q].record = ruCall[c].record
      <4>1. ruCall[q].record \in DraftRecord
        BY <3>1, CallsAtWork DEF Publishes, Under, Acting, RuleCall
      <4>2. ruCall[q].record.status = ruCall[c].record.status
        BY <3>1 DEF Publishes
      <4> QED
        BY <1>3, <3>2, <4>1, <4>2 DEF DraftRecord
    <3>4. ruCall'[q].record = ruCall[q].record /\ ruCall'[q].config = ruCall[q].config
      BY <1>2
    <3>5. \A e \in RuleCalls : ~Edits(e, d)'
      BY <2>1, <2>2, <2>3, <3>1 DEF DraftFits
    <3> QED
      BY <1>1, <1>4, <3>2, <3>3, <3>4, <3>5
  <2>7. ASSUME NEW q \in RuleCalls, Edits(q, d)', ruCall'[q].at = "replace"
        PROVE  ruTemp'[d] = NoRecord \/ ruTemp'[d].status = "draft"
    <3>1. Edits(q, d)
      BY <2>3, <2>7
    <3>2. Edits(c, d)
      BY <2>1, <2>2, <2>5, <3>1 DEF DraftFits
    <3> QED
      BY <1>4, <3>2 DEF Edits
  <2> QED
    BY <2>4, <2>6, <2>7 DEF DraftFits, Fit
<1> QED
  BY <1>1, <1>5, <1>6 DEF DraftRule

(* And what is there takes its place.                                      *)
LEMMA ReplaceDraftFits ==
  ASSUME RuleRegistryAssumption, RuleTypeOK, CallRule, FileRule, DraftRule, [RuleNext]_ruVars,
         NEW c \in RuleCalls, ReplaceDraft(c), ruTemp[ruCall[c].draft] # NoRecord
  PROVE  DraftRule'
<1>0. PICK d : d = ruCall[c].draft
  OBVIOUS
<1>1. /\ Acting(c) /\ ruCall[c].at = "replace" /\ Proceeds(c, "ended") /\ ruStale' = ruStale
      /\ ruDraft' = [ruDraft EXCEPT ![d] = ruTemp[d]] /\ ruTemp' = [ruTemp EXCEPT ![d] = NoRecord]
  BY <1>0 DEF ReplaceDraft, Acting
<1>2. /\ \A e \in RuleCalls : e # c => ruCall'[e] = ruCall[e]
      /\ ruCall'[c].at = "ended" /\ ruCall'[c].draft = d
  BY <1>0, <1>1, ProceedsOn DEF RuleSteps
<1>3. d \in DOMAIN ruDraft /\ ruCall[c].record \in DraftRecord /\ ruTemp[d] \in DraftRecord
  BY <1>0, <1>1, CallsAtWork DEF CallRule, CallFits, RuleCall, RuleTypeOK
<1>4. /\ DOMAIN ruDraft' = DOMAIN ruDraft /\ ruDraft'[d] = ruTemp[d] /\ ruTemp'[d] = NoRecord
      /\ \A e \in DOMAIN ruDraft : e # d => ruDraft'[e] = ruDraft[e]
      /\ \A e \in Drafts : e # d => ruTemp'[e] = ruTemp[e]
  BY <1>1, <1>3 DEF RuleTypeOK
<1>5. ruTemp[d] # NoRecord
  BY <1>0
<1>6. /\ Publishes(c, d) <=> ruCall[c].record.status = "published"
      /\ Edits(c, d) <=> ruCall[c].record.status = "draft"
  BY <1>0, <1>1 DEF Publishes, Edits, Under, Acting
<1>7. ASSUME NEW e \in DOMAIN ruDraft, e # d PROVE DraftFits(e)'
  <2>1. ruTemp'[e] = ruTemp[e] /\ ruDraft'[e] = ruDraft[e]
    BY <1>4, <1>7 DEF RuleTypeOK
  <2> QED
    BY <1>1, <1>2, <1>7, <2>1, OtherDrafts
<1>8. DraftFits(d)'
  <2> SUFFICES ASSUME d \notin ruStale' PROVE DraftFits(d)'
    BY DEF DraftFits
  <2>1. d \notin ruStale
    BY <1>1
  <2>2. DraftFits(d)
    BY <1>3 DEF DraftRule
  <2>3. \A q \in RuleCalls : /\ Publishes(q, d)' => Publishes(q, d) /\ ruCall'[q] = ruCall[q]
                             /\ Edits(q, d)' => Edits(q, d)
    BY <1>2 DEF Publishes, Edits, Under
  <2>4. CASE Publishes(c, d)
    <3>1. ruTemp[d] = ruCall[c].record
      BY <1>1, <1>5, <2>1, <2>2, <2>4 DEF DraftFits
    <3>2. ruCall[c].record.config = ruDraft[d].config /\ ruCall[c].config = ruDraft[d].config
      BY <2>1, <2>2, <2>4 DEF DraftFits
    <3>3. ruDraft'[d].config = ruDraft[d].config
      BY <1>4, <3>1, <3>2
    <3>4. Fit(ruDraft'[d].config) /\ Kept(ruDraft[d].config)'
      <4>1. PICK g : g = ruCall[c].config
        OBVIOUS
      <4>2. Publisher(c)
        BY <1>1, <1>6, <2>4 DEF Publisher
      <4>3. Fit(g) /\ Kept(g)'
        BY <1>1, <4>1, <4>2, PastKept, PublisherHas
      <4>4. ruDraft'[d].config = g
        BY <3>2, <3>3, <4>1
      <4> QED
        BY <4>3, <4>4 DEF Kept, Served
    <3>5. ASSUME NEW q \in RuleCalls, Publishes(q, d)'
          PROVE  /\ ruCall'[q].config = ruDraft'[d].config
                 /\ ruCall'[q].record.config = ruDraft'[d].config
                 /\ \A e \in RuleCalls : ~Edits(e, d)'
      <4>1. Publishes(q, d) /\ ruCall'[q] = ruCall[q]
        BY <2>3, <3>5
      <4> QED
        BY <2>1, <2>2, <2>3, <3>3, <4>1 DEF DraftFits
    <3> QED
      BY <1>4, <3>4, <3>5 DEF DraftFits, Fit
  <2>5. CASE Edits(c, d)
    <3>1. \A q \in RuleCalls : ~Publishes(q, d)'
      BY <2>1, <2>2, <2>3, <2>5 DEF DraftFits
    <3>2. ruDraft'[d].status = "draft"
      BY <1>1, <1>4, <1>5, <2>1, <2>2, <2>5 DEF DraftFits
    <3> QED
      BY <1>4, <3>1, <3>2 DEF DraftFits
  <2> QED
    BY <1>3, <1>6, <2>4, <2>5 DEF DraftRecord
<1> QED
  BY <1>4, <1>7, <1>8 DEF DraftRule

LEMMA DraftRuleStep ==
  ASSUME RuleRegistryAssumption, RuleTypeOK, CallRule, FileRule, DraftRule, [RuleNext]_ruVars
  PROVE  DraftRule'
<1>1. ASSUME NEW c \in RuleCalls, ReplaceDraft(c) PROVE DraftRule'
  <2>1. CASE ruTemp[ruCall[c].draft] = NoRecord
    <3>1. Acting(c) /\ UNCHANGED <<ruDraft, ruTemp, ruStale>> /\ Proceeds(c, "ended")
      BY <1>1, <2>1 DEF ReplaceDraft, Acting
    <3> QED
      BY <3>1, DraftGoes DEF RuleSteps
  <2>2. CASE ruTemp[ruCall[c].draft] # NoRecord
    BY <1>1, <2>2, ReplaceDraftFits
  <2> QED
    BY <2>1, <2>2
<1>2. ASSUME NEW c \in RuleCalls, PublishSchema(c) PROVE DraftRule'
  <2>1. PICK g \in Configs : ruCall' = [ruCall EXCEPT ![c] = Publication(NoDraft, g)]
    BY <1>2 DEF PublishSchema
  <2>2. (\A e \in RuleCalls : e # c => ruCall'[e] = ruCall[e]) /\ ruCall'[c].draft = NoDraft
    BY <2>1 DEF RuleTypeOK, Publication
  <2>3. UNCHANGED <<ruDraft, ruTemp, ruStale>> /\ NoDraft \notin DOMAIN ruDraft
    BY <1>2 DEF PublishSchema, RuleTypeOK, RuleRegistryAssumption
  <2>4. ASSUME NEW d \in DOMAIN ruDraft PROVE DraftFits(d)'
    BY <2>2, <2>3, OtherDrafts
  <2> QED
    BY <2>3, <2>4 DEF DraftRule
<1>3. ASSUME NEW c \in RuleCalls, LookUpFile(c) PROVE DraftRule'
  <2>1. Acting(c) /\ UNCHANGED <<ruDraft, ruTemp, ruStale>>
    BY <1>3 DEF LookUpFile, Acting
  <2>2. PICK at \in {"open", "row", "mark", "ended"} : Proceeds(c, at)
    BY <1>3 DEF LookUpFile, Stored
  <2> QED
    BY <2>1, <2>2, DraftGoes DEF RuleSteps
<1>4. ASSUME NEW c \in RuleCalls, OpenFile(c) PROVE DraftRule'
  BY <1>4, DraftGoes DEF OpenFile, Acting, RuleSteps
<1>5. ASSUME NEW c \in RuleCalls, FillFile(c) PROVE DraftRule'
  <2>1. Acting(c) /\ UNCHANGED <<ruDraft, ruTemp, ruStale>>
    BY <1>5 DEF FillFile, Acting
  <2>2. PICK at \in {"row", "mark"} : Proceeds(c, at)
    BY <1>5 DEF FillFile, Stored
  <2> QED
    BY <2>1, <2>2, DraftGoes DEF RuleSteps
<1>6. ASSUME NEW c \in RuleCalls, LookUpRow(c) PROVE DraftRule'
  <2>1. Acting(c) /\ UNCHANGED <<ruDraft, ruTemp, ruStale>>
    BY <1>6 DEF LookUpRow, Acting
  <2>2. PICK at \in {"insert", "mark", "ended"} : Proceeds(c, at)
    BY <1>6 DEF LookUpRow
  <2> QED
    BY <2>1, <2>2, DraftGoes DEF RuleSteps
<1>7. ASSUME NEW c \in RuleCalls, InsertRule(c) PROVE DraftRule'
  <2>1. Acting(c) /\ UNCHANGED <<ruDraft, ruTemp, ruStale>>
    BY <1>7 DEF InsertRule, Acting
  <2>2. PICK at \in {"mark", "ended"} : Proceeds(c, at)
    BY <1>7 DEF InsertRule
  <2> QED
    BY <2>1, <2>2, DraftGoes DEF RuleSteps
<1>8. ASSUME NEW c \in RuleCalls, AnswerSchema(c) PROVE DraftRule'
  BY <1>8, DraftGoes DEF AnswerSchema, Acting, RuleSteps
<1>9. ASSUME NEW c \in RuleCalls, LeaveCall(c) PROVE DraftRule'
  BY <1>9, DraftGoes DEF LeaveCall, Acting, RuleSteps
<1>10. ASSUME NEW c \in RuleCalls, ReadDraft(c) PROVE DraftRule'
  <2>1. /\ Acting(c) /\ ruCall[c] \in RuleCall /\ ruCall[c].at = "mark"
        /\ UNCHANGED <<ruDraft, ruTemp, ruStale>>
    BY <1>10, CallsAtWork DEF ReadDraft, Acting
  <2>2. \A e \in RuleCalls : e # c => ruCall'[e] = ruCall[e]
    BY <1>10 DEF ReadDraft, RuleTypeOK
  <2>3. /\ ruCall'[c].config = ruCall[c].config /\ ruCall'[c].at = "save"
        /\ ruCall'[c].draft = ruCall[c].draft
        /\ ruCall'[c].record.status = ruCall[c].record.status
        /\ ruCall'[c].record.config = ruDraft[ruCall[c].draft].config
    BY <1>10, <2>1 DEF ReadDraft, RuleTypeOK, RuleCall, DraftRecord
  <2>4. ASSUME NEW d \in DOMAIN ruDraft PROVE DraftFits(d)'
    <3>1. ASSUME NEW e \in RuleCalls
          PROVE  /\ Publishes(e, d)' =>
                      /\ Publishes(e, d)
                      /\ ruCall'[e].config = ruCall[e].config
                      /\ ruCall'[e].record.config \in {ruCall[e].record.config, ruDraft[d].config}
                      /\ ruCall'[e].at = "replace" => ruCall'[e] = ruCall[e]
                 /\ Edits(e, d)' => Edits(e, d)
                 /\ Edits(e, d)' /\ ruCall'[e].at = "replace" => ruCall[e].at = "replace"
      BY <2>1, <2>2, <2>3 DEF Publishes, Edits, Under
    <3>2. DraftFits(d)
      BY DEF DraftRule
    <3> QED
      BY <2>1, <3>1, <3>2, DraftSame
  <2> QED
    BY <2>1, <2>4 DEF DraftRule
<1>11. ASSUME UNCHANGED ruVars PROVE DraftRule'
  BY <1>11 DEF ruVars, DraftRule, DraftFits, Kept, Served, Publishes, Edits, Under, Fit
<1> QED
  BY <1>1, <1>2, <1>3, <1>4, <1>5, <1>6, <1>7, <1>8, <1>9, <1>10, <1>11,
     CreateDraftFits, EditDraftFits, PublishDraftFits, WriteTempFits
  DEF RuleNext

-----------------------------------------------------------------------------
LEMMA RuleInvInit == ASSUME RuleRegistryAssumption, RuleInit PROVE RuleInv
<1>1. RuleTypeOK
  BY DEF RuleInit, RuleTypeOK, NewCall
<1>2. \A c \in RuleCalls : ~Acting(c)
  BY DEF RuleInit, Acting
<1>3. CallRule /\ FileRule /\ AnswerRule /\ DraftRule
  BY <1>2 DEF RuleInit, CallRule, CallFits, FileRule, FileFits, Publisher, AnswerRule, DraftRule
<1> QED
  BY <1>1, <1>3 DEF RuleInv

(* RuleInv is what the safety of the registry of rules rests on: what a    *)
(* publication relies on at each step, and what is answered and shown.     *)
THEOREM RuleInvariant == RuleSpec => []RuleInv
<1>1. RuleInit => RuleInv
  BY RuleRegistryAssumption, RuleInvInit
<1>2. RuleInv /\ [RuleNext]_ruVars => RuleInv'
  <2> SUFFICES ASSUME RuleInv, [RuleNext]_ruVars PROVE RuleInv'
    OBVIOUS
  <2>1. RuleTypeOK /\ CallRule /\ FileRule /\ AnswerRule /\ DraftRule
    BY DEF RuleInv
  <2>2. RuleTypeOK'
    BY <2>1, RuleRegistryAssumption, RuleTypeStep
  <2>3. CallRule' /\ FileRule' /\ AnswerRule' /\ DraftRule'
    BY <2>1, <2>2, RuleRegistryAssumption, CallRuleStep, FileRuleStep, AnswerRuleStep, DraftRuleStep
  <2> QED
    BY <2>2, <2>3 DEF RuleInv
<1> QED
  BY <1>1, <1>2, PTL DEF RuleSpec

(* Whatever publications, edits, errors and ends of processes meet:        *)
(* a version that was answered as published is served as it was published, *)
(* and a draft shown as published, of which no edit overlapped, is too.    *)
THEOREM VersionsAreServed == RuleSpec => []PublishedIsServed
<1>1. RuleInv => PublishedIsServed
  BY DEF RuleInv, AnswerRule, DraftRule, DraftFits, PublishedIsServed
<1> QED
  BY <1>1, RuleInvariant, PTL
=============================================================================
