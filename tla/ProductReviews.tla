--------------------------- MODULE ProductReviews ---------------------------
(***************************************************************************)
(* The review rounds of one product normalization, with a database: a run  *)
(* makes a revision with reviews, reviewers decide them, a request queues  *)
(* the next run once all are resolved.  The reviews live twice, as rows    *)
(* and in product-workflow.json; the rows accept each decision once, the   *)
(* file is rewritten whole from what each request read.                    *)
(***************************************************************************)
EXTENDS Integers, FiniteSets

CONSTANTS ReviewItems,      \* the reviews of a revision
          Reviewers,        \* decision requests at work at one time
          Revisers,         \* revision requests at work at one time
          RevisionWorkers,  \* worker processes
          MaxProductRevision

ASSUME ProductReviewsAssumption == MaxProductRevision \in Nat \ {0}

Revisions == 1 .. MaxProductRevision

VARIABLES
    prdStatus,    \* status.json: status and revision number
    prdState,     \* product-workflow.json: current revision and its reviews
    prdRows,      \* revision -> its rows: parent and reviews, once it exists
    prdLock,      \* .revision.lock: absent, present, or old
    prdQueue,     \* how many revision runs wait in the queue
    prdRun,       \* worker -> its run
    prdDecide,    \* reviewer -> its decision request
    prdRevise,    \* reviser -> the status its request read, if it is at work
    prdCrossed,   \* history: two decisions, or a decision and a run, overlapped
    prdTwice,     \* history: a run was asked for before the last one had ended
    prdKilled,    \* history: the process of a run died
    prdParted     \* history: a call stopped between the commit of rows and the
                  \* write of the file, or wrote over what another had written

prdVars == <<prdStatus, prdState, prdRows, prdLock, prdQueue, prdRun, prdDecide,
             prdRevise, prdCrossed, prdTwice, prdKilled, prdParted>>

Pending  == [x \in ReviewItems |-> "pending"]
Answers  == {"accept", "reject"}
NoRows   == [made |-> FALSE, parent |-> 0, reviews |-> Pending]
NoWork   == [at |-> "idle", read |-> [revision |-> 0, reviews |-> Pending], item |-> "none",
             answer |-> "none", revision |-> 0]

Decided(reviews)  == \A x \in ReviewItems : reviews[x] # "pending"
Rejected(reviews) == \E x \in ReviewItems : reviews[x] = "reject"

Latest == CHOOSE n \in 0 .. MaxProductRevision :
             /\ n # 0 => prdRows[n].made
             /\ \A m \in Revisions : prdRows[m].made => m <= n

Busy(f) == \E p \in DOMAIN f : f[p] # NoWork

-----------------------------------------------------------------------------
(* ProductWorkflowService.decide_review                                    *)

DecideVars == <<prdStatus, prdState, prdLock, prdQueue, prdRun, prdRevise,
                prdTwice, prdKilled>>

(* The review must be one of the file; the request keeps what it read. *)
ReadReview(p) ==
    /\ prdDecide[p] = NoWork /\ prdState.revision # 0
    /\ \E x \in ReviewItems, answer \in Answers :
          prdDecide' = [prdDecide EXCEPT ![p] = [NoWork EXCEPT !.at = "check",
                          !.read = prdState, !.item = x, !.answer = answer]]
    /\ prdCrossed' = (prdCrossed \/ Busy(prdDecide) \/ Busy(prdRun))
    /\ UNCHANGED <<prdRows, prdParted>> /\ UNCHANGED DecideVars

(* Slip: a review decided before is decided again. *)
SlipCheckRow(p) ==
    /\ prdDecide[p].at = "check"
    /\ prdDecide' = [prdDecide EXCEPT ![p].at = "row"]
    /\ UNCHANGED <<prdRows, prdCrossed, prdParted>> /\ UNCHANGED DecideVars

(* decide_product_review: the row is read, refused unless pending, ...     *)
CheckRow(p) ==
    /\ prdDecide[p].at = "check"
    /\ LET d == prdDecide[p]
           pending == prdRows[d.read.revision].reviews[d.item] = "pending"
       IN  prdDecide' = [prdDecide EXCEPT ![p] =
                            IF pending THEN [d EXCEPT !.at = "row"] ELSE NoWork]
    /\ UNCHANGED <<prdRows, prdCrossed, prdParted>> /\ UNCHANGED DecideVars

(* ... and updated in the same transaction, without a lock on the row. *)
UpdateRow(p) ==
    /\ prdDecide[p].at = "row"
    /\ LET d == prdDecide[p]
       IN  /\ prdRows' = [prdRows EXCEPT ![d.read.revision].reviews[d.item] = d.answer]
           /\ prdDecide' = [prdDecide EXCEPT ![p].at = "file",
                                             ![p].read.reviews[d.item] = d.answer]
    /\ UNCHANGED <<prdCrossed, prdParted>> /\ UNCHANGED DecideVars

FileVars == <<prdStatus, prdRows, prdLock, prdQueue, prdRun, prdRevise,
              prdCrossed, prdTwice, prdKilled>>

(* The file is no longer the one the decision was made of. *)
Outdated(d) == prdState # [d.read EXCEPT !.reviews[d.item] = "pending"]

(* Slip: the file is written once everything is decided. *)
SlipWriteState(p) ==
    /\ prdDecide[p].at = "file"
    /\ IF Decided(prdDecide[p].read.reviews)
       THEN /\ prdState' = prdDecide[p].read
            /\ prdDecide' = [prdDecide EXCEPT ![p].at = "status"]
            /\ prdParted' = (prdParted \/ Outdated(prdDecide[p]))
       ELSE prdDecide' = [prdDecide EXCEPT ![p] = NoWork] /\ UNCHANGED <<prdState, prdParted>>
    /\ UNCHANGED FileVars

(* The whole file is written back as it was read, with the one answer. *)
WriteState(p) ==
    /\ prdDecide[p].at = "file"
    /\ prdState' = prdDecide[p].read
    /\ prdDecide' = [prdDecide EXCEPT ![p] =
            IF Decided(prdDecide[p].read.reviews) THEN [@ EXCEPT !.at = "status"] ELSE NoWork]
    /\ prdParted' = (prdParted \/ Outdated(prdDecide[p]))
    /\ UNCHANGED FileVars

MarkResolved(p) ==
    /\ prdDecide[p].at = "status"
    /\ prdStatus' = [prdStatus EXCEPT !.status = "review_resolved"]
    /\ prdDecide' = [prdDecide EXCEPT ![p] = NoWork]
    /\ UNCHANGED <<prdState, prdRows, prdLock, prdQueue, prdRun, prdRevise,
                   prdCrossed, prdTwice, prdKilled, prdParted>>

(* A step raises, or the process of the API dies, between any two steps:   *)
(* nothing takes back the row, and a decided row refuses a second try.     *)
DecisionStops(p) ==
    /\ prdDecide[p] # NoWork
    /\ prdDecide' = [prdDecide EXCEPT ![p] = NoWork]
    /\ prdParted' = (prdParted \/ prdDecide[p].at = "file")
    /\ UNCHANGED <<prdRows, prdCrossed>> /\ UNCHANGED DecideVars

-----------------------------------------------------------------------------
(* api.create_product_revision                                             *)

ReviseVars == <<prdState, prdRows, prdLock, prdRun, prdDecide, prdCrossed, prdKilled, prdParted>>
NoRead == [status |-> "none", revision |-> 0]

(* The rows of the latest revision must be resolved and none rejected. *)
AskRevision(v) ==
    /\ prdRevise[v] = NoRead /\ prdStatus.status = "review_resolved"
    /\ Latest # 0 /\ Latest < MaxProductRevision
    /\ Decided(prdRows[Latest].reviews) /\ ~Rejected(prdRows[Latest].reviews)
    /\ prdRevise' = [prdRevise EXCEPT ![v] = prdStatus]
    /\ prdTwice' = (prdTwice \/ prdQueue > 0 \/ Busy(prdRun)
                      \/ \E u \in Revisers : prdRevise[u] # NoRead)
    /\ UNCHANGED <<prdStatus, prdQueue>> /\ UNCHANGED ReviseVars

QueueRevision(v) ==
    /\ prdRevise[v].status = "review_resolved"
    /\ prdStatus' = [prdRevise[v] EXCEPT !.status = "revision_queued"]
    /\ prdRevise' = [prdRevise EXCEPT ![v].status = "enqueue"]
    /\ UNCHANGED <<prdQueue, prdTwice>> /\ UNCHANGED ReviseVars

(* The run is queued, or the status read at the start is written back. *)
EnqueueRevision(v) ==
    /\ prdRevise[v].status = "enqueue"
    /\ \/ prdQueue' = prdQueue + 1 /\ UNCHANGED prdStatus
       \/ /\ prdStatus' = [prdRevise[v] EXCEPT !.status = "review_resolved"]
          /\ UNCHANGED prdQueue
    /\ prdRevise' = [prdRevise EXCEPT ![v] = NoRead]
    /\ UNCHANGED prdTwice /\ UNCHANGED ReviseVars

-----------------------------------------------------------------------------
(* rerun_after_reviews_safe on worker w: any error writes failed.          *)

RunVars == <<prdDecide, prdRevise, prdTwice>>
RunKeeps == <<prdState, prdRows, prdQueue, prdCrossed, prdKilled, prdParted>>
SetRun(w, at) == prdRun' = [prdRun EXCEPT ![w].at = at]

(* The reviews of the file are looked at, not those of the rows. *)
TakeRevision(w) ==
    /\ prdRun[w] = NoWork /\ prdQueue > 0
    /\ prdQueue' = prdQueue - 1
    /\ prdRun' = [prdRun EXCEPT ![w] = [NoWork EXCEPT !.read = prdState,
            !.at = IF Decided(prdState.reviews) /\ ~Rejected(prdState.reviews)
                      /\ prdState.revision # 0
                   THEN "lock" ELSE "fail"]]
    /\ prdCrossed' = (prdCrossed \/ Busy(prdDecide))
    /\ UNCHANGED <<prdStatus, prdState, prdRows, prdLock, prdKilled, prdParted>>
    /\ UNCHANGED RunVars

(* The lock is made, or it is old and taken over, or the run gives up. *)
LockRevision(w) ==
    /\ prdRun[w].at = "lock"
    /\ IF prdLock = "present" THEN SetRun(w, "fail") /\ UNCHANGED prdLock
       ELSE SetRun(w, "validating") /\ prdLock' = "present"
    /\ UNCHANGED prdStatus /\ UNCHANGED RunKeeps /\ UNCHANGED RunVars

(* Older than the processing timeout and a minute.  Only the age is looked *)
(* at: its owner may be dead or at work still, and removes what lock there *)
(* is when it ends.                                                        *)
AgeRevisionLock ==
    /\ prdLock = "present"
    /\ prdLock' = "old"
    /\ UNCHANGED <<prdStatus, prdRun>> /\ UNCHANGED RunKeeps /\ UNCHANGED RunVars

(* ProductWorkflowService.run: validating, the normalization, the rows of  *)
(* the next revision, the file, the last status.                           *)
Normalize(w) ==
    /\ prdRun[w].at = "validating"
    /\ prdStatus' = [prdStatus EXCEPT !.status = "validating"]
    /\ SetRun(w, "insert")
    /\ UNCHANGED prdLock /\ UNCHANGED RunKeeps /\ UNCHANGED RunVars

(* create_product_revision: one above the highest number.  A run without a *)
(* parent is the first of the job.                                         *)
InsertRevision(w) ==
    /\ prdRun[w].at = "insert" /\ Latest < MaxProductRevision
    /\ LET next == Latest + 1
       IN  /\ prdRows' = [prdRows EXCEPT ![next] = [made |-> TRUE,
                              parent |-> prdRun[w].read.revision, reviews |-> Pending]]
           /\ prdRun' = [prdRun EXCEPT ![w].at = "state", ![w].revision = next]
    /\ UNCHANGED <<prdStatus, prdState, prdLock, prdQueue, prdCrossed, prdKilled, prdParted>>
    /\ UNCHANGED RunVars

(* The file of the new revision, over whatever a run beside it wrote. *)
SaveState(w) ==
    /\ prdRun[w].at = "state"
    /\ prdState' = [revision |-> prdRun[w].revision,
                    reviews  |-> prdRows[prdRun[w].revision].reviews]
    /\ prdParted' = (prdParted \/ prdState.revision > prdRun[w].revision)
    /\ SetRun(w, "finish")
    /\ UNCHANGED <<prdStatus, prdRows, prdLock, prdQueue, prdCrossed, prdKilled>>
    /\ UNCHANGED RunVars

(* A step of run raises: its except clause writes the status.  Before run, *)
(* at its first status or in the except clause, the error is that of       *)
(* rerun_after_reviews_safe, with the lock, if there is one, removed.      *)
RunRaises(w) ==
    /\ \/ prdRun[w].at = "lock" /\ SetRun(w, "fail") /\ UNCHANGED prdLock
       \/ /\ prdRun[w].at \in {"validating", "failed run"}
          /\ SetRun(w, "fail") /\ prdLock' = "absent"
       \/ /\ prdRun[w].at \in {"insert", "state", "finish"}
          /\ SetRun(w, "failed run") /\ UNCHANGED prdLock
    /\ prdParted' = (prdParted \/ prdRun[w].at = "state")
    /\ UNCHANGED <<prdStatus, prdState, prdRows, prdQueue, prdCrossed, prdKilled>>
    /\ UNCHANGED RunVars

(* The last status of the run, ... *)
FinishRevision(w) ==
    /\ prdRun[w].at \in {"finish", "failed run"}
    /\ prdStatus' = IF prdRun[w].at = "finish"
                    THEN [status |-> "manual_review", revision |-> prdRun[w].revision]
                    ELSE [prdStatus EXCEPT !.status = "failed"]
    /\ SetRun(w, "unlock")
    /\ UNCHANGED prdLock /\ UNCHANGED RunKeeps /\ UNCHANGED RunVars

(* ... then the lock is removed, whoever made it. *)
UnlockRevision(w) ==
    /\ prdRun[w].at = "unlock"
    /\ prdLock' = "absent"
    /\ prdRun' = [prdRun EXCEPT ![w] = NoWork]
    /\ UNCHANGED prdStatus /\ UNCHANGED RunKeeps /\ UNCHANGED RunVars

RevisionFails(w) ==
    /\ prdRun[w].at = "fail"
    /\ prdStatus' = [prdStatus EXCEPT !.status = "failed"]
    /\ prdRun' = [prdRun EXCEPT ![w] = NoWork]
    /\ UNCHANGED prdLock /\ UNCHANGED RunKeeps /\ UNCHANGED RunVars

KillRevision(w) ==
    /\ prdRun[w] # NoWork
    /\ prdRun' = [prdRun EXCEPT ![w] = NoWork]
    /\ prdKilled' = TRUE
    /\ prdParted' = (prdParted \/ prdRun[w].at = "state")
    /\ UNCHANGED <<prdStatus, prdState, prdRows, prdLock, prdQueue, prdCrossed>>
    /\ UNCHANGED RunVars

-----------------------------------------------------------------------------
(* The first run has made revision 1, with its reviews pending. *)
ReviewInit ==
    /\ prdStatus = [status |-> "manual_review", revision |-> 1]
    /\ prdState = [revision |-> 1, reviews |-> Pending]
    /\ prdRows = [n \in Revisions |-> [NoRows EXCEPT !.made = (n = 1)]]
    /\ prdLock = "absent"
    /\ prdQueue = 0
    /\ prdRun = [w \in RevisionWorkers |-> NoWork]
    /\ prdDecide = [p \in Reviewers |-> NoWork]
    /\ prdRevise = [v \in Revisers |-> NoRead]
    /\ prdCrossed = FALSE /\ prdTwice = FALSE /\ prdKilled = FALSE /\ prdParted = FALSE

ReviewNext ==
    \/ \E p \in Reviewers :
          \/ ReadReview(p) \/ CheckRow(p) \/ UpdateRow(p) \/ WriteState(p) \/ MarkResolved(p)
          \/ DecisionStops(p)
    \/ \E v \in Revisers : AskRevision(v) \/ QueueRevision(v) \/ EnqueueRevision(v)
    \/ \E w \in RevisionWorkers :
          \/ TakeRevision(w) \/ LockRevision(w) \/ Normalize(w)
          \/ InsertRevision(w) \/ SaveState(w) \/ FinishRevision(w) \/ UnlockRevision(w)
          \/ RunRaises(w) \/ RevisionFails(w) \/ KillRevision(w)
    \/ AgeRevisionLock

ReviewSpec == ReviewInit /\ [][ReviewNext]_prdVars

-----------------------------------------------------------------------------
(* Properties.                                                             *)

(* A revision is only ever made from the one before it, when all reviews   *)
(* of that one were decided and none rejected: two revision requests for   *)
(* one parent, runs that take over the lock of a live run and calls that   *)
(* stop anywhere included.                                                 *)
RevisionsFollowReviews ==
    \A n \in Revisions : prdRows[n].made /\ n > 1 =>
        LET parent == prdRows[n].parent
        IN  /\ parent \in 1 .. n - 1
            /\ Decided(prdRows[parent].reviews)
            /\ ~prdCrossed => ~Rejected(prdRows[parent].reviews)
            /\ ~prdCrossed /\ ~prdTwice /\ ~prdKilled => parent = n - 1

(* The file, which decisions and runs read, is never ahead of the rows,    *)
(* which lists and the revision request read: whatever overlaps, stops or  *)
(* dies, it names a revision that was made and calls no review decided     *)
(* that is pending in the rows.  With no decision or run at work the two   *)
(* say the same, unless one stopped between the commit of the rows and the *)
(* write of the file, or wrote over what another had written; no other     *)
(* failure, second run or lock taken over parts them.                      *)
ReviewsAgree ==
    /\ prdRows[prdState.revision].made
    /\ \A x \in ReviewItems : prdState.reviews[x] # "pending" =>
           prdRows[prdState.revision].reviews[x] # "pending"
    /\ ~prdParted /\ ~Busy(prdDecide) /\ ~Busy(prdRun) =>
           /\ prdState.revision = Latest
           /\ prdState.reviews = prdRows[Latest].reviews

=============================================================================
