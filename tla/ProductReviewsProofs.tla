------------------------ MODULE ProductReviewsProofs ------------------------
(***************************************************************************)
(* The reviews of the product workflow, for any reviewers, workers and     *)
(* requests: revisions come of the reviews of the one before, and the file *)
(* is never ahead of the rows.  The inductive invariant has three parts:   *)
(* BaseRules holds always, LineRule as long as the work was one after the  *)
(* other, PartedRule until a call stops between the rows and the file.     *)
(***************************************************************************)
EXTENDS ProductReviews, TLAPS

-----------------------------------------------------------------------------
(* The inductive invariant.                                                *)

ReviewAnswers == [ReviewItems -> {"pending"} \cup Answers]
Numbers == 0 .. MaxProductRevision
WorkPlaces == {"idle", "check", "row", "file", "status", "lock", "fail", "validating", "insert",
               "failed run", "state", "finish", "unlock"}
WorkRecord == [at : WorkPlaces, read : [revision : Numbers, reviews : ReviewAnswers],
               item : ReviewItems \cup {"none"}, answer : Answers \cup {"none"}, revision : Numbers]

StatusRecord == [status : {"none", "manual_review", "review_resolved", "revision_queued", "enqueue",
                           "validating", "failed"}, revision : Numbers]

ReviewTypeOK ==
    /\ prdState \in [revision : Revisions, reviews : ReviewAnswers]
    /\ prdRows \in [Revisions -> [made : BOOLEAN, parent : Numbers, reviews : ReviewAnswers]]
    /\ prdQueue \in Nat
    /\ prdRun \in [RevisionWorkers -> WorkRecord]
    /\ prdDecide \in [Reviewers -> WorkRecord]
    /\ prdCrossed \in BOOLEAN /\ prdTwice \in BOOLEAN /\ prdKilled \in BOOLEAN /\ prdParted \in BOOLEAN
    /\ prdRevise \in [Revisers -> StatusRecord]
    /\ prdStatus \in StatusRecord

(* The revisions made so far have the numbers up to the latest. *)
RowsRule == \E n \in Revisions : \A m \in Revisions : prdRows[m].made <=> m <= n

(* A revision run that has what it read still to use.                      *)
Reading == {"lock", "validating", "insert"}

(* What was answered in what someone read is answered in the row. *)
Known(f) == f.revision # 0 =>
    /\ prdRows[f.revision].made
    /\ \A x \in ReviewItems : f.reviews[x] # "pending" => prdRows[f.revision].reviews[x] # "pending"

WorkRule ==
    /\ Known(prdState)
    /\ \A p \in Reviewers :
          /\ Known(prdDecide[p].read)
          /\ prdDecide[p].at # "idle" => /\ prdDecide[p].read.revision # 0
                                         /\ prdDecide[p].item \in ReviewItems
                                         /\ prdDecide[p].answer \in Answers
          /\ prdDecide[p].at = "file" => prdDecide[p].read.reviews[prdDecide[p].item] = prdDecide[p].answer
    /\ \A w \in RevisionWorkers :
          /\ Known(prdRun[w].read)
          /\ prdRun[w].at \in Reading => /\ prdRun[w].read.revision # 0
                                         /\ Decided(prdRun[w].read.reviews)
                                         /\ ~Rejected(prdRun[w].read.reviews)
          /\ prdRun[w].at = "state" => /\ prdRun[w].revision # 0
                                       /\ prdRows[prdRun[w].revision].made

(* The parent of a revision, but for the last part of the property. *)
ParentRule ==
    \A n \in Revisions : prdRows[n].made /\ n > 1 =>
        /\ prdRows[n].parent \in 1 .. n - 1
        /\ prdRows[prdRows[n].parent].made
        /\ Decided(prdRows[prdRows[n].parent].reviews)
        /\ ~prdCrossed => ~Rejected(prdRows[prdRows[n].parent].reviews)

(* The answers that someone read are those of the row. *)
InStep(f) == \A x \in ReviewItems :
    f.reviews[x] # "pending" => f.reviews[x] = prdRows[f.revision].reviews[x]

(* Unless two crossed, one reviewer or one worker is at work, and the      *)
(* answers in the file, and in what was read from it, are those of the row *)
(* it names.                                                               *)
SameRule ==
    ~prdCrossed =>
        /\ \A p, q \in Reviewers : prdDecide[p] # NoWork /\ prdDecide[q] # NoWork => p = q
        /\ \A p \in Reviewers, w \in RevisionWorkers : prdDecide[p] = NoWork \/ prdRun[w] = NoWork
        /\ InStep(prdState)
        /\ \A p \in Reviewers :
              LET d == prdDecide[p] IN
              /\ d.at \in {"check", "row"} => d.read = prdState
              /\ d.at = "row" => prdRows[d.read.revision].reviews[d.item] = "pending"
              /\ d.at = "file" => InStep(d.read) /\ d.read.revision = prdState.revision
        /\ \A w \in RevisionWorkers : prdRun[w].at \in Reading => InStep(prdRun[w].read)

(* Unless a revision was dispatched twice, one request for a revision, one *)
(* call that makes one or one worker is under way.                         *)
TurnRule ==
    ~prdTwice =>
        /\ prdQueue <= 1
        /\ prdQueue = 1 => ~Busy(prdRun) /\ \A v \in Revisers : prdRevise[v] = NoRead
        /\ Busy(prdRun) => \A v \in Revisers : prdRevise[v] = NoRead
        /\ \A u, v \in Revisers : prdRevise[u] # NoRead /\ prdRevise[v] # NoRead => u = v
        /\ \A v, w \in RevisionWorkers : prdRun[v] # NoWork /\ prdRun[w] # NoWork => v = w

BaseRules == ReviewTypeOK /\ RowsRule /\ WorkRule /\ ParentRule /\ SameRule /\ TurnRule

(* A run failed after its rows were made: the file has the revision before *)
(* them, with everything decided, and nobody can decide or ask any more.   *)
Stuck ==
    /\ Decided(prdState.reviews)
    /\ prdStatus.status # "review_resolved"
    /\ prdQueue = 0
    /\ \A v \in Revisers : prdRevise[v] = NoRead
    /\ \A w \in RevisionWorkers : prdRun[w].at \in {"idle", "failed run", "fail", "unlock"}
    /\ \A p \in Reviewers : prdDecide[p].at \in {"idle", "check"}

(* As long as nothing crossed, was dispatched twice or was killed, the     *)
(* file has the latest revision, or a run is about to write it, or has     *)
(* failed to; whoever works goes on from the latest one and the file, and  *)
(* each revision is the child of the one before it.                        *)
LineRule ==
    ~prdCrossed /\ ~prdTwice /\ ~prdKilled =>
        /\ prdState.revision = Latest \/ Stuck \/ \E w \in RevisionWorkers : prdRun[w].at = "state"
        /\ \A w \in RevisionWorkers :
              /\ prdRun[w].at \in Reading => prdRun[w].read.revision = Latest /\ prdRun[w].read = prdState
              /\ prdRun[w].at = "insert" => prdStatus.status # "review_resolved"
              /\ prdRun[w].at = "state" => /\ prdRun[w].revision = Latest
                                           /\ Decided(prdState.reviews)
                                           /\ prdStatus.status # "review_resolved"
        /\ \A n \in Revisions : prdRows[n].made /\ n > 1 => prdRows[n].parent = n - 1

(* Unless the two were parted, what the file does not tell yet is still to *)
(* be written: by the run that made the latest revision, or by a decision  *)
(* whose answer is the one of the row.                                     *)
Answering(p, x) ==
    /\ prdDecide[p].at = "file"
    /\ prdDecide[p].read.revision = prdState.revision
    /\ prdDecide[p].item = x
    /\ prdDecide[p].answer = prdRows[prdState.revision].reviews[x]

PartedRule ==
    ~prdParted =>
        /\ \/ prdState.revision = Latest
           \/ \E w \in RevisionWorkers : prdRun[w].at = "state" /\ prdRun[w].revision = Latest
        /\ \A x \in ReviewItems :
              \/ prdState.reviews[x] = prdRows[prdState.revision].reviews[x]
              \/ \E p \in Reviewers : Answering(p, x)

ReviewIInv == BaseRules /\ LineRule /\ PartedRule

LEMMA RevisionNumbers ==
    /\ MaxProductRevision \in Nat /\ 1 \in Revisions /\ 0 \in Numbers /\ 0 \notin Revisions
    /\ \A n : n \in Revisions <=> n \in Numbers /\ n # 0
    /\ \A n \in Numbers : n \in Int
BY ProductReviewsAssumption DEF Revisions, Numbers

LEMMA TopIs ==
    ASSUME NEW rows, NEW n \in Revisions, \A m \in Revisions : rows[m].made <=> m <= n
    PROVE  n = CHOOSE k \in 0 .. MaxProductRevision :
                  /\ k # 0 => rows[k].made
                  /\ \A m \in Revisions : rows[m].made => m <= k
<1> DEFINE P(k) == /\ k # 0 => rows[k].made
                   /\ \A m \in Revisions : rows[m].made => m <= k
<1>1. n \in 0 .. MaxProductRevision /\ P(n)
    BY RevisionNumbers DEF Numbers
<1>2. ASSUME NEW k \in 0 .. MaxProductRevision, P(k) PROVE k = n
    <2>1. k # 0 => k \in Revisions
        BY RevisionNumbers DEF Numbers
    <2>0. n \in Int
        BY DEF Revisions
    <2>5. rows[n].made
        BY <2>0
    <2>2. n <= k
        BY <1>2, <2>5
    <2>3. k # 0 => k <= n
        BY <1>2, <2>1
    <2>4. n \in 1 .. MaxProductRevision
        BY DEF Revisions
    <2> QED BY <2>2, <2>3, <2>4
<1> HIDE DEF P
<1>3. n = CHOOSE k \in 0 .. MaxProductRevision : P(k)
    BY <1>1, <1>2
<1> QED BY <1>3 DEF P

LEMMA LatestMade ==
    ASSUME RowsRule
    PROVE  /\ Latest \in Revisions
           /\ \A m \in Revisions : prdRows[m].made <=> m <= Latest
BY TopIs DEF RowsRule, Latest

(* The latest revision stays as long as none is made. *)
LEMMA LatestStays ==
    ASSUME RowsRule, \A m \in Revisions : prdRows'[m].made = prdRows[m].made
    PROVE  RowsRule' /\ Latest' = Latest
<1>1. PICK n \in Revisions : \A m \in Revisions : prdRows[m].made <=> m <= n
    BY DEF RowsRule
<1>2. \A m \in Revisions : prdRows'[m].made <=> m <= n
    BY <1>1, Zenon
<1>3. n = Latest
    BY <1>1, TopIs DEF Latest
<1>4. n = Latest'
    BY <1>2, TopIs DEF Latest
<1> QED BY <1>2, <1>3, <1>4 DEF RowsRule

LEMMA WorkTypes ==
    /\ NoWork \in WorkRecord /\ NoWork.at = "idle" /\ NoWork.read.revision = 0
    /\ NoRead \in StatusRecord /\ NoRead.status = "none"
    /\ Pending \in ReviewAnswers
    /\ \A x \in ReviewItems : Pending[x] = "pending"
<1>1. Pending \in ReviewAnswers /\ \A x \in ReviewItems : Pending[x] = "pending"
    BY DEF Pending, ReviewAnswers
<1>2. 0 \in Numbers
    BY RevisionNumbers
<1> QED BY <1>1, <1>2 DEF NoWork, NoRead, WorkRecord, StatusRecord, WorkPlaces

LEMMA ReviewInitially == ReviewInit => BaseRules
<1> SUFFICES ASSUME ReviewInit PROVE BaseRules
    OBVIOUS
<1>1. \A n \in Revisions : /\ prdRows[n].made <=> n = 1
                           /\ prdRows[n] \in [made : BOOLEAN, parent : Numbers, reviews : ReviewAnswers]
                           /\ prdRows[n].reviews = Pending
    BY WorkTypes, RevisionNumbers DEF ReviewInit, NoRows
<1>2. ReviewTypeOK
    <2>1. prdRows \in [Revisions -> [made : BOOLEAN, parent : Numbers, reviews : ReviewAnswers]]
        BY <1>1 DEF ReviewInit
    <2>2. prdState \in [revision : Revisions, reviews : ReviewAnswers]
        BY WorkTypes, RevisionNumbers DEF ReviewInit
    <2>3. prdStatus \in StatusRecord
        BY RevisionNumbers DEF ReviewInit, StatusRecord
    <2> QED BY <2>1, <2>2, <2>3, WorkTypes DEF ReviewInit, ReviewTypeOK
<1>3. \A m \in Revisions : prdRows[m].made <=> m <= 1
    BY <1>1 DEF Revisions
<1>4. RowsRule /\ Latest = 1
    BY <1>3, TopIs, RevisionNumbers DEF RowsRule, Latest
<1>5. InStep(prdState) /\ Known(prdState)
    BY <1>1, RevisionNumbers DEF ReviewInit, InStep, Known
<1>6. /\ \A p \in Reviewers : prdDecide[p] = NoWork
      /\ \A w \in RevisionWorkers : prdRun[w] = NoWork
      /\ \A v \in Revisers : prdRevise[v] = NoRead
    BY DEF ReviewInit
<1>7. WorkRule
    BY <1>5, <1>6, WorkTypes DEF WorkRule, Known, Reading
<1>8. \A n \in Revisions : prdRows[n].made => ~(n > 1)
    BY <1>1 DEF Revisions
<1>9. ParentRule
    BY <1>8 DEF ParentRule
<1>10. SameRule
    BY <1>5, <1>6, WorkTypes DEF SameRule, Reading
<1>11. TurnRule
    BY <1>6 DEF TurnRule, Busy, ReviewInit
<1> QED BY <1>2, <1>4, <1>7, <1>9, <1>10, <1>11 DEF BaseRules

LEMMA ReviewParts ==
    BaseRules => ReviewTypeOK /\ RowsRule /\ WorkRule /\ ParentRule /\ SameRule /\ TurnRule
BY DEF BaseRules

(* A run goes on or ends, and changes nothing that the others read.        *)
LEMMA QuietRun ==
    ASSUME BaseRules, NEW w \in RevisionWorkers, NEW x \in WorkRecord,
           prdRun' = [prdRun EXCEPT ![w] = x], prdRun[w] # NoWork,
           UNCHANGED <<prdState, prdRows, prdQueue, prdDecide, prdRevise, prdCrossed, prdTwice>>,
           prdStatus' \in StatusRecord, prdKilled' \in BOOLEAN, prdParted' \in BOOLEAN,
           x = NoWork \/ x.read = prdRun[w].read,
           x.at \in Reading => prdRun[w].at \in Reading, x.at # "state"
    PROVE  BaseRules'
<1>0. ReviewTypeOK /\ RowsRule /\ WorkRule /\ ParentRule /\ SameRule /\ TurnRule
    BY ReviewParts
<1>1. /\ prdRun' \in [RevisionWorkers -> WorkRecord] /\ prdRun'[w] = x
      /\ \A v \in RevisionWorkers \ {w} : prdRun'[v] = prdRun[v]
    BY <1>0 DEF ReviewTypeOK
<1>2. ReviewTypeOK'
    BY <1>0, <1>1 DEF ReviewTypeOK
<1>3. RowsRule' /\ Latest' = Latest
    BY <1>0, LatestStays
<1>5. \A f : Known(f)' <=> Known(f)
    BY DEF Known
<1>6. WorkRule'
    <2>1. Known(prdState)' /\ \A p \in Reviewers : Known(prdDecide[p].read)'
        BY <1>0 DEF WorkRule, Known
    <2>2. ASSUME NEW v \in RevisionWorkers
          PROVE  /\ Known(prdRun[v].read)'
                 /\ prdRun'[v].at \in Reading => /\ prdRun'[v].read.revision # 0
                                                 /\ Decided(prdRun'[v].read.reviews)
                                                 /\ ~Rejected(prdRun'[v].read.reviews)
                 /\ prdRun'[v].at = "state" => /\ prdRun'[v].revision # 0
                                               /\ prdRows'[prdRun'[v].revision].made
        <3>1. CASE v # w
            BY <1>0, <1>1, <3>1 DEF WorkRule, Known
        <3>2. CASE v = w /\ x = NoWork
            BY <1>1, <3>2, WorkTypes DEF Known, Reading
        <3>3. CASE v = w /\ x.read = prdRun[w].read
            BY <1>0, <1>1, <3>3 DEF WorkRule, Known
        <3> QED BY <3>1, <3>2, <3>3
    <2> QED BY <1>0, <2>1, <2>2 DEF WorkRule
<1>7. ParentRule'
    BY <1>0 DEF ParentRule
<1>8. SameRule'
    <2> SUFFICES ASSUME ~prdCrossed' PROVE SameRule'
        BY DEF SameRule
    <2>1. \A p \in Reviewers : prdDecide[p] = NoWork
        BY <1>0 DEF SameRule
    <2>2. \A p \in Reviewers, v \in RevisionWorkers : prdDecide'[p] = NoWork \/ prdRun'[v] = NoWork
        BY <2>1
    <2>3. InStep(prdState)'
        BY <1>0, <2>1, WorkTypes DEF SameRule, InStep
    <2>4. ASSUME NEW v \in RevisionWorkers, prdRun'[v].at \in Reading PROVE InStep(prdRun[v].read)'
        <3>1. CASE v # w
            BY <1>0, <1>1, <2>4, <3>1 DEF SameRule, InStep
        <3>2. CASE v = w
            <4>1. x.read = prdRun[w].read /\ prdRun[w].at \in Reading
                BY <1>1, <2>4, <3>2, WorkTypes DEF Reading
            <4> QED BY <1>0, <1>1, <3>2, <4>1 DEF SameRule, InStep
        <3> QED BY <3>1, <3>2
    <2>5. \A p \in Reviewers : prdDecide'[p] = NoWork
        BY <2>1
    <2> QED BY <2>2, <2>3, <2>4, <2>5, WorkTypes DEF SameRule
<1>9. TurnRule'
    BY <1>0, <1>1 DEF TurnRule, Busy
<1> QED BY <1>2, <1>3, <1>6, <1>7, <1>8, <1>9 DEF BaseRules

LEMMA PlaceRecord ==
    ASSUME NEW r \in WorkRecord, NEW at \in WorkPlaces
    PROVE  /\ [r EXCEPT !.at = at] \in WorkRecord
           /\ [r EXCEPT !.at = at].at = at /\ [r EXCEPT !.at = at].read = r.read
           /\ [r EXCEPT !.at = at].revision = r.revision
           /\ [r EXCEPT !.at = at].item = r.item /\ [r EXCEPT !.at = at].answer = r.answer
BY DEF WorkRecord

LEMMA StatusTypes ==
    ASSUME ReviewTypeOK,
           NEW s \in {"manual_review", "review_resolved", "revision_queued", "enqueue", "validating", "failed"}
    PROVE  /\ [prdStatus EXCEPT !.status = s] \in StatusRecord
           /\ \A v \in Revisers : [prdRevise[v] EXCEPT !.status = s] \in StatusRecord
BY DEF ReviewTypeOK, StatusRecord

LEMMA PartedTypes ==
    ASSUME ReviewTypeOK, NEW P, prdParted' = prdParted \/ prdParted' = (prdParted \/ P)
    PROVE  prdParted' \in BOOLEAN /\ (prdParted => prdParted')
BY Zenon DEF ReviewTypeOK

LEMMA QuietRuns ==
    ASSUME BaseRules, NEW w \in RevisionWorkers,
           \/ LockRevision(w) \/ Normalize(w) \/ RunRaises(w)
           \/ FinishRevision(w) \/ UnlockRevision(w) \/ RevisionFails(w) \/ KillRevision(w)
    PROVE  BaseRules'
<1>0. ReviewTypeOK /\ prdRun[w] \in WorkRecord /\ prdStatus \in StatusRecord /\ prdKilled \in BOOLEAN
    BY ReviewParts DEF ReviewTypeOK
<1>1. ASSUME NEW at \in WorkPlaces, SetRun(w, at), at # "state",
             prdRun[w].at # "idle", at \in Reading => prdRun[w].at \in Reading,
             UNCHANGED <<prdState, prdRows, prdQueue, prdDecide, prdRevise, prdCrossed, prdTwice, prdKilled>>,
             prdStatus' \in StatusRecord, prdParted' \in BOOLEAN
      PROVE  BaseRules'
    <2> DEFINE x == [prdRun[w] EXCEPT !.at = at]
    <2>1. x \in WorkRecord /\ x.at = at /\ x.read = prdRun[w].read
        BY <1>0, PlaceRecord
    <2>2. prdRun' = [prdRun EXCEPT ![w] = x]
        BY <1>0, <1>1 DEF SetRun, ReviewTypeOK
    <2>3. prdRun[w] # NoWork
        BY <1>1, WorkTypes
    <2>4. prdKilled' \in BOOLEAN
        BY <1>0, <1>1
    <2> HIDE DEF x
    <2> QED BY <1>1, <2>1, <2>2, <2>3, <2>4, QuietRun
<1>2. ASSUME prdRun' = [prdRun EXCEPT ![w] = NoWork], prdRun[w] # NoWork,
             UNCHANGED <<prdState, prdRows, prdQueue, prdDecide, prdRevise, prdCrossed, prdTwice>>,
             prdStatus' \in StatusRecord, prdKilled' \in BOOLEAN, prdParted' \in BOOLEAN
      PROVE  BaseRules'
    BY <1>2, WorkTypes, QuietRun DEF Reading
<1>3. prdParted' \in BOOLEAN
    <2>1. prdParted' = prdParted \/ prdParted' = (prdParted \/ prdRun[w].at = "state")
        BY Zenon DEF LockRevision, Normalize, RunRaises, FinishRevision, UnlockRevision, RevisionFails,
                     KillRevision, RunKeeps
    <2> QED BY <1>0, <2>1, PartedTypes
<1>4. CASE LockRevision(w)
    <2>1. prdRun[w].at = "lock" /\ \E at \in {"fail", "validating"} : SetRun(w, at)
        BY <1>4 DEF LockRevision
    <2>2. UNCHANGED <<prdStatus, prdState, prdRows, prdQueue, prdDecide, prdRevise, prdCrossed, prdTwice, prdKilled>>
        BY <1>4 DEF LockRevision, RunVars, RunKeeps
    <2> QED BY <1>0, <1>1, <1>3, <2>1, <2>2 DEF Reading, WorkPlaces
<1>5. CASE Normalize(w)
    <2>1. prdRun[w].at = "validating" /\ SetRun(w, "insert") /\ prdStatus' = [prdStatus EXCEPT !.status = "validating"]
        BY <1>5 DEF Normalize
    <2>2. UNCHANGED <<prdState, prdRows, prdQueue, prdDecide, prdRevise, prdCrossed, prdTwice, prdKilled>>
        BY <1>5 DEF Normalize, RunVars, RunKeeps
    <2> QED BY <1>0, <1>1, <1>3, <2>1, <2>2, StatusTypes DEF Reading, WorkPlaces
<1>6. CASE RunRaises(w)
    <2>1. prdRun[w].at \in {"lock", "validating", "insert", "state", "finish", "failed run"}
          /\ \E at \in {"fail", "failed run"} : SetRun(w, at)
        BY <1>6 DEF RunRaises
    <2>2. UNCHANGED <<prdStatus, prdState, prdRows, prdQueue, prdDecide, prdRevise, prdCrossed, prdTwice, prdKilled>>
        BY <1>6 DEF RunRaises, RunVars
    <2> QED BY <1>0, <1>1, <1>3, <2>1, <2>2 DEF Reading, WorkPlaces
<1>7. CASE FinishRevision(w)
    <2>1. prdRun[w].at \in {"finish", "failed run"} /\ SetRun(w, "unlock")
        BY <1>7 DEF FinishRevision
    <2>2. UNCHANGED <<prdState, prdRows, prdQueue, prdDecide, prdRevise, prdCrossed, prdTwice, prdKilled>>
        BY <1>7 DEF FinishRevision, RunVars, RunKeeps
    <2>3. prdStatus' \in StatusRecord
        <3>1. [status |-> "manual_review", revision |-> prdRun[w].revision] \in StatusRecord
            BY <1>0 DEF StatusRecord, WorkRecord
        <3> QED BY <1>0, <1>7, <3>1, StatusTypes DEF FinishRevision
    <2> QED BY <1>1, <1>3, <2>1, <2>2, <2>3 DEF Reading, WorkPlaces
<1>8. CASE RevisionFails(w) \/ UnlockRevision(w)
    <2>1. prdRun[w].at \in {"fail", "unlock"} /\ prdRun' = [prdRun EXCEPT ![w] = NoWork]
          /\ (prdStatus' = prdStatus \/ prdStatus' = [prdStatus EXCEPT !.status = "failed"])
        BY <1>8 DEF RevisionFails, UnlockRevision
    <2>2. UNCHANGED <<prdState, prdRows, prdQueue, prdDecide, prdRevise, prdCrossed, prdTwice, prdKilled>>
        BY <1>8 DEF RevisionFails, UnlockRevision, RunVars, RunKeeps
    <2> QED BY <1>0, <1>2, <1>3, <2>1, <2>2, StatusTypes, WorkTypes
<1>9. CASE KillRevision(w)
    BY <1>0, <1>2, <1>3, <1>9 DEF KillRevision, RunVars
<1> QED BY <1>4, <1>5, <1>6, <1>7, <1>8, <1>9

(* A request for the next run, and its status, bear only on whose turn it is. *)
LEMMA QuietRevise ==
    ASSUME BaseRules, UNCHANGED <<prdState, prdRows, prdRun, prdDecide, prdCrossed, prdKilled, prdParted>>,
           prdStatus' \in StatusRecord, prdQueue' \in Nat, prdTwice' \in BOOLEAN,
           prdRevise' \in [Revisers -> StatusRecord], prdTwice => prdTwice', TurnRule'
    PROVE  BaseRules'
<1>0. ReviewTypeOK /\ RowsRule /\ WorkRule /\ ParentRule /\ SameRule
    BY ReviewParts
<1>1. RowsRule' /\ Latest' = Latest
    BY <1>0, LatestStays
<1>2. ReviewTypeOK'
    BY <1>0 DEF ReviewTypeOK
<1>3. WorkRule'
    BY <1>0 DEF WorkRule, Known
<1>4. ParentRule'
    BY <1>0 DEF ParentRule
<1>5. SameRule'
    BY <1>0 DEF SameRule, InStep
<1> QED BY <1>1, <1>2, <1>3, <1>4, <1>5 DEF BaseRules

LEMMA RequestTypes ==
    ASSUME ReviewTypeOK, NEW v \in Revisers, NEW s \in StatusRecord,
           prdRevise' = [prdRevise EXCEPT ![v] = s]
    PROVE  /\ prdRevise' \in [Revisers -> StatusRecord] /\ prdRevise'[v] = s
           /\ \A u \in Revisers \ {v} : prdRevise'[u] = prdRevise[u]
BY DEF ReviewTypeOK

LEMMA ReviseSteps ==
    ASSUME BaseRules, NEW v \in Revisers,
           AskRevision(v) \/ QueueRevision(v) \/ EnqueueRevision(v)
    PROVE  BaseRules'
<1>0. ReviewTypeOK /\ TurnRule /\ prdStatus \in StatusRecord /\ prdRevise[v] \in StatusRecord
      /\ prdQueue \in Nat /\ prdTwice \in BOOLEAN
    BY ReviewParts DEF ReviewTypeOK
<1>1. CASE AskRevision(v)
    <2>1. /\ prdRevise' = [prdRevise EXCEPT ![v] = prdStatus] /\ prdStatus' = prdStatus /\ prdQueue' = prdQueue
          /\ UNCHANGED <<prdState, prdRows, prdRun, prdDecide, prdCrossed, prdKilled, prdParted>>
        BY <1>1 DEF AskRevision, ReviseVars
    <2>2. /\ prdTwice' \in BOOLEAN /\ (prdTwice => prdTwice')
          /\ ~prdTwice' => ~(prdQueue > 0) /\ ~Busy(prdRun) /\ \A u \in Revisers : prdRevise[u] = NoRead
        BY <1>0, <1>1, Zenon DEF AskRevision
    <2>3. Busy(prdRun)' <=> Busy(prdRun)
        BY <2>1 DEF Busy
    <2>4. TurnRule'
        <3> SUFFICES ASSUME ~prdTwice' PROVE TurnRule'
            BY DEF TurnRule
        <3>1. prdQueue' = 0
            BY <1>0, <2>1, <2>2
        <3>2. \A u \in Revisers : prdRevise'[u] # NoRead => u = v
            BY <1>0, <2>1, <2>2, RequestTypes
        <3>3. ~Busy(prdRun)'
            BY <2>2, <2>3
        <3>4. \A u, w \in RevisionWorkers : prdRun'[u] # NoWork /\ prdRun'[w] # NoWork => u = w
            BY <1>0, <2>1, <2>2 DEF Busy, ReviewTypeOK
        <3> QED BY <3>1, <3>2, <3>3, <3>4 DEF TurnRule
    <2> QED BY <1>0, <2>1, <2>2, <2>4, QuietRevise, RequestTypes
<1>2. CASE QueueRevision(v)
    <2> DEFINE r == [prdRevise[v] EXCEPT !.status = "enqueue"]
    <2>1. /\ prdRevise' = [prdRevise EXCEPT ![v] = r] /\ prdRevise[v].status = "review_resolved"
          /\ prdStatus' = [prdRevise[v] EXCEPT !.status = "revision_queued"]
          /\ UNCHANGED <<prdQueue, prdTwice, prdState, prdRows, prdRun, prdDecide, prdCrossed, prdKilled, prdParted>>
        BY <1>0, <1>2 DEF QueueRevision, ReviseVars, ReviewTypeOK
    <2>2. prdStatus' \in StatusRecord /\ r \in StatusRecord
        BY <1>0, <2>1, StatusTypes
    <2>3. prdRevise[v] # NoRead
        BY <2>1, WorkTypes
    <2>4. TurnRule'
        <3>1. \A u \in Revisers : prdRevise'[u] # NoRead => prdRevise[u] # NoRead
            BY <1>0, <2>1, <2>2, <2>3, RequestTypes
        <3>2. Busy(prdRun)' <=> Busy(prdRun)
            BY <2>1 DEF Busy
        <3> HIDE DEF r
        <3> QED BY <1>0, <2>1, <3>1, <3>2 DEF TurnRule
    <2> HIDE DEF r
    <2> QED BY <1>0, <2>1, <2>2, <2>4, QuietRevise, RequestTypes
<1>3. CASE EnqueueRevision(v)
    <2>1. /\ prdRevise' = [prdRevise EXCEPT ![v] = NoRead] /\ prdRevise[v].status = "enqueue"
          /\ UNCHANGED <<prdTwice, prdState, prdRows, prdRun, prdDecide, prdCrossed, prdKilled, prdParted>>
          /\ \/ prdQueue' = prdQueue + 1 /\ prdStatus' = prdStatus
             \/ prdQueue' = prdQueue /\ prdStatus' = [prdRevise[v] EXCEPT !.status = "review_resolved"]
        BY <1>3 DEF EnqueueRevision, ReviseVars
    <2>2. prdStatus' \in StatusRecord /\ prdQueue' \in Nat
        BY <1>0, <2>1, StatusTypes
    <2>3. prdRevise[v] # NoRead
        BY <2>1, WorkTypes
    <2>4. TurnRule'
        <3> SUFFICES ASSUME ~prdTwice' PROVE TurnRule'
            BY DEF TurnRule
        <3>1. prdQueue = 0 /\ ~Busy(prdRun) /\ \A u \in Revisers : prdRevise[u] # NoRead => u = v
            BY <1>0, <2>1, <2>3 DEF TurnRule
        <3>2. prdQueue' <= 1
            BY <2>1, <3>1
        <3>3. \A u \in Revisers : prdRevise'[u] = NoRead
            BY <1>0, <2>1, <3>1, WorkTypes, RequestTypes
        <3>4. ~Busy(prdRun)'
            BY <2>1, <3>1 DEF Busy
        <3>5. \A u, w \in RevisionWorkers : prdRun'[u] # NoWork /\ prdRun'[w] # NoWork => u = w
            BY <1>0, <2>1, <3>1 DEF TurnRule
        <3> QED BY <3>2, <3>3, <3>4, <3>5 DEF TurnRule
    <2> QED BY <1>0, <2>1, <2>2, <2>4, WorkTypes, QuietRevise, RequestTypes
<1> QED BY <1>1, <1>2, <1>3

LEMMA AgeLock == BaseRules /\ AgeRevisionLock => BaseRules'
<1> SUFFICES ASSUME BaseRules, AgeRevisionLock PROVE BaseRules'
    OBVIOUS
<1>0. ReviewTypeOK /\ TurnRule
    BY ReviewParts
<1>1. UNCHANGED <<prdStatus, prdQueue, prdRevise, prdTwice, prdState, prdRows, prdRun, prdDecide,
                  prdCrossed, prdKilled, prdParted>>
    BY DEF AgeRevisionLock, RunVars, RunKeeps
<1>2. TurnRule'
    BY <1>0, <1>1 DEF TurnRule, Busy
<1> QED BY <1>0, <1>1, <1>2, QuietRevise DEF ReviewTypeOK

LEMMA RunTypes ==
    ASSUME ReviewTypeOK, NEW w \in RevisionWorkers, NEW x \in WorkRecord,
           prdRun' = [prdRun EXCEPT ![w] = x]
    PROVE  /\ prdRun' \in [RevisionWorkers -> WorkRecord] /\ prdRun'[w] = x
           /\ \A v \in RevisionWorkers \ {w} : prdRun'[v] = prdRun[v]
BY DEF ReviewTypeOK

LEMMA TakeStep == ASSUME BaseRules, NEW w \in RevisionWorkers, TakeRevision(w) PROVE BaseRules'
<1>0. ReviewTypeOK /\ RowsRule /\ WorkRule /\ ParentRule /\ SameRule /\ TurnRule
    BY ReviewParts
<1>1. PICK at \in {"lock", "fail"} :
         /\ prdRun' = [prdRun EXCEPT ![w] = [NoWork EXCEPT !.read = prdState, !.at = at]]
         /\ at = "lock" => Decided(prdState.reviews) /\ ~Rejected(prdState.reviews) /\ prdState.revision # 0
    BY DEF TakeRevision
<1> DEFINE x == [NoWork EXCEPT !.read = prdState, !.at = at]
<1>2. x \in WorkRecord /\ x.at = at /\ x.read = prdState
    <2>1. prdState \in [revision : Numbers, reviews : ReviewAnswers]
        BY <1>0, RevisionNumbers DEF ReviewTypeOK
    <2> QED BY <2>1, WorkTypes DEF NoWork, WorkRecord, WorkPlaces
<1> HIDE DEF x
<1>3. /\ prdRun' \in [RevisionWorkers -> WorkRecord] /\ prdRun'[w] = x
      /\ \A v \in RevisionWorkers \ {w} : prdRun'[v] = prdRun[v]
    BY <1>0, <1>1, <1>2, RunTypes DEF x
<1>4. /\ prdRun[w] = NoWork /\ prdQueue > 0 /\ prdQueue' = prdQueue - 1
      /\ UNCHANGED <<prdStatus, prdState, prdRows, prdKilled, prdParted, prdDecide, prdRevise, prdTwice>>
    BY DEF TakeRevision, RunVars
<1>5. prdCrossed' \in BOOLEAN /\ (prdCrossed => prdCrossed') /\ (~prdCrossed' => ~Busy(prdDecide))
    BY <1>0, Zenon DEF TakeRevision, ReviewTypeOK
<1>6. ReviewTypeOK'
    BY <1>0, <1>3, <1>4, <1>5 DEF ReviewTypeOK
<1>7. RowsRule' /\ Latest' = Latest
    BY <1>0, <1>4, LatestStays
<1>8. WorkRule'
    BY <1>0, <1>1, <1>2, <1>3, <1>4 DEF WorkRule, Known, Reading
<1>9. ParentRule'
    BY <1>0, <1>4, <1>5 DEF ParentRule
<1>10. SameRule'
    <2> SUFFICES ASSUME ~prdCrossed' PROVE SameRule'
        BY DEF SameRule
    <2>1. \A p \in Reviewers : prdDecide[p] = NoWork /\ prdDecide'[p] = NoWork
        BY <1>0, <1>4, <1>5 DEF Busy, ReviewTypeOK
    <2>2. InStep(prdState) /\ InStep(prdState)'
        BY <1>0, <1>4, <1>5, <2>1, WorkTypes DEF SameRule, InStep
    <2>3. \A v \in RevisionWorkers : prdRun'[v].at \in Reading => InStep(prdRun[v].read)'
        BY <1>0, <1>2, <1>3, <1>4, <1>5, <2>2 DEF SameRule, InStep
    <2> QED BY <2>1, <2>2, <2>3, WorkTypes DEF SameRule
<1>11. TurnRule'
    <2> SUFFICES ASSUME ~prdTwice' PROVE TurnRule'
        BY DEF TurnRule
    <2>1. ~prdTwice
        BY <1>4
    <2>2. prdQueue = 1
        BY <1>0, <1>4, <2>1 DEF TurnRule, ReviewTypeOK
    <2>3. prdQueue' = 0
        BY <1>4, <2>2
    <2>4. (\A v \in Revisers : prdRevise'[v] = NoRead) /\ \A v \in RevisionWorkers : prdRun[v] = NoWork
        BY <1>0, <1>4, <2>1, <2>2 DEF TurnRule, Busy, ReviewTypeOK
    <2>5. \A v \in RevisionWorkers : prdRun'[v] # NoWork => v = w
        BY <1>3, <2>4
    <2> QED BY <2>3, <2>4, <2>5 DEF TurnRule
<1> QED BY <1>6, <1>7, <1>8, <1>9, <1>10, <1>11 DEF BaseRules

LEMMA InsertStep == ASSUME BaseRules, NEW w \in RevisionWorkers, InsertRevision(w) PROVE BaseRules'
<1>0. ReviewTypeOK /\ RowsRule /\ WorkRule /\ ParentRule /\ SameRule /\ TurnRule
    BY ReviewParts
<1> DEFINE next == Latest + 1
           x    == [prdRun[w] EXCEPT !.at = "state", !.revision = next]
           row  == [made |-> TRUE, parent |-> prdRun[w].read.revision, reviews |-> Pending]
<1>1. /\ prdRun[w].at = "insert" /\ Latest < MaxProductRevision
      /\ prdRows' = [prdRows EXCEPT ![next] = row]
      /\ UNCHANGED <<prdStatus, prdState, prdQueue, prdCrossed, prdKilled, prdParted, prdDecide, prdRevise, prdTwice>>
    BY DEF InsertRevision, RunVars
<1>2. prdRun' = [prdRun EXCEPT ![w] = x]
    BY <1>0 DEF InsertRevision, ReviewTypeOK
<1>3. Latest \in Revisions /\ \A m \in Revisions : prdRows[m].made <=> m <= Latest
    BY <1>0, LatestMade
<1>4. next \in Revisions /\ next \in Numbers /\ next # 0 /\ next - 1 = Latest
    BY <1>1, <1>3, ProductReviewsAssumption DEF Revisions, Numbers
<1>5. ~(next <= Latest)
    BY <1>3 DEF Revisions
<1>6. ~prdRows[next].made
    BY <1>3, <1>4, <1>5
<1>7. x \in WorkRecord /\ x.at = "state" /\ x.revision = next /\ x.read = prdRun[w].read
    <2>1. prdRun[w] \in WorkRecord /\ next \in Numbers
        BY <1>0, <1>4 DEF ReviewTypeOK
    <2> HIDE DEF next
    <2> QED BY <2>1 DEF WorkRecord, WorkPlaces
<1>8. row \in [made : BOOLEAN, parent : Numbers, reviews : ReviewAnswers]
    <2>1. prdRun[w].read.revision \in Numbers
        BY <1>0 DEF ReviewTypeOK, WorkRecord
    <2>2. Pending \in ReviewAnswers
        BY DEF Pending, ReviewAnswers
    <2> QED BY <2>1, <2>2
<1>9. /\ row.made /\ row.parent = prdRun[w].read.revision
      /\ prdRows'[next] = row
      /\ \A m \in Revisions : m # next => prdRows'[m] = prdRows[m]
    BY <1>0, <1>1, <1>4 DEF ReviewTypeOK
<1> HIDE DEF x, row
<1>10. /\ prdRun' \in [RevisionWorkers -> WorkRecord] /\ prdRun'[w] = x
       /\ \A v \in RevisionWorkers \ {w} : prdRun'[v] = prdRun[v]
    BY <1>0, <1>2, <1>7, RunTypes
<1>11. RowsRule' /\ Latest' = next
    <2>1. \A m \in Revisions : m <= next <=> m <= Latest \/ m = next
        BY <1>3 DEF Revisions
    <2> HIDE DEF next
    <2>2. \A m \in Revisions : prdRows'[m].made <=> m <= next
        BY <1>3, <1>9, <2>1
    <2>3. next = Latest'
        BY <1>4, <2>2, TopIs DEF Latest
    <2> QED BY <1>4, <2>2, <2>3 DEF RowsRule
<1> HIDE DEF next
<1>12. \A m \in Revisions : prdRows[m].made => m # next /\ prdRows'[m] = prdRows[m]
    BY <1>6, <1>9
<1>13. ReviewTypeOK'
    <2>1. prdRows' \in [Revisions -> [made : BOOLEAN, parent : Numbers, reviews : ReviewAnswers]]
        BY <1>0, <1>1, <1>8 DEF ReviewTypeOK
    <2> QED BY <1>0, <1>1, <1>10, <2>1 DEF ReviewTypeOK
<1>14. ASSUME NEW f, f.revision \in Numbers, Known(f)
       PROVE  /\ f.revision # 0 => /\ f.revision \in Revisions /\ prdRows[f.revision].made
                                   /\ prdRows'[f.revision] = prdRows[f.revision]
    BY <1>12, <1>14, RevisionNumbers DEF Known
<1>15. /\ prdState.revision \in Numbers /\ prdState.revision # 0
       /\ \A p \in Reviewers : prdDecide[p].read.revision \in Numbers
       /\ \A v \in RevisionWorkers : prdRun[v].read.revision \in Numbers /\ prdRun[v].revision \in Numbers
    BY <1>0, RevisionNumbers DEF ReviewTypeOK, WorkRecord
<1>16. prdRun[w].read.revision # 0 /\ Decided(prdRun[w].read.reviews) /\ ~Rejected(prdRun[w].read.reviews)
       /\ Known(prdRun[w].read)
    BY <1>0, <1>1 DEF WorkRule, Reading
<1>17. WorkRule'
    <2>1. Known(prdState)'
        BY <1>0, <1>1, <1>14, <1>15 DEF WorkRule, Known
    <2>2. \A p \in Reviewers : Known(prdDecide[p].read)'
        BY <1>0, <1>1, <1>14, <1>15 DEF WorkRule, Known
    <2>3. ASSUME NEW v \in RevisionWorkers PROVE Known(prdRun[v].read)'
        BY <1>0, <1>7, <1>10, <1>14, <1>15 DEF WorkRule, Known
    <2>4. ASSUME NEW v \in RevisionWorkers, prdRun'[v].at \in Reading
          PROVE  prdRun'[v].read.revision # 0 /\ Decided(prdRun'[v].read.reviews) /\ ~Rejected(prdRun'[v].read.reviews)
        BY <1>0, <1>7, <1>10, <2>4 DEF WorkRule, Reading
    <2>5. ASSUME NEW v \in RevisionWorkers, prdRun'[v].at = "state"
          PROVE  prdRun'[v].revision # 0 /\ prdRows'[prdRun'[v].revision].made
        <3>1. CASE v = w
            BY <1>4, <1>7, <1>9, <1>10, <3>1
        <3>2. CASE v # w
            <4>1. prdRun'[v] = prdRun[v]
                BY <1>10, <3>2
            <4> QED BY <1>0, <1>12, <1>15, <2>5, <4>1, RevisionNumbers DEF WorkRule
        <3> QED BY <3>1, <3>2
    <2>6. \A p \in Reviewers :
          /\ prdDecide'[p].at # "idle" => /\ prdDecide'[p].read.revision # 0
                                         /\ prdDecide'[p].item \in ReviewItems
                                         /\ prdDecide'[p].answer \in Answers
          /\ prdDecide'[p].at = "file" => prdDecide'[p].read.reviews[prdDecide'[p].item] = prdDecide'[p].answer
        BY <1>0, <1>1 DEF WorkRule
    <2> QED BY <2>1, <2>2, <2>3, <2>4, <2>5, <2>6 DEF WorkRule
<1>18. ~prdCrossed => InStep(prdRun[w].read)
    BY <1>0, <1>1 DEF SameRule, Reading
<1>19. ParentRule'
    <2> SUFFICES ASSUME NEW n \in Revisions, prdRows'[n].made, n > 1
                 PROVE  /\ prdRows'[n].parent \in 1 .. n - 1
                        /\ prdRows'[prdRows'[n].parent].made
                        /\ Decided(prdRows'[prdRows'[n].parent].reviews)
                        /\ ~prdCrossed' => ~Rejected(prdRows'[prdRows'[n].parent].reviews)
        BY DEF ParentRule
    <2>1. CASE n = next
        <3> DEFINE m == prdRun[w].read.revision
        <3>1. prdRows'[n].parent = m
            BY <1>9, <2>1
        <3>2. m \in Revisions /\ prdRows[m].made /\ prdRows'[m] = prdRows[m]
            BY <1>14, <1>15, <1>16
        <3>3. m <= Latest
            BY <1>3, <3>2
        <3>4. m \in 1 .. n - 1
            BY <1>3, <1>4, <2>1, <3>2, <3>3 DEF Revisions
        <3>5. Decided(prdRows[m].reviews)
            BY <1>16 DEF Known, Decided
        <3>6. ~prdCrossed => ~Rejected(prdRows[m].reviews)
            BY <1>16, <1>18 DEF InStep, Decided, Rejected
        <3> HIDE DEF m
        <3> QED BY <1>1, <3>1, <3>2, <3>4, <3>5, <3>6
    <2>2. CASE n # next
        <3>1. prdRows'[n] = prdRows[n]
            BY <1>9, <2>2
        <3> DEFINE m == prdRows[n].parent
        <3>2. /\ m \in 1 .. n - 1 /\ prdRows[m].made /\ Decided(prdRows[m].reviews)
              /\ ~prdCrossed => ~Rejected(prdRows[m].reviews)
            BY <1>0, <3>1 DEF ParentRule
        <3>3. m \in Revisions
            BY <3>2, ProductReviewsAssumption DEF Revisions
        <3>4. prdRows'[m] = prdRows[m]
            BY <1>12, <3>2, <3>3
        <3> HIDE DEF m
        <3> QED BY <1>1, <3>1, <3>2, <3>4 DEF m
    <2> QED BY <2>1, <2>2
<1>20. SameRule'
    <2> SUFFICES ASSUME ~prdCrossed' PROVE SameRule'
        BY DEF SameRule
    <2>1. ~prdCrossed /\ prdRun[w] # NoWork
        BY <1>1, WorkTypes
    <2>2. \A p \in Reviewers : prdDecide[p] = NoWork /\ prdDecide'[p] = NoWork
        BY <1>0, <1>1, <2>1 DEF SameRule
    <2>3. InStep(prdState)
        BY <1>0, <2>1, <2>2, WorkTypes DEF SameRule
    <2>4. InStep(prdState)'
        BY <1>0, <1>1, <1>14, <1>15, <2>3 DEF InStep, WorkRule
    <2>5. ASSUME NEW v \in RevisionWorkers, prdRun'[v].at \in Reading PROVE InStep(prdRun[v].read)'
        <3>1. v # w /\ prdRun'[v] = prdRun[v]
            BY <1>7, <1>10, <2>5 DEF Reading
        <3>2. InStep(prdRun[v].read) /\ Known(prdRun[v].read) /\ prdRun[v].read.revision # 0
            BY <1>0, <2>1, <2>5, <3>1 DEF SameRule, WorkRule
        <3>3. prdRows'[prdRun[v].read.revision] = prdRows[prdRun[v].read.revision]
            BY <1>14, <1>15, <3>2
        <3> QED BY <3>1, <3>2, <3>3 DEF InStep
    <2> QED BY <2>2, <2>4, <2>5, WorkTypes DEF SameRule
<1>21. TurnRule'
    <2>1. prdRun[w] # NoWork /\ x # NoWork
        BY <1>1, <1>7, WorkTypes
    <2> QED BY <1>0, <1>1, <1>10, <2>1 DEF TurnRule, Busy, ReviewTypeOK
<1> QED BY <1>11, <1>13, <1>17, <1>19, <1>20, <1>21 DEF BaseRules

LEMMA SaveStep == ASSUME BaseRules, NEW w \in RevisionWorkers, SaveState(w) PROVE BaseRules'
<1>0. ReviewTypeOK /\ RowsRule /\ WorkRule /\ ParentRule /\ SameRule /\ TurnRule
    BY ReviewParts
<1>1. SetRun(w, "finish") /\ prdParted' \in BOOLEAN
    <2>1. prdParted' = (prdParted \/ prdState.revision > prdRun[w].revision)
        BY DEF SaveState
    <2> QED BY <1>0, <2>1, PartedTypes DEF SaveState
<1> DEFINE x == [prdRun[w] EXCEPT !.at = "finish"]
<1>2. /\ prdRun[w].at = "state"
      /\ prdState' = [revision |-> prdRun[w].revision, reviews |-> prdRows[prdRun[w].revision].reviews]
      /\ UNCHANGED <<prdStatus, prdRows, prdQueue, prdCrossed, prdKilled, prdDecide, prdRevise, prdTwice>>
    BY DEF SaveState, RunVars
<1>3. x \in WorkRecord /\ x.at = "finish" /\ x.read = prdRun[w].read /\ prdRun' = [prdRun EXCEPT ![w] = x]
    <2>1. prdRun[w] \in WorkRecord /\ "finish" \in WorkPlaces
        BY <1>0 DEF ReviewTypeOK, WorkPlaces
    <2>2. prdRun' = [prdRun EXCEPT ![w] = x]
        BY <1>0, <1>1 DEF ReviewTypeOK, SetRun
    <2> QED BY <2>1, <2>2, PlaceRecord
<1> HIDE DEF x
<1>4. /\ prdRun' \in [RevisionWorkers -> WorkRecord] /\ prdRun'[w] = x
      /\ \A v \in RevisionWorkers \ {w} : prdRun'[v] = prdRun[v]
    BY <1>0, <1>3, RunTypes
<1>5. prdRun[w].revision \in Revisions /\ prdRows[prdRun[w].revision].made
    BY <1>0, <1>2, RevisionNumbers DEF WorkRule, ReviewTypeOK, WorkRecord
<1>6. /\ prdState'.revision = prdRun[w].revision
      /\ prdState'.reviews = prdRows[prdRun[w].revision].reviews
    BY <1>2
<1>7. ReviewTypeOK'
    <2>1. prdState' \in [revision : Revisions, reviews : ReviewAnswers]
        BY <1>0, <1>2, <1>5 DEF ReviewTypeOK
    <2> QED BY <1>0, <1>1, <1>2, <1>4, <2>1 DEF ReviewTypeOK
<1>8. RowsRule' /\ Latest' = Latest
    BY <1>0, <1>2, LatestStays
<1>9. x.at \notin Reading /\ x.at # "state" /\ x # NoWork /\ prdRun[w] # NoWork
    BY <1>2, <1>3, WorkTypes DEF Reading
<1>10. WorkRule'
    <2>1. Known(prdState)'
        BY <1>2, <1>5, <1>6 DEF Known
    <2>2. \A p \in Reviewers :
          /\ Known(prdDecide[p].read)'
          /\ prdDecide'[p].at # "idle" => /\ prdDecide'[p].read.revision # 0
                                         /\ prdDecide'[p].item \in ReviewItems
                                         /\ prdDecide'[p].answer \in Answers
          /\ prdDecide'[p].at = "file" => prdDecide'[p].read.reviews[prdDecide'[p].item] = prdDecide'[p].answer
        BY <1>0, <1>2 DEF WorkRule, Known
    <2>3. ASSUME NEW v \in RevisionWorkers PROVE Known(prdRun[v].read)'
        <3>1. prdRun'[v].read = prdRun[v].read
            BY <1>3, <1>4
        <3> QED BY <1>0, <1>2, <3>1 DEF WorkRule, Known
    <2>4. \A v \in RevisionWorkers :
              /\ prdRun'[v].at \in Reading => /\ prdRun'[v].read.revision # 0
                                              /\ Decided(prdRun'[v].read.reviews)
                                              /\ ~Rejected(prdRun'[v].read.reviews)
              /\ prdRun'[v].at = "state" => /\ prdRun'[v].revision # 0
                                            /\ prdRows'[prdRun'[v].revision].made
        BY <1>0, <1>2, <1>4, <1>9 DEF WorkRule
    <2> QED BY <2>1, <2>2, <2>3, <2>4 DEF WorkRule
<1>11. ParentRule'
    BY <1>0, <1>2 DEF ParentRule
<1>12. SameRule'
    <2> SUFFICES ASSUME ~prdCrossed' PROVE SameRule'
        BY DEF SameRule
    <2>1. \A p \in Reviewers : prdDecide'[p] = NoWork
        BY <1>0, <1>2, <1>9 DEF SameRule
    <2>2. InStep(prdState)'
        BY <1>2, <1>6 DEF InStep
    <2>3. \A v \in RevisionWorkers : prdRun'[v].at \in Reading => InStep(prdRun[v].read)'
        BY <1>0, <1>2, <1>4, <1>9 DEF SameRule, InStep
    <2> QED BY <2>1, <2>2, <2>3, WorkTypes DEF SameRule
<1>13. TurnRule'
    BY <1>0, <1>2, <1>4, <1>9 DEF TurnRule, Busy, ReviewTypeOK
<1> QED BY <1>7, <1>8, <1>10, <1>11, <1>12, <1>13 DEF BaseRules

LEMMA DecisionTypes ==
    ASSUME ReviewTypeOK, NEW p \in Reviewers, NEW x \in WorkRecord,
           prdDecide' = [prdDecide EXCEPT ![p] = x]
    PROVE  /\ prdDecide' \in [Reviewers -> WorkRecord] /\ prdDecide'[p] = x
           /\ \A q \in Reviewers \ {p} : prdDecide'[q] = prdDecide[q]
BY DEF ReviewTypeOK

(* The rules that a decision does not touch while it leaves rows and file alone. *)
LEMMA QuietDecision ==
    ASSUME BaseRules, NEW p \in Reviewers, NEW x \in WorkRecord,
           prdDecide' = [prdDecide EXCEPT ![p] = x],
           UNCHANGED <<prdStatus, prdQueue, prdRun, prdRevise, prdTwice, prdKilled, prdState, prdRows>>,
           prdCrossed' \in BOOLEAN, prdCrossed => prdCrossed', prdParted' \in BOOLEAN,
           Known(x.read), x.at # "file",
           x.at # "idle" => x.read.revision # 0 /\ x.item \in ReviewItems /\ x.answer \in Answers,
           SameRule'
    PROVE  BaseRules'
<1>0. ReviewTypeOK /\ RowsRule /\ WorkRule /\ ParentRule /\ TurnRule
    BY ReviewParts
<1>1. /\ prdDecide' \in [Reviewers -> WorkRecord] /\ prdDecide'[p] = x
      /\ \A q \in Reviewers \ {p} : prdDecide'[q] = prdDecide[q]
    BY <1>0, DecisionTypes
<1>2. ReviewTypeOK'
    BY <1>0, <1>1 DEF ReviewTypeOK
<1>3. RowsRule' /\ Latest' = Latest
    BY <1>0, LatestStays
<1>4. WorkRule'
    <2>1. ASSUME NEW q \in Reviewers
          PROVE  /\ Known(prdDecide[q].read)'
                 /\ prdDecide'[q].at # "idle" => /\ prdDecide'[q].read.revision # 0
                                                 /\ prdDecide'[q].item \in ReviewItems
                                                 /\ prdDecide'[q].answer \in Answers
                 /\ prdDecide'[q].at = "file" => prdDecide'[q].read.reviews[prdDecide'[q].item] = prdDecide'[q].answer
        <3>1. CASE q = p
            BY <1>1, <3>1 DEF Known
        <3>2. CASE q # p
            BY <1>0, <1>1, <3>2 DEF WorkRule, Known
        <3> QED BY <3>1, <3>2
    <2>2. Known(prdState)' /\ \A w \in RevisionWorkers : Known(prdRun[w].read)'
        BY <1>0 DEF WorkRule, Known
    <2> QED BY <1>0, <2>1, <2>2 DEF WorkRule
<1>5. ParentRule'
    BY <1>0 DEF ParentRule
<1>6. TurnRule'
    BY <1>0 DEF TurnRule, Busy
<1> QED BY <1>2, <1>3, <1>4, <1>5, <1>6 DEF BaseRules

LEMMA ReadStep == ASSUME BaseRules, NEW p \in Reviewers, ReadReview(p) PROVE BaseRules'
<1>0. ReviewTypeOK /\ WorkRule /\ SameRule
    BY ReviewParts
<1>1. PICK i \in ReviewItems, answer \in Answers :
         prdDecide' = [prdDecide EXCEPT ![p] = [NoWork EXCEPT !.at = "check",
                          !.read = prdState, !.item = i, !.answer = answer]]
    BY DEF ReadReview
<1> DEFINE x == [NoWork EXCEPT !.at = "check", !.read = prdState, !.item = i, !.answer = answer]
<1>2. prdState \in [revision : Numbers, reviews : ReviewAnswers]
    BY <1>0, RevisionNumbers DEF ReviewTypeOK
<1>3. x \in WorkRecord /\ x.at = "check" /\ x.read = prdState /\ x.item = i /\ x.answer = answer
    BY <1>2, WorkTypes DEF NoWork, WorkRecord, WorkPlaces
<1>4. /\ prdDecide[p] = NoWork /\ prdState.revision # 0
      /\ UNCHANGED <<prdStatus, prdQueue, prdRun, prdRevise, prdTwice, prdKilled, prdParted, prdState, prdRows>>
    BY DEF ReadReview, DecideVars
<1>5. /\ prdCrossed' \in BOOLEAN /\ (prdCrossed => prdCrossed')
      /\ ~prdCrossed' => ~Busy(prdDecide) /\ ~Busy(prdRun)
    BY <1>0, Zenon DEF ReadReview, ReviewTypeOK
<1>6. prdDecide' = [prdDecide EXCEPT ![p] = x]
    BY <1>1
<1> HIDE DEF x
<1>7. /\ prdDecide'[p] = x
      /\ \A q \in Reviewers \ {p} : prdDecide'[q] = prdDecide[q]
    BY <1>0, <1>3, <1>6, DecisionTypes
<1>8. SameRule'
    <2> SUFFICES ASSUME ~prdCrossed' PROVE SameRule'
        BY DEF SameRule
    <2>1. (\A q \in Reviewers : prdDecide[q] = NoWork) /\ \A w \in RevisionWorkers : prdRun[w] = NoWork
        BY <1>0, <1>5 DEF Busy, ReviewTypeOK
    <2>2. \A q \in Reviewers : q # p => prdDecide'[q] = NoWork
        BY <1>7, <2>1
    <2>3. \A w \in RevisionWorkers : prdRun'[w] = NoWork
        BY <1>4, <2>1
    <2>4. InStep(prdState)
        BY <1>0, <1>5, <2>1, WorkTypes DEF SameRule
    <2>5. InStep(prdState)'
        BY <1>4, <2>4 DEF InStep
    <2>6. \A q \in Reviewers :
              /\ prdDecide'[q].at \in {"check", "row"} => prdDecide'[q].read = prdState'
              /\ prdDecide'[q].at # "row" /\ prdDecide'[q].at # "file"
        BY <1>3, <1>4, <1>7, <2>2, WorkTypes
    <2> QED BY <2>2, <2>3, <2>5, <2>6, WorkTypes DEF SameRule, Reading
<1>9. Known(x.read)
    BY <1>0, <1>3 DEF WorkRule
<1>10. prdParted' \in BOOLEAN
    BY <1>0, <1>4 DEF ReviewTypeOK
<1> QED BY <1>3, <1>4, <1>5, <1>6, <1>8, <1>9, <1>10, QuietDecision

LEMMA CheckStep == ASSUME BaseRules, NEW p \in Reviewers, CheckRow(p) PROVE BaseRules'
<1>0. ReviewTypeOK /\ WorkRule /\ SameRule /\ prdDecide[p] \in WorkRecord
    BY ReviewParts DEF ReviewTypeOK
<1> DEFINE d == prdDecide[p]
           pending == prdRows[d.read.revision].reviews[d.item] = "pending"
           x == IF pending THEN [d EXCEPT !.at = "row"] ELSE NoWork
<1>1. /\ d.at = "check" /\ prdDecide' = [prdDecide EXCEPT ![p] = x]
      /\ UNCHANGED <<prdStatus, prdQueue, prdRun, prdRevise, prdTwice, prdKilled, prdParted, prdState, prdRows, prdCrossed>>
    BY DEF CheckRow, DecideVars
<1>2. /\ x \in WorkRecord
      /\ \/ x = NoWork
         \/ x.at = "row" /\ x.read = d.read /\ x.item = d.item /\ x.answer = d.answer /\ pending
    <2>1. "row" \in WorkPlaces
        BY DEF WorkPlaces
    <2> QED BY <1>0, <2>1, PlaceRecord, WorkTypes
<1>3. d.read.revision # 0 /\ d.item \in ReviewItems /\ d.answer \in Answers /\ Known(d.read)
    BY <1>0, <1>1 DEF WorkRule
<1> HIDE DEF x
<1>4. /\ prdDecide'[p] = x
      /\ \A q \in Reviewers \ {p} : prdDecide'[q] = prdDecide[q]
    BY <1>0, <1>1, <1>2, DecisionTypes
<1>5. SameRule'
    <2> SUFFICES ASSUME ~prdCrossed' PROVE SameRule'
        BY DEF SameRule
    <2>1. ~prdCrossed /\ d # NoWork
        BY <1>1, WorkTypes
    <2>2. \A q \in Reviewers : q # p => prdDecide[q] = NoWork /\ prdDecide'[q] = NoWork
        BY <1>0, <1>4, <2>1 DEF SameRule
    <2>3. \A w \in RevisionWorkers : prdRun[w] = NoWork /\ prdRun'[w] = NoWork
        BY <1>0, <1>1, <2>1 DEF SameRule
    <2>4. InStep(prdState) /\ d.read = prdState
        BY <1>0, <1>1, <2>1, <2>2, WorkTypes DEF SameRule
    <2>5. InStep(prdState)'
        BY <1>1, <2>4 DEF InStep
    <2>6. x.at # "file" /\ (x.at \in {"check", "row"} => x.read = prdState')
          /\ (x.at = "row" => prdRows'[x.read.revision].reviews[x.item] = "pending")
        BY <1>1, <1>2, <2>4, WorkTypes
    <2>7. \A q \in Reviewers :
              /\ prdDecide'[q].at # "file"
              /\ prdDecide'[q].at \in {"check", "row"} => prdDecide'[q].read = prdState'
              /\ prdDecide'[q].at = "row" =>
                     prdRows'[prdDecide'[q].read.revision].reviews[prdDecide'[q].item] = "pending"
        BY <1>4, <2>2, <2>6, WorkTypes
    <2> HIDE DEF d, pending
    <2> QED BY <2>2, <2>3, <2>5, <2>7, WorkTypes DEF SameRule, Reading
<1>6. Known(x.read)
    BY <1>2, <1>3, WorkTypes DEF Known
<1>7. x.at # "idle" => x.read.revision # 0 /\ x.item \in ReviewItems /\ x.answer \in Answers
    BY <1>2, <1>3, WorkTypes
<1>8. prdCrossed' \in BOOLEAN /\ prdParted' \in BOOLEAN /\ x.at # "file"
    BY <1>0, <1>1, <1>2, WorkTypes DEF ReviewTypeOK
<1> HIDE DEF d, pending
<1> QED BY <1>1, <1>2, <1>5, <1>6, <1>7, <1>8, QuietDecision

LEMMA StopStep == ASSUME BaseRules, NEW p \in Reviewers, DecisionStops(p) PROVE BaseRules'
<1>0. ReviewTypeOK /\ WorkRule /\ SameRule
    BY ReviewParts
<1>1. /\ prdDecide[p] # NoWork /\ prdDecide' = [prdDecide EXCEPT ![p] = NoWork]
      /\ UNCHANGED <<prdStatus, prdQueue, prdRun, prdRevise, prdTwice, prdKilled, prdState, prdRows, prdCrossed>>
    BY DEF DecisionStops, DecideVars
<1>2. prdParted' \in BOOLEAN /\ prdCrossed' \in BOOLEAN
    <2>1. prdParted' = (prdParted \/ prdDecide[p].at = "file")
        BY DEF DecisionStops
    <2> QED BY <1>0, <1>1, <2>1, PartedTypes DEF ReviewTypeOK
<1>3. \A q \in Reviewers : prdDecide'[q] = NoWork \/ prdDecide'[q] = prdDecide[q]
    BY <1>0, <1>1 DEF ReviewTypeOK
<1>4. SameRule'
    <2> SUFFICES ASSUME ~prdCrossed' PROVE SameRule'
        BY DEF SameRule
    <2>1. \A q \in Reviewers : prdDecide'[q] = NoWork
        BY <1>0, <1>1, <1>3 DEF SameRule, ReviewTypeOK
    <2>2. InStep(prdState)'
        BY <1>0, <1>1 DEF SameRule, InStep
    <2>3. \A w \in RevisionWorkers : prdRun'[w].at \in Reading => InStep(prdRun[w].read)'
        BY <1>0, <1>1 DEF SameRule, InStep
    <2> QED BY <2>1, <2>2, <2>3, WorkTypes DEF SameRule
<1>5. Known(NoWork.read)
    BY WorkTypes DEF Known
<1> QED BY <1>1, <1>2, <1>4, <1>5, WorkTypes, QuietDecision

LEMMA ResolveStep == ASSUME BaseRules, NEW p \in Reviewers, MarkResolved(p) PROVE BaseRules'
<1>0. ReviewTypeOK /\ RowsRule /\ WorkRule /\ ParentRule /\ TurnRule /\ SameRule
    BY ReviewParts
<1>1. /\ prdDecide[p].at = "status" /\ prdDecide' = [prdDecide EXCEPT ![p] = NoWork]
      /\ prdStatus' = [prdStatus EXCEPT !.status = "review_resolved"]
      /\ UNCHANGED <<prdQueue, prdRun, prdRevise, prdTwice, prdKilled, prdParted, prdState, prdRows, prdCrossed>>
    BY DEF MarkResolved
<1>2. /\ prdDecide' \in [Reviewers -> WorkRecord] /\ prdDecide'[p] = NoWork
      /\ \A q \in Reviewers \ {p} : prdDecide'[q] = prdDecide[q]
    BY <1>0, <1>1, WorkTypes, DecisionTypes
<1>3. ReviewTypeOK'
    BY <1>0, <1>1, <1>2, StatusTypes DEF ReviewTypeOK
<1>4. RowsRule' /\ Latest' = Latest
    BY <1>0, <1>1, LatestStays
<1>5. \A q \in Reviewers : prdDecide'[q] = NoWork \/ prdDecide'[q] = prdDecide[q]
    BY <1>2
<1>6. WorkRule'
    <2>1. \A q \in Reviewers :
              /\ Known(prdDecide[q].read)'
              /\ prdDecide'[q].at # "idle" => /\ prdDecide'[q].read.revision # 0
                                              /\ prdDecide'[q].item \in ReviewItems
                                              /\ prdDecide'[q].answer \in Answers
              /\ prdDecide'[q].at = "file" => prdDecide'[q].read.reviews[prdDecide'[q].item] = prdDecide'[q].answer
        BY <1>0, <1>1, <1>5, WorkTypes DEF WorkRule, Known
    <2>2. Known(prdState)' /\ \A w \in RevisionWorkers : Known(prdRun[w].read)'
        BY <1>0, <1>1 DEF WorkRule, Known
    <2> QED BY <1>0, <1>1, <2>1, <2>2 DEF WorkRule
<1>7. ParentRule'
    BY <1>0, <1>1 DEF ParentRule
<1>8. SameRule'
    <2> SUFFICES ASSUME ~prdCrossed' PROVE SameRule'
        BY DEF SameRule
    <2>1. ~prdCrossed /\ prdDecide[p] # NoWork
        BY <1>1, WorkTypes
    <2>2. \A q \in Reviewers : prdDecide'[q] = NoWork
        BY <1>0, <1>2, <2>1 DEF SameRule
    <2>4. InStep(prdState)'
        BY <1>0, <1>1, <2>1 DEF SameRule, InStep
    <2>5. \A w \in RevisionWorkers : prdRun'[w].at \in Reading => InStep(prdRun[w].read)'
        BY <1>0, <1>1, <2>1 DEF SameRule, InStep
    <2> QED BY <2>2, <2>4, <2>5, WorkTypes DEF SameRule
<1>9. TurnRule'
    BY <1>0, <1>1 DEF TurnRule, Busy
<1> QED BY <1>3, <1>4, <1>6, <1>7, <1>8, <1>9 DEF BaseRules

LEMMA WriteStep == ASSUME BaseRules, NEW p \in Reviewers, WriteState(p) PROVE BaseRules'
<1>0. ReviewTypeOK /\ RowsRule /\ WorkRule /\ ParentRule /\ TurnRule /\ SameRule
      /\ prdDecide[p] \in WorkRecord
    BY ReviewParts DEF ReviewTypeOK
<1> DEFINE d == prdDecide[p]
           x == IF Decided(d.read.reviews) THEN [d EXCEPT !.at = "status"] ELSE NoWork
<1>1. /\ d.at = "file" /\ prdState' = d.read
      /\ UNCHANGED <<prdStatus, prdQueue, prdRun, prdRevise, prdTwice, prdKilled, prdRows, prdCrossed>>
    BY DEF WriteState, FileVars
<1>20. prdParted' \in BOOLEAN
    <2>1. prdParted' = (prdParted \/ Outdated(prdDecide[p]))
        BY DEF WriteState
    <2> QED BY <1>0, <2>1, PartedTypes
<1>2. prdDecide' = [prdDecide EXCEPT ![p] = x]
    BY <1>0 DEF WriteState, ReviewTypeOK
<1>3. /\ x \in WorkRecord
      /\ \/ x = NoWork
         \/ x.at = "status" /\ x.read = d.read /\ x.item = d.item /\ x.answer = d.answer
    <2>1. "status" \in WorkPlaces
        BY DEF WorkPlaces
    <2> QED BY <1>0, <2>1, PlaceRecord, WorkTypes
<1>4. d.read.revision # 0 /\ d.item \in ReviewItems /\ d.answer \in Answers /\ Known(d.read)
    BY <1>0, <1>1 DEF WorkRule
<1>5. d.read.revision \in Revisions /\ d.read \in [revision : Revisions, reviews : ReviewAnswers]
    BY <1>0, <1>4, RevisionNumbers DEF WorkRecord
<1> HIDE DEF x
<1>6. /\ prdDecide' \in [Reviewers -> WorkRecord] /\ prdDecide'[p] = x
      /\ \A q \in Reviewers \ {p} : prdDecide'[q] = prdDecide[q]
    BY <1>0, <1>2, <1>3, DecisionTypes
<1>7. ReviewTypeOK'
    BY <1>0, <1>1, <1>5, <1>6, <1>20 DEF ReviewTypeOK
<1>8. RowsRule' /\ Latest' = Latest
    BY <1>0, <1>1, LatestStays
<1>9. WorkRule'
    <2>1. ASSUME NEW q \in Reviewers
          PROVE  /\ Known(prdDecide[q].read)'
                 /\ prdDecide'[q].at # "idle" => /\ prdDecide'[q].read.revision # 0
                                                 /\ prdDecide'[q].item \in ReviewItems
                                                 /\ prdDecide'[q].answer \in Answers
                 /\ prdDecide'[q].at = "file" => prdDecide'[q].read.reviews[prdDecide'[q].item] = prdDecide'[q].answer
        <3>1. CASE q = p
            <4>1. Known(x.read)
                BY <1>3, <1>4, WorkTypes DEF Known
            <4>2. x.at # "idle" => x.read.revision # 0 /\ x.item \in ReviewItems /\ x.answer \in Answers
                BY <1>3, <1>4, WorkTypes
            <4>4. x.at # "file"
                BY <1>3, WorkTypes
            <4>3. prdDecide'[q] = x /\ prdRows' = prdRows
                BY <1>1, <1>6, <3>1
            <4> QED BY <4>1, <4>2, <4>3, <4>4 DEF Known
        <3>2. CASE q # p
            BY <1>0, <1>1, <1>6, <3>2 DEF WorkRule, Known
        <3> QED BY <3>1, <3>2
    <2>2. Known(prdState)'
        BY <1>1, <1>4 DEF Known
    <2>3. \A w \in RevisionWorkers : Known(prdRun[w].read)'
        BY <1>0, <1>1 DEF WorkRule, Known
    <2> QED BY <1>0, <1>1, <2>1, <2>2, <2>3 DEF WorkRule
<1>10. ParentRule'
    BY <1>0, <1>1 DEF ParentRule
<1>11. ~prdCrossed => /\ InStep(d.read) /\ d.read.revision = prdState.revision
                      /\ \A q \in Reviewers : q # p => prdDecide'[q] = NoWork
                      /\ \A w \in RevisionWorkers : prdRun[w] = NoWork
    <2> SUFFICES ASSUME ~prdCrossed
                 PROVE  /\ InStep(d.read) /\ d.read.revision = prdState.revision
                        /\ \A q \in Reviewers : q # p => prdDecide'[q] = NoWork
                        /\ \A w \in RevisionWorkers : prdRun[w] = NoWork
        OBVIOUS
    <2>1. d # NoWork
        BY <1>1, WorkTypes
    <2> QED BY <1>0, <1>1, <1>6, <2>1 DEF SameRule
<1>12. SameRule'
    <2> SUFFICES ASSUME ~prdCrossed' PROVE SameRule'
        BY DEF SameRule
    <2>1. InStep(prdState)'
        BY <1>1, <1>11 DEF InStep
    <2>2. x.at \in {"idle", "status"}
        BY <1>3, WorkTypes
    <2>3. \A q \in Reviewers : prdDecide'[q].at \in {"idle", "status"}
        BY <1>1, <1>6, <1>11, <2>2, WorkTypes
    <2>4. \A w \in RevisionWorkers : prdRun'[w] = NoWork
        BY <1>1, <1>11
    <2> QED BY <1>1, <1>11, <2>1, <2>3, <2>4, WorkTypes DEF SameRule, Reading
<1>13. TurnRule'
    BY <1>0, <1>1 DEF TurnRule, Busy
<1> QED BY <1>7, <1>8, <1>9, <1>10, <1>12, <1>13 DEF BaseRules

LEMMA UpdateStep == ASSUME BaseRules, NEW p \in Reviewers, UpdateRow(p) PROVE BaseRules'
<1>0. ReviewTypeOK /\ RowsRule /\ WorkRule /\ ParentRule /\ TurnRule /\ SameRule
      /\ prdDecide[p] \in WorkRecord
    BY ReviewParts DEF ReviewTypeOK
<1> DEFINE d == prdDecide[p]
           n == d.read.revision
           i == d.item
           x == [d EXCEPT !.at = "file", !.read.reviews[d.item] = d.answer]
           reviews == [prdRows[n].reviews EXCEPT ![i] = d.answer]
<1>1. /\ d.at = "row" /\ prdRows' = [prdRows EXCEPT ![n].reviews[i] = d.answer]
      /\ UNCHANGED <<prdStatus, prdQueue, prdRun, prdRevise, prdTwice, prdKilled, prdParted, prdState, prdCrossed>>
    BY DEF UpdateRow, DecideVars
<1>2. prdDecide' = [prdDecide EXCEPT ![p] = x]
    BY <1>0 DEF UpdateRow, ReviewTypeOK
<1>3. n \in Revisions /\ n # 0 /\ i \in ReviewItems /\ d.answer \in Answers /\ Known(d.read)
    BY <1>0, <1>1, RevisionNumbers DEF WorkRule, WorkRecord
<1>4. x \in WorkRecord /\ x.at = "file" /\ x.item = i /\ x.answer = d.answer
      /\ x.read.revision = n /\ x.read.reviews = [d.read.reviews EXCEPT ![i] = d.answer]
    <2>1. "file" \in WorkPlaces
        BY DEF WorkPlaces
    <2>2. d.read.reviews \in ReviewAnswers /\ d.read \in [revision : Numbers, reviews : ReviewAnswers]
        BY <1>0 DEF WorkRecord
    <2>3. [d.read.reviews EXCEPT ![i] = d.answer] \in ReviewAnswers
        BY <1>3, <2>2 DEF ReviewAnswers
    <2> QED BY <1>0, <2>1, <2>2, <2>3 DEF WorkRecord
<1>5. /\ prdRows' \in [Revisions -> [made : BOOLEAN, parent : Numbers, reviews : ReviewAnswers]]
      /\ prdRows'[n].made = prdRows[n].made /\ prdRows'[n].parent = prdRows[n].parent
      /\ prdRows'[n].reviews = reviews
      /\ \A m \in Revisions : m # n => prdRows'[m] = prdRows[m]
    <2>1. reviews \in ReviewAnswers
        BY <1>0, <1>3 DEF ReviewAnswers, ReviewTypeOK
    <2>2. prdRows' = [prdRows EXCEPT ![n].reviews = reviews]
        BY <1>0, <1>1, <1>3 DEF ReviewTypeOK
    <2> HIDE DEF n, reviews
    <2> QED BY <1>0, <1>3, <2>1, <2>2 DEF ReviewTypeOK
<1>6. \A y \in ReviewItems : /\ reviews[y] = IF y = i THEN d.answer ELSE prdRows[n].reviews[y]
                             /\ x.read.reviews[y] = IF y = i THEN d.answer ELSE d.read.reviews[y]
    BY <1>0, <1>3, <1>4 DEF ReviewTypeOK, WorkRecord, ReviewAnswers
<1>7. d.answer # "pending"
    BY <1>3 DEF Answers
<1> HIDE DEF x, reviews
<1>8. /\ prdDecide' \in [Reviewers -> WorkRecord] /\ prdDecide'[p] = x
      /\ \A q \in Reviewers \ {p} : prdDecide'[q] = prdDecide[q]
    BY <1>0, <1>2, <1>4, DecisionTypes
<1>9. ReviewTypeOK'
    BY <1>0, <1>1, <1>5, <1>8 DEF ReviewTypeOK
<1>10. \A m \in Revisions : /\ prdRows'[m].made = prdRows[m].made
                            /\ prdRows'[m].parent = prdRows[m].parent
                            /\ \A y \in ReviewItems :
                                  prdRows[m].reviews[y] # "pending" => prdRows'[m].reviews[y] # "pending"
    BY <1>5, <1>6, <1>7
<1>11. RowsRule' /\ Latest' = Latest
    BY <1>0, <1>10, LatestStays
<1>12. ASSUME NEW f, f.revision \in Numbers, Known(f) PROVE Known(f)'
    BY <1>10, <1>12, RevisionNumbers DEF Known
<1>13. /\ prdRows'[n].made
       /\ \A y \in ReviewItems : x.read.reviews[y] # "pending" => prdRows'[n].reviews[y] # "pending"
    <2>1. prdRows[n].made /\ \A y \in ReviewItems : d.read.reviews[y] # "pending" => prdRows[n].reviews[y] # "pending"
        BY <1>3 DEF Known
    <2>2. prdRows'[n].made
        BY <1>5, <2>1
    <2>3. \A y \in ReviewItems : x.read.reviews[y] # "pending" => prdRows'[n].reviews[y] # "pending"
        BY <1>5, <1>6, <2>1
    <2> QED BY <2>2, <2>3
<1>14. WorkRule'
    <2>1. ASSUME NEW q \in Reviewers
          PROVE  /\ Known(prdDecide[q].read)'
                 /\ prdDecide'[q].at # "idle" => /\ prdDecide'[q].read.revision # 0
                                                 /\ prdDecide'[q].item \in ReviewItems
                                                 /\ prdDecide'[q].answer \in Answers
                 /\ prdDecide'[q].at = "file" => prdDecide'[q].read.reviews[prdDecide'[q].item] = prdDecide'[q].answer
        <3>1. CASE q = p
            <4>1. prdDecide'[q].read.revision = n /\ prdDecide'[q].read.reviews = x.read.reviews
                BY <1>4, <1>8, <3>1
            <4>2. Known(prdDecide[q].read)'
                BY <1>13, <4>1 DEF Known
            <4>3. x.read.reviews[i] = d.answer
                BY <1>3, <1>6
            <4> QED BY <1>3, <1>4, <1>8, <3>1, <4>2, <4>3
        <3>2. CASE q # p
            <4>1. prdDecide[q].read.revision \in Numbers /\ Known(prdDecide[q].read) /\ prdDecide'[q] = prdDecide[q]
                BY <1>0, <1>8, <3>2 DEF WorkRule, ReviewTypeOK, WorkRecord
            <4>2. Known(prdDecide[q].read)'
                BY <1>10, <4>1, RevisionNumbers DEF Known
            <4> QED BY <1>0, <4>1, <4>2 DEF WorkRule
        <3> QED BY <3>1, <3>2
    <2>2. Known(prdState)'
        BY <1>0, <1>1, <1>10, RevisionNumbers DEF WorkRule, Known, ReviewTypeOK
    <2>3. ASSUME NEW w \in RevisionWorkers PROVE Known(prdRun[w].read)'
        <3>1. prdRun[w].read.revision \in Numbers /\ Known(prdRun[w].read) /\ prdRun' = prdRun
            BY <1>0, <1>1 DEF WorkRule, ReviewTypeOK, WorkRecord
        <3> QED BY <1>10, <3>1, RevisionNumbers DEF Known
    <2>4. \A w \in RevisionWorkers : prdRun[w].revision \in Numbers
        BY <1>0 DEF ReviewTypeOK, WorkRecord
    <2>5. \A w \in RevisionWorkers :
              /\ prdRun'[w].at \in Reading => /\ prdRun'[w].read.revision # 0
                                              /\ Decided(prdRun'[w].read.reviews)
                                              /\ ~Rejected(prdRun'[w].read.reviews)
              /\ prdRun'[w].at = "state" => /\ prdRun'[w].revision # 0
                                            /\ prdRows'[prdRun'[w].revision].made
        BY <1>0, <1>1, <1>10, <2>4, RevisionNumbers DEF WorkRule
    <2> QED BY <2>1, <2>2, <2>3, <2>5 DEF WorkRule
<1>15. \A m \in Revisions : Decided(prdRows[m].reviews) => Decided(prdRows'[m].reviews)
    BY <1>10 DEF Decided
<1>16. ~prdCrossed => /\ \A q \in Reviewers : q # p => prdDecide'[q] = NoWork
                      /\ \A w \in RevisionWorkers : prdRun[w] = NoWork
                      /\ d.read = prdState /\ InStep(prdState)
                      /\ prdRows[n].reviews[i] = "pending"
    <2> SUFFICES ASSUME ~prdCrossed
                 PROVE  /\ \A q \in Reviewers : q # p => prdDecide'[q] = NoWork
                        /\ \A w \in RevisionWorkers : prdRun[w] = NoWork
                        /\ d.read = prdState /\ InStep(prdState)
                        /\ prdRows[n].reviews[i] = "pending"
        OBVIOUS
    <2>1. d # NoWork
        BY <1>1, WorkTypes
    <2>2. \A q \in Reviewers : q # p => prdDecide[q] = NoWork
        BY <1>0, <2>1 DEF SameRule
    <2>3. \A q \in Reviewers : prdDecide[q].at # "file"
        BY <1>1, <2>2, WorkTypes
    <2>4. InStep(prdState)
        BY <1>0, <2>3 DEF SameRule
    <2> QED BY <1>0, <1>1, <1>8, <2>1, <2>2, <2>4 DEF SameRule
<1>17. ParentRule'
    <2> SUFFICES ASSUME NEW k \in Revisions, prdRows'[k].made, k > 1
                 PROVE  /\ prdRows'[k].parent \in 1 .. k - 1
                        /\ prdRows'[prdRows'[k].parent].made
                        /\ Decided(prdRows'[prdRows'[k].parent].reviews)
                        /\ ~prdCrossed' => ~Rejected(prdRows'[prdRows'[k].parent].reviews)
        BY DEF ParentRule
    <2> DEFINE m == prdRows[k].parent
    <2>1. prdRows[k].made /\ prdRows'[k].parent = m
        BY <1>10
    <2>2. /\ m \in 1 .. k - 1 /\ prdRows[m].made /\ Decided(prdRows[m].reviews)
          /\ ~prdCrossed => ~Rejected(prdRows[m].reviews)
        BY <1>0, <2>1 DEF ParentRule
    <2>3. m \in Revisions
        BY <2>2, ProductReviewsAssumption DEF Revisions
    <2>4. Decided(prdRows'[m].reviews) /\ prdRows'[m].made
        BY <1>10, <1>15, <2>2, <2>3
    <2>5. ASSUME ~prdCrossed PROVE ~Rejected(prdRows'[m].reviews)
        <3>1. prdRows[n].reviews[i] = "pending"
            BY <1>16, <2>5
        <3>2. m # n
            BY <1>3, <2>2, <3>1 DEF Decided
        <3>3. prdRows'[m] = prdRows[m]
            BY <1>5, <2>3, <3>2
        <3> QED BY <2>2, <2>5, <3>3
    <2> HIDE DEF m
    <2> QED BY <1>1, <2>1, <2>2, <2>4, <2>5
<1>18. SameRule'
    <2> SUFFICES ASSUME ~prdCrossed' PROVE SameRule'
        BY DEF SameRule
    <2>1. ~prdCrossed
        BY <1>1
    <2>2. \A q \in Reviewers : q # p => prdDecide'[q] = NoWork
        BY <1>16, <2>1
    <2>3. \A w \in RevisionWorkers : prdRun'[w] = NoWork
        BY <1>1, <1>16, <2>1
    <2>4. /\ prdState.revision = n /\ prdState.reviews = d.read.reviews
          /\ \A y \in ReviewItems : d.read.reviews[y] # "pending" =>
                 y # i /\ d.read.reviews[y] = prdRows[n].reviews[y]
        BY <1>16, <2>1 DEF InStep
    <2>5. /\ \A y \in ReviewItems : d.read.reviews[y] # "pending" => d.read.reviews[y] = prdRows'[n].reviews[y]
          /\ \A y \in ReviewItems : x.read.reviews[y] # "pending" => x.read.reviews[y] = prdRows'[n].reviews[y]
        BY <1>5, <1>6, <2>4
    <2>6. prdDecide'[p].read.revision = n /\ prdDecide'[p].at = "file" /\ prdDecide'[p].read.reviews = x.read.reviews
        BY <1>4, <1>8
    <2>7. InStep(prdDecide[p].read)' /\ prdDecide'[p].read.revision = prdState'.revision
        BY <1>1, <2>4, <2>5, <2>6 DEF InStep
    <2>8. \A q \in Reviewers :
              /\ prdDecide'[q].at \notin {"check", "row"}
              /\ prdDecide'[q].at = "file" => InStep(prdDecide[q].read)' /\ prdDecide'[q].read.revision = prdState'.revision
        BY <2>2, <2>6, <2>7, WorkTypes
    <2>9. InStep(prdState)'
        BY <1>1, <2>4, <2>5 DEF InStep
    <2> HIDE DEF d, n, i
    <2> QED BY <2>2, <2>3, <2>6, <2>8, <2>9, WorkTypes DEF SameRule, Reading
<1>19. TurnRule'
    BY <1>0, <1>1 DEF TurnRule, Busy
<1> QED BY <1>9, <1>11, <1>14, <1>17, <1>18, <1>19 DEF BaseRules

LEMMA BaseKept == BaseRules /\ [ReviewNext]_prdVars => BaseRules'
<1> SUFFICES ASSUME BaseRules, [ReviewNext]_prdVars PROVE BaseRules'
    OBVIOUS
<1>1. CASE UNCHANGED prdVars
    <2>1. ReviewTypeOK /\ TurnRule
        BY ReviewParts
    <2>2. UNCHANGED <<prdStatus, prdQueue, prdRevise, prdTwice, prdState, prdRows, prdRun, prdDecide,
                      prdCrossed, prdKilled, prdParted>>
        BY <1>1 DEF prdVars
    <2>3. TurnRule'
        BY <2>1, <2>2 DEF TurnRule, Busy
    <2> QED BY <2>1, <2>2, <2>3, QuietRevise DEF ReviewTypeOK
<1>2. CASE \E p \in Reviewers :
              \/ ReadReview(p) \/ CheckRow(p) \/ UpdateRow(p) \/ WriteState(p) \/ MarkResolved(p)
              \/ DecisionStops(p)
    BY <1>2, ReadStep, CheckStep, UpdateStep, WriteStep, ResolveStep, StopStep
<1>3. CASE \E v \in Revisers : AskRevision(v) \/ QueueRevision(v) \/ EnqueueRevision(v)
    BY <1>3, ReviseSteps
<1>4. CASE \E w \in RevisionWorkers :
              \/ TakeRevision(w) \/ LockRevision(w) \/ Normalize(w)
              \/ InsertRevision(w) \/ SaveState(w) \/ FinishRevision(w) \/ UnlockRevision(w)
              \/ RunRaises(w) \/ RevisionFails(w) \/ KillRevision(w)
    BY <1>4, TakeStep, InsertStep, SaveStep, QuietRuns
<1>5. CASE AgeRevisionLock
    BY <1>5, AgeLock
<1> QED BY <1>1, <1>2, <1>3, <1>4, <1>5 DEF ReviewNext

-----------------------------------------------------------------------------
(* Each revision follows the one before it, beside the other rules.        *)

(* Whoever decides is alone at work, as long as nothing crossed. *)
LEMMA AloneDeciding ==
    ASSUME BaseRules, NEW p \in Reviewers, ~prdCrossed',
           \/ ReadReview(p) \/ CheckRow(p) \/ UpdateRow(p) \/ WriteState(p) \/ MarkResolved(p)
           \/ DecisionStops(p)
    PROVE  /\ ~prdCrossed /\ \A w \in RevisionWorkers : prdRun[w] = NoWork
           /\ \A q \in Reviewers : q # p => prdDecide[q] = NoWork
<1>0. ReviewTypeOK /\ SameRule
    BY ReviewParts
<1>1. CASE ReadReview(p)
    <2>1. ~prdCrossed /\ ~Busy(prdDecide) /\ ~Busy(prdRun)
        BY <1>1, Zenon DEF ReadReview
    <2> QED BY <1>0, <2>1 DEF Busy, ReviewTypeOK
<1>2. CASE CheckRow(p) \/ UpdateRow(p) \/ WriteState(p) \/ MarkResolved(p) \/ DecisionStops(p)
    <2>1. prdCrossed' = prdCrossed /\ prdDecide[p] # NoWork
        BY <1>2, WorkTypes DEF CheckRow, UpdateRow, WriteState, MarkResolved, DecisionStops, FileVars
    <2> QED BY <1>0, <2>1 DEF SameRule
<1> QED BY <1>1, <1>2

LEMMA LineAndDecisions ==
    ASSUME BaseRules, BaseRules', LineRule, NEW p \in Reviewers,
           \/ ReadReview(p) \/ CheckRow(p) \/ UpdateRow(p) \/ WriteState(p) \/ MarkResolved(p)
           \/ DecisionStops(p)
    PROVE  LineRule'
<1> SUFFICES ASSUME ~prdCrossed', ~prdTwice', ~prdKilled' PROVE LineRule'
    BY DEF LineRule
<1>0. ReviewTypeOK /\ RowsRule /\ WorkRule /\ SameRule /\ prdDecide[p] \in WorkRecord
    BY ReviewParts DEF ReviewTypeOK
<1>1. /\ ~prdCrossed /\ \A w \in RevisionWorkers : prdRun[w] = NoWork
      /\ \A q \in Reviewers : q # p => prdDecide[q] = NoWork
    BY AloneDeciding
<1>2. UNCHANGED <<prdQueue, prdRun, prdRevise, prdTwice, prdKilled>>
    BY DEF ReadReview, CheckRow, UpdateRow, WriteState, MarkResolved, DecisionStops, DecideVars, FileVars
<1>3. \A m \in Revisions : prdRows'[m].made = prdRows[m].made /\ prdRows'[m].parent = prdRows[m].parent
    <2>1. CASE prdRows' = prdRows
        BY <2>1
    <2>2. CASE UpdateRow(p)
        <3> DEFINE d == prdDecide[p]
        <3>1. d.at = "row" /\ prdRows' = [prdRows EXCEPT ![d.read.revision].reviews[d.item] = d.answer]
            BY <2>2 DEF UpdateRow
        <3>2. d.read.revision \in Revisions
            BY <1>0, <3>1, RevisionNumbers DEF WorkRule, WorkRecord
        <3> HIDE DEF d
        <3> QED BY <1>0, <3>1, <3>2 DEF ReviewTypeOK
    <2> QED BY <2>1, <2>2 DEF ReadReview, CheckRow, WriteState, MarkResolved, DecisionStops, FileVars
<1>4. Latest' = Latest
    BY <1>0, <1>3, LatestStays
<1>5. prdState'.revision = prdState.revision
    <2>1. CASE WriteState(p)
        BY <1>0, <1>1, <2>1 DEF WriteState, SameRule
    <2> QED BY <2>1 DEF ReadReview, CheckRow, UpdateRow, MarkResolved, DecisionStops, DecideVars
<1>6. ASSUME Stuck PROVE Stuck'
    <2>1. prdDecide[p].at \in {"idle", "check"}
        BY <1>6 DEF Stuck
    <2>2. UNCHANGED <<prdState, prdStatus>>
        BY <2>1 DEF ReadReview, CheckRow, UpdateRow, WriteState, MarkResolved, DecisionStops, DecideVars
    <2>3. prdDecide'[p].at \in {"idle", "check"}
        <3>1. CASE ReadReview(p)
            <4>1. PICK i \in ReviewItems, answer \in Answers :
                     prdDecide' = [prdDecide EXCEPT ![p] = [NoWork EXCEPT !.at = "check",
                                      !.read = prdState, !.item = i, !.answer = answer]]
                BY <3>1 DEF ReadReview
            <4> QED BY <1>0, <4>1 DEF ReviewTypeOK, NoWork
        <3>2. CASE CheckRow(p)
            <4> DEFINE d == prdDecide[p]
            <4>1. d.at = "check" /\ d.read = prdState /\ d.item \in ReviewItems /\ d.read.revision # 0
                BY <1>0, <1>1, <3>2 DEF CheckRow, SameRule, WorkRule
            <4>2. prdState.reviews[d.item] # "pending"
                BY <1>6, <4>1 DEF Stuck, Decided
            <4>3. prdRows[d.read.revision].reviews[d.item] # "pending"
                BY <1>0, <4>1, <4>2 DEF WorkRule, Known
            <4>4. prdDecide' = [prdDecide EXCEPT ![p] = NoWork]
                BY <3>2, <4>3 DEF CheckRow
            <4> QED BY <1>0, <4>4, WorkTypes DEF ReviewTypeOK
        <3>3. CASE DecisionStops(p)
            BY <1>0, <3>3, WorkTypes DEF DecisionStops, ReviewTypeOK
        <3> QED BY <2>1, <3>1, <3>2, <3>3 DEF UpdateRow, WriteState, MarkResolved
    <2>4. \A q \in Reviewers : q # p => prdDecide'[q] = prdDecide[q]
        BY <1>0 DEF ReadReview, CheckRow, UpdateRow, WriteState, MarkResolved, DecisionStops, ReviewTypeOK
    <2> QED BY <1>2, <1>6, <2>2, <2>3, <2>4 DEF Stuck
<1>7. prdState'.revision = Latest' \/ Stuck'
    BY <1>0, <1>1, <1>2, <1>4, <1>5, <1>6, WorkTypes DEF LineRule
<1>8. \A w \in RevisionWorkers : prdRun'[w].at = "idle"
    BY <1>1, <1>2, WorkTypes
<1>9. \A n \in Revisions : prdRows'[n].made /\ n > 1 => prdRows'[n].parent = n - 1
    BY <1>1, <1>2, <1>3 DEF LineRule
<1> QED BY <1>7, <1>8, <1>9 DEF LineRule, Reading

LEMMA LineAndRequests ==
    ASSUME BaseRules, LineRule, NEW v \in Revisers,
           AskRevision(v) \/ QueueRevision(v) \/ EnqueueRevision(v)
    PROVE  LineRule'
<1> SUFFICES ASSUME ~prdCrossed', ~prdTwice', ~prdKilled' PROVE LineRule'
    BY DEF LineRule
<1>0. ReviewTypeOK /\ RowsRule /\ TurnRule
    BY ReviewParts
<1>1. UNCHANGED <<prdState, prdRows, prdRun, prdDecide, prdCrossed, prdKilled>>
    BY DEF AskRevision, QueueRevision, EnqueueRevision, ReviseVars
<1>2. ~prdTwice
    BY Zenon DEF AskRevision, QueueRevision, EnqueueRevision
<1>3. Latest' = Latest
    BY <1>0, <1>1, LatestStays
<1>4. ~Stuck
    <2>1. CASE AskRevision(v)
        BY <2>1 DEF AskRevision, Stuck
    <2>2. CASE QueueRevision(v) \/ EnqueueRevision(v)
        BY <2>2, WorkTypes DEF QueueRevision, EnqueueRevision, Stuck
    <2> QED BY <2>1, <2>2
<1>5. CASE prdStatus' = prdStatus
    BY <1>1, <1>2, <1>3, <1>4, <1>5 DEF LineRule
<1>6. CASE QueueRevision(v) \/ EnqueueRevision(v)
    <2>1. prdRevise[v] # NoRead
        BY <1>6, WorkTypes DEF QueueRevision, EnqueueRevision
    <2>2. \A w \in RevisionWorkers : prdRun[w] = NoWork
        BY <1>0, <1>2, <2>1 DEF TurnRule, Busy, ReviewTypeOK
    <2> QED BY <1>1, <1>2, <1>3, <1>4, <2>2, WorkTypes DEF LineRule, Reading
<1> QED BY <1>5, <1>6 DEF AskRevision

(* A run goes on: whoever else could be at work is not. *)
LEMMA LineAndRun ==
    ASSUME BaseRules, LineRule, NEW w \in RevisionWorkers, NEW x \in WorkRecord,
           prdRun' = [prdRun EXCEPT ![w] = x], prdRun[w].at # "idle",
           UNCHANGED <<prdState, prdRows, prdQueue, prdDecide, prdRevise, prdCrossed, prdTwice, prdKilled>>,
           prdRun[w].at # "state", x.at # "state",
           x.at \in Reading => prdRun[w].at \in Reading /\ x.read = prdRun[w].read,
           x.at = "insert" => prdStatus'.status # "review_resolved",
           prdRun[w].at \in {"failed run", "fail", "unlock"} =>
               /\ x.at \in {"idle", "fail", "unlock"}
               /\ prdStatus'.status # "review_resolved" \/ prdStatus' = prdStatus
    PROVE  LineRule'
<1> SUFFICES ASSUME ~prdCrossed', ~prdTwice', ~prdKilled' PROVE LineRule'
    BY DEF LineRule
<1>0. ReviewTypeOK /\ RowsRule /\ TurnRule
    BY ReviewParts
<1>1. /\ prdRun'[w] = x /\ \A v \in RevisionWorkers \ {w} : prdRun'[v] = prdRun[v]
    BY <1>0, RunTypes
<1>2. \A v \in RevisionWorkers \ {w} : prdRun[v] = NoWork /\ prdRun'[v] = NoWork
    BY <1>0, <1>1, WorkTypes DEF TurnRule
<1>3. Latest' = Latest
    BY <1>0, LatestStays
<1>4. ASSUME Stuck PROVE Stuck'
    <2>1. prdRun[w].at \in {"failed run", "fail", "unlock"}
        BY <1>4 DEF Stuck
    <2> QED BY <1>1, <1>2, <1>4, <2>1, WorkTypes DEF Stuck
<1>5. /\ prdState.revision = Latest \/ Stuck \/ \E v \in RevisionWorkers : prdRun[v].at = "state"
      /\ prdRun[w].at \in Reading => prdRun[w].read.revision = Latest /\ prdRun[w].read = prdState
      /\ \A n \in Revisions : prdRows[n].made /\ n > 1 => prdRows[n].parent = n - 1
    BY DEF LineRule
<1>6. \A v \in RevisionWorkers : v # w => prdRun[v].at = "idle" /\ prdRun'[v].at = "idle"
    BY <1>2, WorkTypes
<1>7. prdState'.revision = Latest' \/ Stuck'
    BY <1>3, <1>4, <1>5, <1>6
<1>8. x.at \in Reading => x.read.revision = Latest' /\ x.read = prdState'
    BY <1>3, <1>5
<1> QED BY <1>1, <1>5, <1>6, <1>7, <1>8 DEF LineRule, Reading

LEMMA LineAndSteps ==
    ASSUME BaseRules, LineRule, NEW w \in RevisionWorkers,
           \/ LockRevision(w) \/ Normalize(w) \/ (RunRaises(w) /\ prdRun[w].at # "state")
           \/ FinishRevision(w) \/ UnlockRevision(w) \/ RevisionFails(w) \/ KillRevision(w)
    PROVE  LineRule'
<1>0. ReviewTypeOK /\ prdRun[w] \in WorkRecord /\ prdStatus \in StatusRecord
    BY ReviewParts DEF ReviewTypeOK
<1>1. CASE KillRevision(w)
    BY <1>1 DEF KillRevision, LineRule
<1>2. CASE UnlockRevision(w) \/ RevisionFails(w)
    <2>1. /\ prdRun[w].at \in {"unlock", "fail"} /\ prdRun' = [prdRun EXCEPT ![w] = NoWork]
          /\ prdStatus' = prdStatus \/ (prdRun[w].at = "fail" /\ prdStatus'.status # "review_resolved")
          /\ UNCHANGED <<prdState, prdRows, prdQueue, prdDecide, prdRevise, prdCrossed, prdTwice, prdKilled>>
        BY <1>0, <1>2 DEF UnlockRevision, RevisionFails, RunVars, RunKeeps, StatusRecord
    <2> QED BY <2>1, LineAndRun, WorkTypes DEF Reading
<1>3. ASSUME NEW at \in WorkPlaces, SetRun(w, at), at # "state",
             prdRun[w].at \notin {"idle", "state"}, at \in Reading => prdRun[w].at \in Reading,
             UNCHANGED <<prdState, prdRows, prdQueue, prdDecide, prdRevise, prdCrossed, prdTwice, prdKilled>>,
             at = "insert" => prdStatus'.status # "review_resolved",
             prdRun[w].at \in {"failed run", "fail", "unlock"} =>
                 /\ at \in {"fail", "unlock"}
                 /\ prdStatus'.status # "review_resolved" \/ prdStatus' = prdStatus
      PROVE  LineRule'
    <2> DEFINE x == [prdRun[w] EXCEPT !.at = at]
    <2>1. x \in WorkRecord /\ x.at = at /\ x.read = prdRun[w].read
        BY <1>0, PlaceRecord
    <2>2. prdRun' = [prdRun EXCEPT ![w] = x]
        BY <1>0, <1>3 DEF SetRun, ReviewTypeOK
    <2> HIDE DEF x
    <2> QED BY <1>3, <2>1, <2>2, LineAndRun
<1>4. CASE LockRevision(w)
    BY <1>3, <1>4 DEF LockRevision, RunVars, RunKeeps, Reading, WorkPlaces
<1>5. CASE Normalize(w)
    BY <1>0, <1>3, <1>5 DEF Normalize, RunVars, RunKeeps, Reading, WorkPlaces, StatusRecord
<1>6. CASE RunRaises(w) /\ prdRun[w].at # "state"
    BY <1>3, <1>6 DEF RunRaises, RunVars, Reading, WorkPlaces
<1>7. CASE FinishRevision(w)
    BY <1>0, <1>3, <1>7 DEF FinishRevision, RunVars, RunKeeps, Reading, WorkPlaces, StatusRecord
<1> QED BY <1>1, <1>2, <1>4, <1>5, <1>6, <1>7

(* The steps that change what the rule speaks of. *)
LEMMA LineAndRevisions ==
    ASSUME BaseRules, BaseRules', LineRule, NEW w \in RevisionWorkers,
           \/ TakeRevision(w) \/ InsertRevision(w) \/ SaveState(w)
           \/ (RunRaises(w) /\ prdRun[w].at = "state")
    PROVE  LineRule'
<1> SUFFICES ASSUME ~prdCrossed', ~prdTwice', ~prdKilled' PROVE LineRule'
    BY DEF LineRule
<1>0. ReviewTypeOK /\ RowsRule /\ TurnRule /\ WorkRule /\ SameRule /\ prdRun[w] \in WorkRecord
    BY ReviewParts DEF ReviewTypeOK
<1>7. UNCHANGED <<prdStatus, prdDecide, prdRevise, prdTwice, prdKilled>>
    BY DEF TakeRevision, InsertRevision, SaveState, RunRaises, RunVars
<1>8. ~prdCrossed
    BY Zenon DEF TakeRevision, InsertRevision, SaveState, RunRaises
<1>1. /\ ~prdCrossed /\ ~prdTwice /\ ~prdKilled
      /\ UNCHANGED <<prdStatus, prdDecide, prdRevise, prdTwice, prdKilled>>
    BY <1>7, <1>8
<1>2. CASE TakeRevision(w)
    <2>1. PICK at \in {"lock", "fail"} :
             prdRun' = [prdRun EXCEPT ![w] = [NoWork EXCEPT !.read = prdState, !.at = at]]
        BY <1>2 DEF TakeRevision
    <2>2. prdRun'[w].at = at /\ prdRun'[w].read = prdState
        BY <1>0, <2>1 DEF ReviewTypeOK, NoWork
    <2>3. prdQueue > 0 /\ UNCHANGED <<prdState, prdRows>>
        BY <1>2 DEF TakeRevision
    <2>4. prdQueue = 1 /\ prdQueue # 0
        BY <1>0, <1>1, <2>3 DEF TurnRule, ReviewTypeOK
    <2>5. \A v \in RevisionWorkers : prdRun[v] = NoWork
        BY <1>0, <1>1, <2>4 DEF TurnRule, Busy, ReviewTypeOK
    <2>6. prdState.revision = Latest
        BY <1>1, <2>4, <2>5, WorkTypes DEF LineRule, Stuck
    <2>7. Latest' = Latest
        BY <1>0, <2>3, LatestStays
    <2>8. \A v \in RevisionWorkers : v # w => prdRun'[v] = NoWork
        BY <1>0, <2>1, <2>5 DEF ReviewTypeOK
    <2> QED BY <1>1, <2>2, <2>3, <2>6, <2>7, <2>8, WorkTypes DEF LineRule, Reading
<1>3. ASSUME prdRun[w] # NoWork PROVE \A v \in RevisionWorkers : v # w => prdRun[v] = NoWork
    BY <1>0, <1>1, <1>3 DEF TurnRule
<1>4. CASE SaveState(w)
    <2>1. /\ prdRun[w].at = "state" /\ SetRun(w, "finish") /\ prdState'.revision = prdRun[w].revision
          /\ UNCHANGED prdRows
        BY <1>4 DEF SaveState
    <2>2. Latest' = Latest
        BY <1>0, <2>1, LatestStays
    <2>3. prdRun[w].revision = Latest
        BY <1>1, <2>1 DEF LineRule
    <2>4. prdRun'[w].at = "finish" /\ \A v \in RevisionWorkers : v # w => prdRun'[v] = NoWork
        BY <1>0, <1>3, <2>1, WorkTypes DEF SetRun, ReviewTypeOK, WorkRecord
    <2> QED BY <1>1, <2>1, <2>2, <2>3, <2>4, WorkTypes DEF LineRule, Reading
<1>5. CASE RunRaises(w) /\ prdRun[w].at = "state"
    <2>1. SetRun(w, "failed run") /\ UNCHANGED <<prdState, prdRows, prdQueue>>
        BY <1>5 DEF RunRaises
    <2>2. Latest' = Latest
        BY <1>0, <2>1, LatestStays
    <2>3. prdRun'[w].at = "failed run" /\ prdRun[w] # NoWork
          /\ \A v \in RevisionWorkers : v # w => prdRun'[v] = NoWork
        BY <1>0, <1>3, <1>5, <2>1, WorkTypes DEF SetRun, ReviewTypeOK, WorkRecord
    <2>4. Busy(prdRun)
        BY <1>0, <2>3 DEF Busy, ReviewTypeOK
    <2>5. prdQueue = 0 /\ \A v \in Revisers : prdRevise[v] = NoRead
        BY <1>0, <1>1, <2>4 DEF TurnRule, ReviewTypeOK
    <2>6. \A p \in Reviewers : prdDecide[p] = NoWork
        BY <1>0, <1>1, <2>3 DEF SameRule
    <2>7. Stuck'
        BY <1>1, <1>5, <2>1, <2>3, <2>5, <2>6, WorkTypes DEF LineRule, Stuck
    <2> QED BY <1>1, <2>1, <2>3, <2>7, WorkTypes DEF LineRule, Reading
<1>6. CASE InsertRevision(w)
    <2> DEFINE next == Latest + 1
               row  == [made |-> TRUE, parent |-> prdRun[w].read.revision, reviews |-> Pending]
    <2>1. /\ prdRun[w].at = "insert" /\ Latest < MaxProductRevision
          /\ prdRows' = [prdRows EXCEPT ![next] = row]
          /\ prdRun' = [prdRun EXCEPT ![w].at = "state", ![w].revision = next]
          /\ UNCHANGED prdState
        BY <1>6 DEF InsertRevision
    <2>2. prdRun[w].read.revision = Latest /\ prdRun[w].read = prdState /\ prdStatus.status # "review_resolved"
        BY <1>1, <2>1 DEF LineRule, Reading
    <2>3. Latest \in Revisions /\ \A m \in Revisions : prdRows[m].made <=> m <= Latest
        BY <1>0, LatestMade
    <2>4. next \in Revisions /\ next - 1 = Latest /\ \A m \in Revisions : m <= next <=> m <= Latest \/ m = next
        BY <2>1, <2>3, ProductReviewsAssumption DEF Revisions
    <2>5. row.made /\ row.parent = Latest
        BY <2>2
    <2>6. prdRows'[next] = row /\ \A m \in Revisions : m # next => prdRows'[m] = prdRows[m]
        BY <1>0, <2>1, <2>4 DEF ReviewTypeOK
    <2>7. prdRun'[w].at = "state" /\ prdRun'[w].revision = next
        BY <1>0, <2>1 DEF ReviewTypeOK, WorkRecord
    <2>8. \A v \in RevisionWorkers : v # w => prdRun'[v] = NoWork
        BY <1>0, <1>3, <2>1, WorkTypes DEF ReviewTypeOK
    <2>9. Decided(prdState.reviews)
        BY <1>0, <2>1, <2>2 DEF WorkRule, Reading
    <2> HIDE DEF row, next
    <2>10. \A m \in Revisions : prdRows'[m].made <=> m <= next
        BY <2>3, <2>4, <2>5, <2>6
    <2>11. Latest' = next
        BY <2>4, <2>10, TopIs DEF Latest
    <2>12. \A n \in Revisions : prdRows'[n].made /\ n > 1 => prdRows'[n].parent = n - 1
        BY <1>1, <2>4, <2>5, <2>6 DEF LineRule
    <2> QED BY <1>1, <2>1, <2>2, <2>7, <2>8, <2>9, <2>11, <2>12, WorkTypes DEF LineRule, Reading
<1> QED BY <1>2, <1>4, <1>5, <1>6

LEMMA LineKept == BaseRules /\ BaseRules' /\ LineRule /\ [ReviewNext]_prdVars => LineRule'
<1> SUFFICES ASSUME BaseRules, BaseRules', LineRule, [ReviewNext]_prdVars PROVE LineRule'
    OBVIOUS
<1>1. CASE UNCHANGED prdVars \/ AgeRevisionLock
    <2>1. UNCHANGED <<prdStatus, prdQueue, prdRevise, prdTwice, prdState, prdRows, prdRun, prdDecide,
                      prdCrossed, prdKilled>>
        BY <1>1 DEF prdVars, AgeRevisionLock, RunKeeps, RunVars
    <2>2. Latest' = Latest
        BY <2>1, ReviewParts, LatestStays
    <2>3. Stuck' <=> Stuck
        BY <2>1 DEF Stuck
    <2> SUFFICES ASSUME ~prdCrossed', ~prdTwice', ~prdKilled' PROVE LineRule'
        BY DEF LineRule
    <2>4. ~prdCrossed /\ ~prdTwice /\ ~prdKilled
        BY <2>1
    <2>5. prdState'.revision = Latest' \/ Stuck' \/ \E w \in RevisionWorkers : prdRun'[w].at = "state"
        BY <2>1, <2>2, <2>3, <2>4 DEF LineRule
    <2>6. \A w \in RevisionWorkers :
              /\ prdRun'[w].at \in Reading => prdRun'[w].read.revision = Latest' /\ prdRun'[w].read = prdState'
              /\ prdRun'[w].at = "insert" => prdStatus'.status # "review_resolved"
              /\ prdRun'[w].at = "state" => /\ prdRun'[w].revision = Latest'
                                            /\ Decided(prdState'.reviews)
                                            /\ prdStatus'.status # "review_resolved"
        BY <2>1, <2>2, <2>4 DEF LineRule
    <2>7. \A n \in Revisions : prdRows'[n].made /\ n > 1 => prdRows'[n].parent = n - 1
        BY <2>1, <2>4 DEF LineRule
    <2> QED BY <2>5, <2>6, <2>7 DEF LineRule
<1>2. CASE \E p \in Reviewers :
                \/ ReadReview(p) \/ CheckRow(p) \/ UpdateRow(p) \/ WriteState(p) \/ MarkResolved(p)
                \/ DecisionStops(p)
    BY <1>2, LineAndDecisions
<1>3. CASE \E v \in Revisers : AskRevision(v) \/ QueueRevision(v) \/ EnqueueRevision(v)
    BY <1>3, LineAndRequests
<1>4. CASE \E w \in RevisionWorkers :
                \/ TakeRevision(w) \/ LockRevision(w) \/ Normalize(w)
                \/ InsertRevision(w) \/ SaveState(w) \/ FinishRevision(w) \/ UnlockRevision(w)
                \/ RunRaises(w) \/ RevisionFails(w) \/ KillRevision(w)
    <2>0. PICK w \in RevisionWorkers :
                \/ TakeRevision(w) \/ LockRevision(w) \/ Normalize(w)
                \/ InsertRevision(w) \/ SaveState(w) \/ FinishRevision(w) \/ UnlockRevision(w)
                \/ RunRaises(w) \/ RevisionFails(w) \/ KillRevision(w)
        BY <1>4
    <2>1. CASE \/ LockRevision(w) \/ Normalize(w) \/ (RunRaises(w) /\ prdRun[w].at # "state")
               \/ FinishRevision(w) \/ UnlockRevision(w) \/ RevisionFails(w) \/ KillRevision(w)
        BY <2>1, LineAndSteps
    <2>2. CASE \/ TakeRevision(w) \/ InsertRevision(w) \/ SaveState(w)
               \/ (RunRaises(w) /\ prdRun[w].at = "state")
        BY <2>2, LineAndRevisions
    <2> QED BY <2>0, <2>1, <2>2
<1> QED BY <1>1, <1>2, <1>3, <1>4 DEF ReviewNext

-----------------------------------------------------------------------------
(* What the file does not tell yet is still to be written.                 *)

LEMMA PartedInitially == ReviewInit => PartedRule /\ LineRule
<1> SUFFICES ASSUME ReviewInit PROVE PartedRule /\ LineRule
    OBVIOUS
<1>1. \A n \in Revisions : /\ prdRows[n].made <=> n = 1
                           /\ prdRows[n].reviews = Pending
    BY DEF ReviewInit, NoRows
<1>2. \A m \in Revisions : prdRows[m].made <=> m <= 1
    BY <1>1 DEF Revisions
<1>3. Latest = 1
    BY <1>2, TopIs, RevisionNumbers DEF Latest
<1>4. prdState.revision = 1 /\ prdState.reviews = Pending /\ \A w \in RevisionWorkers : prdRun[w] = NoWork
    BY DEF ReviewInit
<1>5. \A n \in Revisions : prdRows[n].made => ~(n > 1)
    BY <1>2 DEF Revisions
<1>6. PartedRule
    BY <1>1, <1>3, <1>4, RevisionNumbers DEF PartedRule
<1> QED BY <1>3, <1>4, <1>5, <1>6, WorkTypes DEF LineRule, Reading

(* A step that leaves rows and file as they are. *)
LEMMA PartedSteady ==
    ASSUME BaseRules, PartedRule, UNCHANGED <<prdState, prdRows>>, prdParted => prdParted',
           \A w \in RevisionWorkers : prdRun[w].at = "state" =>
               prdParted' \/ (prdRun'[w].at = "state" /\ prdRun'[w].revision = prdRun[w].revision),
           \A p \in Reviewers : prdDecide[p].at = "file" => prdParted' \/ prdDecide'[p] = prdDecide[p]
    PROVE  PartedRule'
<1> SUFFICES ASSUME ~prdParted' PROVE PartedRule'
    BY DEF PartedRule
<1>1. Latest' = Latest
    BY ReviewParts, LatestStays
<1>2. \/ prdState'.revision = Latest'
      \/ \E w \in RevisionWorkers : prdRun'[w].at = "state" /\ prdRun'[w].revision = Latest'
    BY <1>1 DEF PartedRule
<1>3. ASSUME NEW x \in ReviewItems, prdState'.reviews[x] # prdRows'[prdState'.revision].reviews[x]
      PROVE  \E p \in Reviewers : Answering(p, x)'
    <2>1. PICK p \in Reviewers : Answering(p, x)
        BY <1>3 DEF PartedRule
    <2>2. prdDecide'[p] = prdDecide[p]
        BY <2>1 DEF Answering
    <2> QED BY <2>1, <2>2 DEF Answering
<1> QED BY <1>2, <1>3 DEF PartedRule

LEMMA PartedAndDecisions ==
    ASSUME BaseRules, PartedRule, NEW p \in Reviewers,
           \/ ReadReview(p) \/ CheckRow(p) \/ UpdateRow(p) \/ WriteState(p) \/ MarkResolved(p)
           \/ DecisionStops(p)
    PROVE  PartedRule'
<1>0. ReviewTypeOK /\ RowsRule /\ WorkRule /\ prdDecide[p] \in WorkRecord
    BY ReviewParts DEF ReviewTypeOK
<1> DEFINE d == prdDecide[p]
           n == d.read.revision
<1>1. prdRun' = prdRun
    BY DEF ReadReview, CheckRow, UpdateRow, WriteState, MarkResolved, DecisionStops, DecideVars, FileVars
<1>2. \A q \in Reviewers : q # p => prdDecide'[q] = prdDecide[q]
    BY <1>0 DEF ReadReview, CheckRow, UpdateRow, WriteState, MarkResolved, DecisionStops, ReviewTypeOK
<1>3. CASE ReadReview(p) \/ CheckRow(p) \/ MarkResolved(p)
    <2>1. UNCHANGED <<prdState, prdRows, prdParted>> /\ d.at # "file"
        BY <1>3, WorkTypes DEF ReadReview, CheckRow, MarkResolved, DecideVars
    <2> QED BY <1>1, <1>2, <2>1, PartedSteady
<1>4. CASE DecisionStops(p)
    <2>1. UNCHANGED <<prdState, prdRows>> /\ prdParted' = (prdParted \/ d.at = "file")
        BY <1>4 DEF DecisionStops, DecideVars
    <2>2. (prdParted => prdParted') /\ (d.at = "file" => prdParted')
        BY <2>1, Zenon
    <2> QED BY <1>1, <1>2, <2>1, <2>2, PartedSteady
<1>5. CASE UpdateRow(p)
    <2> SUFFICES ASSUME ~prdParted' PROVE PartedRule'
        BY DEF PartedRule
    <2>1. /\ d.at = "row" /\ prdRows' = [prdRows EXCEPT ![n].reviews[d.item] = d.answer]
          /\ prdDecide' = [prdDecide EXCEPT ![p].at = "file", ![p].read.reviews[d.item] = d.answer]
          /\ UNCHANGED <<prdState, prdParted>>
        BY <1>5 DEF UpdateRow, DecideVars
    <2>2. n \in Revisions /\ n # 0 /\ d.item \in ReviewItems /\ d.answer \in Answers
        BY <1>0, <2>1, RevisionNumbers DEF WorkRule, WorkRecord
    <2>3. prdDecide'[p].at = "file" /\ prdDecide'[p].read.revision = n /\ prdDecide'[p].item = d.item
          /\ prdDecide'[p].answer = d.answer
        <3> DEFINE y == [d EXCEPT !.at = "file", !.read.reviews[d.item] = d.answer]
        <3>1. prdDecide'[p] = y
            BY <1>0, <2>1 DEF ReviewTypeOK
        <3>2. y.at = "file" /\ y.read.revision = n /\ y.item = d.item /\ y.answer = d.answer
            BY <1>0 DEF WorkRecord
        <3> QED BY <3>1, <3>2
    <2>4. /\ \A m \in Revisions : prdRows'[m].made = prdRows[m].made
          /\ \A m \in Revisions, x \in ReviewItems :
                prdRows'[m].reviews[x] = IF m = n /\ x = d.item THEN d.answer ELSE prdRows[m].reviews[x]
        BY <1>0, <2>1, <2>2 DEF ReviewTypeOK, ReviewAnswers
    <2>5. Latest' = Latest
        BY <1>0, <2>4, LatestStays
    <2>6. prdState.revision \in Revisions
        BY <1>0 DEF ReviewTypeOK
    <2>7. ASSUME NEW x \in ReviewItems, prdState'.reviews[x] # prdRows'[prdState'.revision].reviews[x]
          PROVE  \E q \in Reviewers : Answering(q, x)'
        <3>1. CASE prdState.revision = n /\ x = d.item
            <4>1. prdState'.revision = n /\ prdRows'[n].reviews[x] = d.answer
                BY <2>1, <2>2, <2>4, <3>1
            <4> HIDE DEF d, n
            <4>2. Answering(p, x)'
                BY <2>3, <3>1, <4>1 DEF Answering
            <4> QED BY <4>2
        <3>2. CASE ~(prdState.revision = n /\ x = d.item)
            <4>1. prdRows'[prdState.revision].reviews[x] = prdRows[prdState.revision].reviews[x]
                BY <2>4, <2>6, <3>2
            <4>2. PICK q \in Reviewers : Answering(q, x)
                BY <2>1, <2>7, <4>1 DEF PartedRule
            <4>3. q # p /\ prdDecide'[q] = prdDecide[q]
                BY <1>2, <2>1, <4>2 DEF Answering
            <4> QED BY <2>1, <4>1, <4>2, <4>3 DEF Answering
        <3> QED BY <3>1, <3>2
    <2>8. \/ prdState'.revision = Latest'
          \/ \E w \in RevisionWorkers : prdRun'[w].at = "state" /\ prdRun'[w].revision = Latest'
        BY <1>1, <2>1, <2>5 DEF PartedRule
    <2> QED BY <2>7, <2>8 DEF PartedRule
<1>6. CASE WriteState(p)
    <2> SUFFICES ASSUME ~prdParted' PROVE PartedRule'
        BY DEF PartedRule
    <2>1. /\ d.at = "file" /\ prdState' = d.read /\ prdRows' = prdRows
        BY <1>6 DEF WriteState, FileVars
    <2>2. ~prdParted /\ ~Outdated(d)
        BY <1>6, Zenon DEF WriteState
    <2>3. prdState = [d.read EXCEPT !.reviews[d.item] = "pending"]
        BY <2>2 DEF Outdated
    <2>4. n # 0 /\ d.item \in ReviewItems /\ d.answer \in Answers /\ Known(d.read)
          /\ d.read.reviews[d.item] = d.answer
        BY <1>0, <2>1 DEF WorkRule
    <2>5. /\ prdState.revision = n /\ prdState.reviews[d.item] = "pending"
          /\ \A x \in ReviewItems : x # d.item => prdState.reviews[x] = d.read.reviews[x]
        BY <1>0, <2>3, <2>4 DEF WorkRecord, ReviewAnswers
    <2>6. Latest' = Latest
        BY <1>0, <2>1, LatestStays
    <2>7. ASSUME NEW x \in ReviewItems, d.read.reviews[x] # prdRows[n].reviews[x]
          PROVE  \E q \in Reviewers : Answering(q, x)'
        <3>1. prdState.reviews[x] # prdRows[n].reviews[x]
            <4>1. CASE x = d.item
                BY <2>4, <2>5, <4>1 DEF Known, Answers
            <4>2. CASE x # d.item
                BY <2>5, <2>7, <4>2
            <4> QED BY <4>1, <4>2
        <3>2. PICK q \in Reviewers : Answering(q, x)
            BY <2>2, <2>5, <3>1 DEF PartedRule
        <3>3. q # p
            BY <2>4, <2>5, <2>7, <3>2 DEF Answering
        <3>4. prdDecide'[q] = prdDecide[q]
            BY <1>2, <3>3
        <3> QED BY <2>1, <2>5, <3>2, <3>4 DEF Answering
    <2>8. \/ prdState'.revision = Latest'
          \/ \E w \in RevisionWorkers : prdRun'[w].at = "state" /\ prdRun'[w].revision = Latest'
        BY <1>1, <2>1, <2>2, <2>5, <2>6 DEF PartedRule
    <2> QED BY <2>1, <2>7, <2>8 DEF PartedRule
<1> QED BY <1>3, <1>4, <1>5, <1>6

LEMMA PartedAndRuns ==
    ASSUME BaseRules, PartedRule, NEW w \in RevisionWorkers,
           \/ TakeRevision(w) \/ LockRevision(w) \/ Normalize(w)
           \/ InsertRevision(w) \/ SaveState(w) \/ FinishRevision(w) \/ UnlockRevision(w)
           \/ RunRaises(w) \/ RevisionFails(w) \/ KillRevision(w)
    PROVE  PartedRule'
<1>0. ReviewTypeOK /\ RowsRule /\ WorkRule /\ prdRun[w] \in WorkRecord
    BY ReviewParts DEF ReviewTypeOK
<1>1. prdDecide' = prdDecide
    BY DEF TakeRevision, LockRevision, Normalize, InsertRevision, SaveState, FinishRevision, UnlockRevision,
           RunRaises, RevisionFails, KillRevision, RunVars
<1>2. \A v \in RevisionWorkers : v # w => prdRun'[v] = prdRun[v]
    BY <1>0 DEF TakeRevision, LockRevision, Normalize, InsertRevision, SaveState, FinishRevision, UnlockRevision,
           RunRaises, RevisionFails, KillRevision, SetRun, ReviewTypeOK
<1>3. CASE TakeRevision(w) \/ LockRevision(w) \/ Normalize(w) \/ FinishRevision(w) \/ UnlockRevision(w)
           \/ RevisionFails(w)
    <2>1. prdRun[w].at # "state" /\ UNCHANGED <<prdState, prdRows, prdParted>>
        BY <1>3, WorkTypes DEF TakeRevision, LockRevision, Normalize, FinishRevision, UnlockRevision,
                               RevisionFails, RunKeeps
    <2> QED BY <1>1, <1>2, <2>1, PartedSteady
<1>4. CASE RunRaises(w) \/ KillRevision(w)
    <2>1. UNCHANGED <<prdState, prdRows>> /\ prdParted' = (prdParted \/ prdRun[w].at = "state")
        BY <1>4 DEF RunRaises, KillRevision
    <2>2. (prdParted => prdParted') /\ (prdRun[w].at = "state" => prdParted')
        BY <2>1, Zenon
    <2> QED BY <1>1, <1>2, <2>1, <2>2, PartedSteady
<1>5. CASE SaveState(w)
    <2> SUFFICES ASSUME ~prdParted' PROVE PartedRule'
        BY DEF PartedRule
    <2> DEFINE r == prdRun[w].revision
    <2>1. /\ prdRun[w].at = "state" /\ prdRows' = prdRows
          /\ prdState' = [revision |-> r, reviews |-> prdRows[r].reviews]
        BY <1>5 DEF SaveState
    <2>2. ~prdParted /\ ~(prdState.revision > r)
        BY <1>5, Zenon DEF SaveState
    <2>3. Latest' = Latest /\ Latest \in Revisions /\ \A m \in Revisions : prdRows[m].made <=> m <= Latest
        BY <1>0, <2>1, LatestStays, LatestMade
    <2>4. r \in Revisions /\ prdRows[r].made /\ prdState.revision \in Revisions
        BY <1>0, <2>1, RevisionNumbers DEF WorkRule, WorkRecord, ReviewTypeOK
    <2>5. r = Latest \/ prdState.revision # Latest
        BY <2>2, <2>3, <2>4 DEF Revisions
    <2>6. \/ prdState'.revision = Latest'
          \/ \E v \in RevisionWorkers : prdRun'[v].at = "state" /\ prdRun'[v].revision = Latest'
        <3>1. CASE r = Latest
            BY <2>1, <2>3, <3>1
        <3>2. CASE r # Latest
            <4>1. PICK v \in RevisionWorkers : prdRun[v].at = "state" /\ prdRun[v].revision = Latest
                BY <2>2, <2>5, <3>2 DEF PartedRule
            <4> QED BY <1>2, <2>3, <3>2, <4>1
        <3> QED BY <3>1, <3>2
    <2>7. prdState'.reviews = prdRows'[prdState'.revision].reviews
        BY <2>1
    <2> QED BY <2>6, <2>7 DEF PartedRule
<1>6. CASE InsertRevision(w)
    <2> SUFFICES ASSUME ~prdParted' PROVE PartedRule'
        BY DEF PartedRule
    <2> DEFINE next == Latest + 1
               row  == [made |-> TRUE, parent |-> prdRun[w].read.revision, reviews |-> Pending]
    <2>1. /\ Latest < MaxProductRevision /\ prdRows' = [prdRows EXCEPT ![next] = row]
          /\ prdRun' = [prdRun EXCEPT ![w].at = "state", ![w].revision = next]
          /\ UNCHANGED <<prdState, prdParted>>
        BY <1>6 DEF InsertRevision
    <2>2. Latest \in Revisions /\ \A m \in Revisions : prdRows[m].made <=> m <= Latest
        BY <1>0, LatestMade
    <2>3. next \in Revisions /\ ~(next <= Latest)
          /\ \A m \in Revisions : m <= next <=> m <= Latest \/ m = next
        BY <2>1, <2>2, ProductReviewsAssumption DEF Revisions
    <2>4. row.made /\ prdRows'[next] = row /\ \A m \in Revisions : m # next => prdRows'[m] = prdRows[m]
        BY <1>0, <2>1, <2>3 DEF ReviewTypeOK
    <2>5. prdRun'[w].at = "state" /\ prdRun'[w].revision = next
        BY <1>0, <2>1 DEF ReviewTypeOK, WorkRecord
    <2>6. prdState.revision \in Revisions /\ prdState.revision # next
        BY <1>0, <2>2, <2>3, RevisionNumbers DEF WorkRule, Known, ReviewTypeOK
    <2> HIDE DEF row, next
    <2>7. \A m \in Revisions : prdRows'[m].made <=> m <= next
        BY <2>2, <2>3, <2>4
    <2>8. Latest' = next
        BY <2>3, <2>7, TopIs DEF Latest
    <2>9. prdRows'[prdState.revision] = prdRows[prdState.revision]
        BY <2>4, <2>6
    <2>10. ASSUME NEW x \in ReviewItems, prdState'.reviews[x] # prdRows'[prdState'.revision].reviews[x]
           PROVE  \E p \in Reviewers : Answering(p, x)'
        <3>1. PICK p \in Reviewers : Answering(p, x)
            BY <2>1, <2>9, <2>10 DEF PartedRule
        <3> QED BY <1>1, <2>1, <2>9, <3>1 DEF Answering
    <2> QED BY <2>5, <2>8, <2>10 DEF PartedRule
<1> QED BY <1>3, <1>4, <1>5, <1>6

LEMMA ReviewKept == ReviewIInv /\ [ReviewNext]_prdVars => ReviewIInv'
<1> SUFFICES ASSUME BaseRules, LineRule, PartedRule, [ReviewNext]_prdVars PROVE ReviewIInv'
    BY DEF ReviewIInv
<1>1. BaseRules' /\ LineRule'
    BY BaseKept, LineKept
<1>2. PartedRule'
    <2>1. CASE \E p \in Reviewers :
                  \/ ReadReview(p) \/ CheckRow(p) \/ UpdateRow(p) \/ WriteState(p) \/ MarkResolved(p)
                  \/ DecisionStops(p)
        BY <2>1, PartedAndDecisions
    <2>2. CASE \E w \in RevisionWorkers :
                  \/ TakeRevision(w) \/ LockRevision(w) \/ Normalize(w)
                  \/ InsertRevision(w) \/ SaveState(w) \/ FinishRevision(w) \/ UnlockRevision(w)
                  \/ RunRaises(w) \/ RevisionFails(w) \/ KillRevision(w)
        BY <2>2, PartedAndRuns
    <2>3. CASE UNCHANGED <<prdState, prdRows, prdRun, prdDecide, prdParted>>
        BY <2>3, PartedSteady
    <2>4. (\E v \in Revisers : AskRevision(v) \/ QueueRevision(v) \/ EnqueueRevision(v))
          \/ AgeRevisionLock \/ UNCHANGED prdVars => UNCHANGED <<prdState, prdRows, prdRun, prdDecide, prdParted>>
        BY DEF AskRevision, QueueRevision, EnqueueRevision, AgeRevisionLock, ReviseVars, RunVars, RunKeeps, prdVars
    <2> QED BY <2>1, <2>2, <2>3, <2>4 DEF ReviewNext
<1> QED BY <1>1, <1>2 DEF ReviewIInv

LEMMA ReviewInvariant == ReviewSpec => []ReviewIInv
<1>1. ReviewInit => ReviewIInv
    BY ReviewInitially, PartedInitially DEF ReviewIInv
<1> QED BY <1>1, ReviewKept, PTL DEF ReviewSpec

(* A revision only ever follows one whose reviews are decided, and as long *)
(* as nothing overlapped or died it follows the one before it, calls that  *)
(* stop between any two steps included.                                    *)
THEOREM RevisionsComeOfReviews == ReviewSpec => []RevisionsFollowReviews
<1>1. ReviewIInv => RevisionsFollowReviews
    <2> SUFFICES ASSUME BaseRules, LineRule PROVE RevisionsFollowReviews
        BY DEF ReviewIInv
    <2> QED BY ReviewParts DEF ParentRule, LineRule, RevisionsFollowReviews
<1> QED BY <1>1, ReviewInvariant, PTL

(* The file is never ahead of the rows, whoever overlaps, stops or dies;   *)
(* with nobody at work it is behind them only after a stop between the     *)
(* rows and the file or a write over what another had written.             *)
THEOREM RowsAndFileAgree == ReviewSpec => []ReviewsAgree
<1>1. ReviewIInv => ReviewsAgree
    <2> SUFFICES ASSUME BaseRules, PartedRule PROVE ReviewsAgree
        BY DEF ReviewIInv
    <2>1. ReviewTypeOK /\ Known(prdState) /\ prdState.revision # 0
        BY ReviewParts, RevisionNumbers DEF WorkRule, ReviewTypeOK
    <2>2. ASSUME ~prdParted, ~Busy(prdDecide), ~Busy(prdRun)
          PROVE  prdState.revision = Latest /\ prdState.reviews = prdRows[Latest].reviews
        <3>1. (\A p \in Reviewers : prdDecide[p] = NoWork) /\ \A w \in RevisionWorkers : prdRun[w] = NoWork
            BY <2>1, <2>2 DEF Busy, ReviewTypeOK
        <3>2. prdState.revision = Latest
            BY <2>2, <3>1, WorkTypes DEF PartedRule
        <3>3. \A x \in ReviewItems : prdState.reviews[x] = prdRows[Latest].reviews[x]
            BY <2>2, <3>1, <3>2, WorkTypes DEF PartedRule, Answering
        <3>4. prdState.reviews \in ReviewAnswers /\ prdRows[Latest].reviews \in ReviewAnswers
            BY <2>1, <3>2 DEF ReviewTypeOK
        <3>5. prdState.reviews = prdRows[Latest].reviews
            BY <3>3, <3>4 DEF ReviewAnswers
        <3> QED BY <3>2, <3>5
    <2> QED BY <2>1, <2>2 DEF ReviewsAgree, Known
<1> QED BY <1>1, ReviewInvariant, PTL

=============================================================================
