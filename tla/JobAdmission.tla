---------------------------- MODULE JobAdmission ----------------------------
(***************************************************************************)
(* How requests become audit jobs: the idempotency key, the quota counted  *)
(* over the status files under a lock that is a directory, the workspace   *)
(* limit counted over the rows, and the queue.  Every request draws a job  *)
(* id of its own, so the id of a job is the request that drew it.          *)
(***************************************************************************)
EXTENDS Integers, FiniteSets

CONSTANTS Requests,        \* submissions of one tenant and user
          KeyOf,           \* request -> its Idempotency-Key, or NoKey
          PrintOf,         \* request -> the fingerprint of its content
          NoKey, Nobody,
          JobQuota,        \* EXCEL_AUDITOR_MAX_ACTIVE_JOBS_PER_TENANT
          WorkspaceQuota   \* running plus queued jobs of the workspace

JobKeys == {KeyOf[r] : r \in Requests} \ {NoKey}

ASSUME JobAdmissionAssumption ==
    /\ JobQuota \in Nat \ {0} /\ WorkspaceQuota \in Nat \ {0}
    /\ IsFiniteSet(Requests)
    /\ Requests \cap {Nobody, NoKey, "none", "empty"} = {}

VARIABLES
    admKey,      \* key -> nothing, an empty file, or the job in its record
    admLock,     \* the quota lock: who made it, and whether it is 30 s old
    admDir,      \* job -> its directory: none, bare (no status yet), active, ended
    admRow,      \* job -> its row: none, active, ended
    admQueue,    \* jobs whose run was enqueued
    admAt,       \* request -> where its handler is
    admJob,      \* request -> the job it works on
    admReplay,   \* requests that found their key taken
    admBroken,   \* history: a lock was removed that its holder still needed
    admFault     \* history: a request crashed, was refused its row or the queue

admVars == <<admKey, admLock, admDir, admRow, admQueue, admAt, admJob,
             admReplay, admBroken, admFault>>

Free == [by |-> Nobody, old |-> FALSE]

(* Where a request holds the lock it made. *)
Holding == {"count", "mkdir", "status", "unlock"}

Go(r, at) == admAt' = [admAt EXCEPT ![r] = at]

-----------------------------------------------------------------------------
(* AuditService.create_or_get_job                                          *)

Keyless(r) ==
    /\ admAt[r] = "new" /\ KeyOf[r] = NoKey
    /\ admJob' = [admJob EXCEPT ![r] = r]
    /\ Go(r, "lock")
    /\ UNCHANGED <<admKey, admLock, admDir, admRow, admQueue, admReplay,
                   admBroken, admFault>>

(* Slip: the key's file is opened for writing, whether it is there or not. *)
SlipClaimKey(r) ==
    /\ admAt[r] = "new" /\ KeyOf[r] # NoKey
    /\ admKey' = [admKey EXCEPT ![KeyOf[r]] = "empty"]
    /\ admJob' = [admJob EXCEPT ![r] = r]
    /\ Go(r, "record")
    /\ UNCHANGED <<admLock, admDir, admRow, admQueue, admReplay, admBroken,
                   admFault>>

(* The exclusive creation of the key's file succeeds. *)
ClaimKey(r) ==
    /\ admAt[r] = "new" /\ KeyOf[r] # NoKey /\ admKey[KeyOf[r]] = "none"
    /\ admKey' = [admKey EXCEPT ![KeyOf[r]] = "empty"]
    /\ admJob' = [admJob EXCEPT ![r] = r]
    /\ Go(r, "record")
    /\ UNCHANGED <<admLock, admDir, admRow, admQueue, admReplay, admBroken,
                   admFault>>

WriteRecord(r) ==
    /\ admAt[r] = "record"
    /\ admKey' = [admKey EXCEPT ![KeyOf[r]] = r]
    /\ Go(r, "lock")
    /\ UNCHANGED <<admLock, admDir, admRow, admQueue, admJob, admReplay,
                   admBroken, admFault>>

(* Slip: a job that is created again gets the id of the request. *)
SlipFindKey(r) ==
    /\ admAt[r] = "new" /\ KeyOf[r] # NoKey /\ admKey[KeyOf[r]] # "none"
    /\ LET job == admKey[KeyOf[r]]
           bad == job = "empty" \/ (job \in Requests /\ PrintOf[job] # PrintOf[r])
       IN  /\ admJob' = IF bad THEN admJob
                        ELSE [admJob EXCEPT ![r] = IF admDir[job] = "none" THEN r ELSE job]
           /\ admReplay' = IF bad THEN admReplay ELSE admReplay \cup {r}
           /\ Go(r, IF bad \/ admDir[job] = "bare" THEN "error"
                    ELSE IF admDir[job] # "none" THEN "answered" ELSE "lock")
    /\ UNCHANGED <<admKey, admLock, admDir, admRow, admQueue, admBroken, admFault>>

(* The key is taken: an empty file is an error, another fingerprint a      *)
(* conflict, a job with a directory the answer; a recorded job without a   *)
(* directory is created now, under its recorded id.                        *)
FindKey(r) ==
    /\ admAt[r] = "new" /\ KeyOf[r] # NoKey /\ admKey[KeyOf[r]] # "none"
    /\ LET job == admKey[KeyOf[r]]
           bad == job = "empty" \/ (job \in Requests /\ PrintOf[job] # PrintOf[r])
       IN  /\ admJob' = IF bad THEN admJob ELSE [admJob EXCEPT ![r] = job]
           /\ admReplay' = IF bad THEN admReplay ELSE admReplay \cup {r}
           /\ Go(r, IF bad \/ admDir[job] = "bare" THEN "error"
                    ELSE IF admDir[job] # "none" THEN "answered" ELSE "lock")
    /\ UNCHANGED <<admKey, admLock, admDir, admRow, admQueue, admBroken, admFault>>

-----------------------------------------------------------------------------
(* _tenant_quota_lock                                                      *)

(* Slip: the lock's directory may exist already. *)
SlipTakeLock(r) ==
    /\ admAt[r] = "lock"
    /\ admLock' = [by |-> r, old |-> FALSE]
    /\ Go(r, "count")
    /\ UNCHANGED <<admKey, admDir, admRow, admQueue, admJob, admReplay,
                   admBroken, admFault>>

TakeLock(r) ==
    /\ admAt[r] = "lock" /\ admLock = Free
    /\ admLock' = [by |-> r, old |-> FALSE]
    /\ Go(r, "count")
    /\ UNCHANGED <<admKey, admDir, admRow, admQueue, admJob, admReplay,
                   admBroken, admFault>>

(* A waiter sees that the lock is older than 30 s ... *)
SeeOldLock(r) ==
    /\ admAt[r] = "lock" /\ admLock.old
    /\ Go(r, "steal")
    /\ UNCHANGED <<admKey, admLock, admDir, admRow, admQueue, admJob, admReplay,
                   admBroken, admFault>>

(* ... and removes the directory, whichever lock it is by now. *)
NeededBy(lock) == lock # Free /\ admAt[lock.by] \in Holding

RemoveLock(r) ==
    /\ admAt[r] = "steal"
    /\ admBroken' = (admBroken \/ NeededBy(admLock))
    /\ admLock' = Free
    /\ Go(r, "lock")
    /\ UNCHANGED <<admKey, admDir, admRow, admQueue, admJob, admReplay, admFault>>

LockBusy(r) ==
    /\ admAt[r] = "lock" /\ admLock # Free
    /\ Go(r, "error")
    /\ UNCHANGED <<admKey, admLock, admDir, admRow, admQueue, admJob, admReplay,
                   admBroken, admFault>>

(* The holder lets go by removing the directory, be it its own or not. *)
Unlock(r, at) ==
    /\ admBroken' = (admBroken \/ (admLock.by # r /\ NeededBy(admLock)))
    /\ admLock' = Free
    /\ Go(r, at)

AgeLock ==
    /\ admLock # Free /\ ~admLock.old
    /\ admLock' = [admLock EXCEPT !.old = TRUE]
    /\ UNCHANGED <<admKey, admDir, admRow, admQueue, admAt, admJob, admReplay,
                   admBroken, admFault>>

-----------------------------------------------------------------------------
(* AuditService.create_job and DatabaseRepository.create_job               *)

ActiveDirs == {j \in Requests : admDir[j] = "active"}
ActiveRows == {j \in Requests : admRow[j] = "active"}

CountDirs(r) ==
    /\ admAt[r] = "count"
    /\ IF Cardinality(ActiveDirs) >= JobQuota
       THEN Unlock(r, "error")
       ELSE Go(r, "mkdir") /\ UNCHANGED <<admLock, admBroken>>
    /\ UNCHANGED <<admKey, admDir, admRow, admQueue, admJob, admReplay, admFault>>

MakeDir(r) ==
    /\ admAt[r] = "mkdir"
    /\ IF admDir[admJob[r]] # "none"
       THEN Unlock(r, "error") /\ UNCHANGED admDir
       ELSE /\ admDir' = [admDir EXCEPT ![admJob[r]] = "bare"]
            /\ Go(r, "status") /\ UNCHANGED <<admLock, admBroken>>
    /\ UNCHANGED <<admKey, admRow, admQueue, admJob, admReplay, admFault>>

WriteInitialStatus(r) ==
    /\ admAt[r] = "status"
    /\ admDir' = [admDir EXCEPT ![admJob[r]] = "active"]
    /\ Go(r, "unlock")
    /\ UNCHANGED <<admKey, admLock, admRow, admQueue, admJob, admReplay,
                   admBroken, admFault>>

ReleaseLock(r) ==
    /\ admAt[r] = "unlock" /\ Unlock(r, "rows")
    /\ UNCHANGED <<admKey, admDir, admRow, admQueue, admJob, admReplay, admFault>>

(* The rows are counted in the transaction that inserts one, with nothing  *)
(* locked; a refusal leaves the directory as it is.                        *)
CountRows(r) ==
    /\ admAt[r] = "rows"
    /\ LET full == Cardinality(ActiveRows) >= WorkspaceQuota
       IN  Go(r, IF full THEN "error" ELSE "insert") /\ admFault' = (admFault \/ full)
    /\ UNCHANGED <<admKey, admLock, admDir, admRow, admQueue, admJob, admReplay,
                   admBroken>>

InsertRow(r) ==
    /\ admAt[r] = "insert"
    /\ admRow' = [admRow EXCEPT ![admJob[r]] = "active"]
    /\ Go(r, IF r \in admReplay THEN "answered" ELSE "send")
    /\ UNCHANGED <<admKey, admLock, admDir, admQueue, admJob, admReplay,
                   admBroken, admFault>>

(* api.create_comparison enqueues the job of a request that is no replay;  *)
(* without the queue it answers 503 and leaves the job queued.             *)
SendRun(r) ==
    /\ admAt[r] = "send"
    /\ \E up \in BOOLEAN :
          /\ admQueue' = IF up THEN admQueue \cup {admJob[r]} ELSE admQueue
          /\ admFault' = (admFault \/ ~up)
          /\ Go(r, IF up THEN "answered" ELSE "error")
    /\ UNCHANGED <<admKey, admLock, admDir, admRow, admJob, admReplay, admBroken>>

-----------------------------------------------------------------------------
(* The process of a request dies; the run of a job ends.                   *)

CrashRequest(r) ==
    /\ admAt[r] \notin {"new", "answered", "error", "crashed"}
    /\ Go(r, "crashed") /\ admFault' = TRUE
    /\ UNCHANGED <<admKey, admLock, admDir, admRow, admQueue, admJob, admReplay,
                   admBroken>>

EndRun(j) ==
    /\ j \in admQueue /\ admDir[j] = "active"
    /\ admDir' = [admDir EXCEPT ![j] = "ended"]
    /\ admRow' = [admRow EXCEPT ![j] = "ended"]
    /\ UNCHANGED <<admKey, admLock, admQueue, admAt, admJob, admReplay,
                   admBroken, admFault>>

-----------------------------------------------------------------------------
AdmInit ==
    /\ admKey = [k \in JobKeys |-> "none"]
    /\ admLock = Free
    /\ admDir = [j \in Requests |-> "none"]
    /\ admRow = [j \in Requests |-> "none"]
    /\ admQueue = {}
    /\ admAt = [r \in Requests |-> "new"]
    /\ admJob = [r \in Requests |-> Nobody]
    /\ admReplay = {}
    /\ admBroken = FALSE
    /\ admFault = FALSE

AdmNext ==
    \/ AgeLock
    \/ \E r \in Requests :
          \/ Keyless(r) \/ ClaimKey(r) \/ WriteRecord(r) \/ FindKey(r)
          \/ TakeLock(r) \/ SeeOldLock(r) \/ RemoveLock(r) \/ LockBusy(r)
          \/ CountDirs(r) \/ MakeDir(r) \/ WriteInitialStatus(r) \/ ReleaseLock(r)
          \/ CountRows(r) \/ InsertRow(r) \/ SendRun(r)
          \/ CrashRequest(r) \/ EndRun(r)

AdmSpec == AdmInit /\ [][AdmNext]_admVars

-----------------------------------------------------------------------------
(* Properties.                                                             *)

(* However often a key is submitted, and whatever fails in between, one    *)
(* job at most is ever run for it and every answer names the same job.     *)
OneJobPerKey ==
    \A r, s \in Requests :
        KeyOf[r] = KeyOf[s] /\ KeyOf[r] # NoKey =>
            /\ r \in admQueue /\ s \in admQueue => r = s
            /\ admAt[r] = "answered" /\ admAt[s] = "answered" => admJob[r] = admJob[s]

(* The status files never exceed the quota, crashes of lock holders and    *)
(* the removal of their old locks included, unless a lock was removed that *)
(* a slow holder or the next holder still relied on.                       *)
WithinJobQuota == admBroken \/ Cardinality(ActiveDirs) <= JobQuota

(* Without a crash, a refused row or a missing queue, every active job of  *)
(* answered requests is to be run, and so gives its slot of the quota back *)
(* - but for the job of a refused request whose key was sent again: the    *)
(* second request makes it as a replay, which is never enqueued.           *)
SlotsAreRun ==
    ~admFault /\ (\A r \in Requests : admAt[r] \in {"new", "answered", "error"})
        => \A j \in ActiveDirs :
              j \in admQueue \/ (admAt[j] = "error" /\ \E r \in admReplay : admJob[r] = j)

(* What create_comparison promises of its keys and its quota together.     *)
KeysAndQuotaHold == OneJobPerKey /\ WithinJobQuota /\ SlotsAreRun

=============================================================================
