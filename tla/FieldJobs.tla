------------------------------ MODULE FieldJobs ------------------------------
(***************************************************************************)
(* One field reconciliation: its runs, one per revision, and the requests  *)
(* that confirm mappings, retry or cancel it.  A confirm or a retry holds  *)
(* the mutation lock, a file created exclusively; runs and cancels do not. *)
(* A status write is a read and a later write of the whole text (the two   *)
(* steps AuditJobs divides further); decisions, snapshot, mappings and     *)
(* report are files of their own.                                          *)
(***************************************************************************)
EXTENDS Integers, FiniteSets

CONSTANTS FieldCalls,    \* requests at work at one time
          FieldRuns,     \* worker processes
          FieldPages,    \* confirm requests, by the page that sends them
          MaxFieldRevision,
          MaxStandard    \* versions of the standard the platform answers with

ASSUME FieldJobsAssumption ==
    MaxFieldRevision \in Nat \ {0} /\ MaxStandard \in Nat \ {0}

VARIABLES
    fldFile,     \* status.json: status, revision, report named in it
    fldMarker,   \* cancel.requested exists
    fldDecided,  \* pages whose decisions are in field-decisions.json
    fldSnapshot, \* version of the standard in the snapshot file, 0 for none
    fldMapped,   \* version of the standard the saved mappings are for, 0 for none
    fldReport,   \* the report file: revision, decisions and standard it shows
    fldLock,     \* the mutation lock exists
    fldQueue,    \* revisions whose runs wait in the queue (the RQ job ids)
    fldRun,      \* worker -> its run
    fldCall,     \* request -> what it does
    fldBases,    \* history: the base revisions of the confirms accepted
    fldStale,    \* history: a text written over one it was not read from
    fldTwice     \* history: two runs of the job at the same time

fldVars == <<fldFile, fldMarker, fldDecided, fldSnapshot, fldMapped, fldReport,
             fldLock, fldQueue, fldRun, fldCall, fldBases, fldStale, fldTwice>>

FieldTerminal == {"completed", "failed", "cancelled", "manual_review"}
Reported      == {"completed", "manual_review"}
NoReport      == [revision |-> -1, decided |-> {}, standard |-> 0]

FieldDoc == [status : FieldTerminal \cup {"queued", "loading_standard",
                                         "reading_excel", "comparing"},
             revision : 0 .. MaxFieldRevision, report : BOOLEAN]

NoRun  == [at |-> "idle", to |-> "none", standard |-> 0, decided |-> {}, shown |-> 0,
           doc |-> [status |-> "queued", revision |-> 0, report |-> FALSE]]
NoCall == [at |-> "idle", op |-> "none", page |-> "none", base |-> 0,
           doc |-> NoRun.doc]

(* Every write replaces the whole text; it is stale if the text changed. *)
WriteDoc(read, doc) ==
    /\ fldFile' = doc
    /\ fldStale' = (fldStale \/ fldFile # read)

-----------------------------------------------------------------------------
(* FieldReconciliationService.run, on worker w.                            *)

FieldRunVars == <<fldFile, fldMarker, fldDecided, fldSnapshot, fldMapped,
                  fldReport, fldLock, fldQueue, fldCall, fldBases, fldStale, fldTwice>>

RunAt(w, at)     == fldRun[w].at = at
RunGo(w, at)     == fldRun' = [fldRun EXCEPT ![w].at = at]
RunStatus(w, to) == fldRun' = [fldRun EXCEPT ![w].at = "read", ![w].to = to]

TakeRun(w) ==
    /\ fldRun[w] = NoRun
    /\ \E revision \in fldQueue : fldQueue' = fldQueue \ {revision}
    /\ RunStatus(w, "loading_standard")
    /\ fldTwice' = (fldTwice \/ \E v \in FieldRuns : fldRun[v] # NoRun)
    /\ UNCHANGED <<fldFile, fldMarker, fldDecided, fldSnapshot, fldMapped,
                   fldReport, fldLock, fldCall, fldBases, fldStale>>

(* _status reads the text for the status it is about to write ... *)
RunReads(w) ==
    /\ RunAt(w, "read")
    /\ fldRun' = [fldRun EXCEPT ![w].doc = fldFile, ![w].at = "write"]
    /\ UNCHANGED FieldRunVars

(* ... and writes it with that status; the last one names the report. *)
AfterStatus == [loading_standard |-> "check standard", reading_excel |-> "check mappings",
                comparing |-> "compare"]

RunWrites(w) ==
    /\ RunAt(w, "write")
    /\ LET run == fldRun[w]
       IN  /\ \E status \in IF run.to = "finish" THEN Reported ELSE {run.to} :
                 WriteDoc(run.doc, [run.doc EXCEPT !.status = status,
                                                   !.report = @ \/ run.to = "finish"])
           /\ fldRun' = [fldRun EXCEPT ![w] =
                            IF run.to \in DOMAIN AfterStatus
                            THEN [run EXCEPT !.at = AfterStatus[run.to], !.doc = NoRun.doc]
                            ELSE NoRun]
    /\ UNCHANGED <<fldMarker, fldDecided, fldSnapshot, fldMapped, fldReport,
                   fldLock, fldQueue, fldCall, fldBases, fldTwice>>

(* The three looks at the marker, each before the next part of the work. *)
AfterCheck == [c \in {"check standard", "check mappings", "check report"} |->
                 CASE c = "check standard" -> "standard"
                   [] c = "check mappings" -> "mappings"
                   [] c = "check report"   -> "report"]

RunChecks(w) ==
    /\ fldRun[w].at \in DOMAIN AfterCheck
    /\ IF fldMarker THEN RunStatus(w, "cancelled") ELSE RunGo(w, AfterCheck[fldRun[w].at])
    /\ UNCHANGED FieldRunVars

(* The snapshot is read if there is one, else loaded from the platform,    *)
(* which may answer with another version each time, and saved.             *)
ReadStandard(w) ==
    /\ RunAt(w, "standard") /\ fldSnapshot # 0
    /\ fldRun' = [fldRun EXCEPT ![w].standard = fldSnapshot,
                                 ![w].at = "read", ![w].to = "reading_excel"]
    /\ UNCHANGED FieldRunVars

LoadStandard(w) ==
    /\ RunAt(w, "standard") /\ fldSnapshot = 0
    /\ \E v \in 1 .. MaxStandard :
          fldRun' = [fldRun EXCEPT ![w].standard = v, ![w].at = "save standard"]
    /\ UNCHANGED FieldRunVars

(* Slip: what was loaded is compared but not kept. *)
SlipSaveStandard(w) ==
    /\ RunAt(w, "save standard")
    /\ RunStatus(w, "reading_excel")
    /\ UNCHANGED FieldRunVars

SaveStandard(w) ==
    /\ RunAt(w, "save standard")
    /\ fldSnapshot' = fldRun[w].standard
    /\ RunStatus(w, "reading_excel")
    /\ UNCHANGED <<fldFile, fldMarker, fldDecided, fldMapped, fldReport, fldLock,
                   fldQueue, fldCall, fldBases, fldStale, fldTwice>>

(* The mappings of the first run are kept for the later ones; the human    *)
(* decisions are laid over them.                                           *)
MapFields(w) ==
    /\ RunAt(w, "mappings")
    /\ fldMapped' = IF fldMapped = 0 THEN fldRun[w].standard ELSE fldMapped
    /\ RunGo(w, "decisions")
    /\ UNCHANGED <<fldFile, fldMarker, fldDecided, fldSnapshot, fldReport, fldLock,
                   fldQueue, fldCall, fldBases, fldStale, fldTwice>>

ReadDecisions(w) ==
    /\ RunAt(w, "decisions")
    /\ fldRun' = [fldRun EXCEPT ![w].decided = fldDecided,
                                 ![w].at = "read", ![w].to = "comparing"]
    /\ UNCHANGED FieldRunVars

(* The comparison, then the revision of the report read from the status. *)
CompareFields(w) ==
    /\ RunAt(w, "compare")
    /\ fldRun' = [fldRun EXCEPT ![w].shown = fldFile.revision, ![w].at = "check report"]
    /\ UNCHANGED FieldRunVars

WriteReport(w) ==
    /\ RunAt(w, "report")
    /\ fldReport' = [revision |-> fldRun[w].shown, decided |-> fldRun[w].decided,
                     standard |-> fldRun[w].standard]
    /\ RunStatus(w, "finish")
    /\ UNCHANGED <<fldFile, fldMarker, fldDecided, fldSnapshot, fldMapped, fldLock,
                   fldQueue, fldCall, fldBases, fldStale, fldTwice>>

RunFails(w) ==
    /\ fldRun[w].at \in {"standard", "mappings", "compare", "report"}
    /\ RunStatus(w, "failed")
    /\ UNCHANGED FieldRunVars

-----------------------------------------------------------------------------
(* The requests.  Each reads the status; a confirm and a retry then take   *)
(* the lock and read it again.                                             *)

FieldCallVars == <<fldMarker, fldDecided, fldSnapshot, fldMapped, fldReport,
                   fldRun, fldTwice>>

CallGo(c, at) == fldCall' = [fldCall EXCEPT ![c].at = at]

(* request_cancel, up to the marker: refused once the job is terminal. *)
AskCancel(c) ==
    /\ fldCall[c] = NoCall /\ fldFile.status \notin FieldTerminal
    /\ fldMarker' = TRUE
    /\ fldCall' = [fldCall EXCEPT ![c] = [NoCall EXCEPT !.at = "publish",
                                          !.op = "cancel", !.doc = fldFile]]
    /\ UNCHANGED <<fldFile, fldDecided, fldSnapshot, fldMapped, fldReport, fldLock,
                   fldQueue, fldRun, fldBases, fldStale, fldTwice>>

(* mutation_lock: a second holder is answered 409; nothing else waits. *)
TakeMutationLock(c) ==
    /\ fldCall[c] = NoCall /\ ~fldLock
    /\ fldLock' = TRUE
    /\ \/ fldCall' = [fldCall EXCEPT ![c] = [NoCall EXCEPT !.at = "locked", !.op = "retry"]]
       \/ \E p \in FieldPages \ fldDecided, base \in 0 .. MaxFieldRevision - 1 :
             fldCall' = [fldCall EXCEPT ![c] = [NoCall EXCEPT !.at = "locked",
                                  !.op = "confirm", !.page = p, !.base = base]]
    /\ UNCHANGED <<fldFile, fldQueue, fldBases, fldStale>> /\ UNCHANGED FieldCallVars

(* Slip: any revision of a reported job may be confirmed. *)
SlipConfirm(c) ==
    /\ fldCall[c].at = "locked" /\ fldCall[c].op = "confirm"
    /\ IF fldFile.status \in Reported
       THEN /\ fldDecided' = fldDecided \cup {fldCall[c].page}
            /\ fldBases' = fldBases \cup {<<fldCall[c].base, fldCall[c].page>>}
            /\ fldCall' = [fldCall EXCEPT ![c].at = "publish", ![c].doc = fldFile]
            /\ UNCHANGED fldLock
       ELSE /\ fldLock' = FALSE /\ fldCall' = [fldCall EXCEPT ![c] = NoCall]
            /\ UNCHANGED <<fldDecided, fldBases>>
    /\ UNCHANGED <<fldFile, fldMarker, fldSnapshot, fldMapped, fldReport, fldQueue,
                   fldRun, fldStale, fldTwice>>

(* confirm: the page must be of the current revision of a reported job. *)
Confirm(c) ==
    /\ fldCall[c].at = "locked" /\ fldCall[c].op = "confirm"
    /\ IF fldFile.revision = fldCall[c].base /\ fldFile.status \in Reported
       THEN /\ fldDecided' = fldDecided \cup {fldCall[c].page}
            /\ fldBases' = fldBases \cup {<<fldCall[c].base, fldCall[c].page>>}
            /\ fldCall' = [fldCall EXCEPT ![c].at = "publish", ![c].doc = fldFile]
            /\ UNCHANGED fldLock
       ELSE /\ fldLock' = FALSE /\ fldCall' = [fldCall EXCEPT ![c] = NoCall]
            /\ UNCHANGED <<fldDecided, fldBases>>
    /\ UNCHANGED <<fldFile, fldMarker, fldSnapshot, fldMapped, fldReport, fldQueue,
                   fldRun, fldStale, fldTwice>>

(* retry: of a job that failed, was cancelled or waits for review; the     *)
(* marker of an earlier cancel is removed.                                 *)
Retry(c) ==
    /\ fldCall[c].at = "locked" /\ fldCall[c].op = "retry"
    /\ IF /\ fldFile.status \in {"failed", "cancelled", "manual_review"}
          /\ fldFile.revision < MaxFieldRevision
       THEN /\ fldMarker' = FALSE
            /\ fldCall' = [fldCall EXCEPT ![c].at = "publish", ![c].doc = fldFile]
            /\ UNCHANGED fldLock
       ELSE /\ fldLock' = FALSE /\ fldCall' = [fldCall EXCEPT ![c] = NoCall]
            /\ UNCHANGED fldMarker
    /\ UNCHANGED <<fldFile, fldDecided, fldSnapshot, fldMapped, fldReport, fldQueue,
                   fldRun, fldBases, fldStale, fldTwice>>

(* The write of a cancel leaves the status it read; that of a confirm or a *)
(* retry starts the next revision.                                         *)
NextRevision(doc) == [status |-> "queued", revision |-> doc.revision + 1, report |-> FALSE]

PublishCall(c) ==
    /\ fldCall[c].at = "publish"
    /\ LET doc == fldCall[c].doc
       IN  IF fldCall[c].op = "cancel"
           THEN WriteDoc(doc, doc) /\ fldCall' = [fldCall EXCEPT ![c] = NoCall]
           ELSE /\ WriteDoc(doc, NextRevision(doc))
                /\ fldCall' = [fldCall EXCEPT ![c].at = "dispatch",
                                              ![c].doc = NextRevision(doc)]
    /\ UNCHANGED <<fldLock, fldQueue, fldBases>> /\ UNCHANGED FieldCallVars

(* dispatch: the run is queued, or it is not, or it is and the answer of   *)
(* the queue is lost; without an answer the status becomes failed.         *)
Dispatch(c) ==
    /\ fldCall[c].at = "dispatch"
    /\ LET revision == fldCall[c].doc.revision
       IN  \/ fldQueue' = fldQueue \cup {revision} /\ CallGo(c, "unlock")
           \/ fldQueue' \in {fldQueue, fldQueue \cup {revision}} /\ CallGo(c, "refused")
    /\ UNCHANGED <<fldFile, fldLock, fldBases, fldStale>> /\ UNCHANGED FieldCallVars

DispatchFails(c) ==
    /\ fldCall[c].at = "refused"
    /\ WriteDoc(fldCall[c].doc, [fldCall[c].doc EXCEPT !.status = "failed"])
    /\ CallGo(c, "unlock")
    /\ UNCHANGED <<fldLock, fldQueue, fldBases>> /\ UNCHANGED FieldCallVars

UnlockMutation(c) ==
    /\ fldCall[c].at = "unlock"
    /\ fldLock' = FALSE
    /\ fldCall' = [fldCall EXCEPT ![c] = NoCall]
    /\ UNCHANGED <<fldFile, fldQueue, fldBases, fldStale>> /\ UNCHANGED FieldCallVars

-----------------------------------------------------------------------------
FieldInit ==
    /\ fldFile = NoRun.doc
    /\ fldMarker = FALSE
    /\ fldDecided = {}
    /\ fldSnapshot = 0 /\ fldMapped = 0
    /\ fldReport = NoReport
    /\ fldLock = FALSE
    /\ fldQueue = {0}
    /\ fldRun = [w \in FieldRuns |-> NoRun]
    /\ fldCall = [c \in FieldCalls |-> NoCall]
    /\ fldBases = {}
    /\ fldStale = FALSE /\ fldTwice = FALSE

FieldNext ==
    \/ \E w \in FieldRuns :
          \/ TakeRun(w) \/ RunReads(w) \/ RunWrites(w) \/ RunChecks(w)
          \/ ReadStandard(w) \/ LoadStandard(w) \/ SaveStandard(w) \/ MapFields(w)
          \/ ReadDecisions(w) \/ CompareFields(w) \/ WriteReport(w) \/ RunFails(w)
    \/ \E c \in FieldCalls :
          \/ AskCancel(c) \/ TakeMutationLock(c) \/ Confirm(c) \/ Retry(c)
          \/ PublishCall(c) \/ Dispatch(c) \/ DispatchFails(c) \/ UnlockMutation(c)

FieldSpec == FieldInit /\ [][FieldNext]_fldVars

-----------------------------------------------------------------------------
(* Properties.                                                             *)

(* A job that says it has a result has the report of its revision, with    *)
(* every decision confirmed so far and the standard of the snapshot, unless *)
(* a stale text was written or two runs were at work; and two pages that   *)
(* show the same revision cannot both confirm it, whatever runs and        *)
(* retries come in between: only the stale text of a cancel can bring an   *)
(* old revision number back.                                               *)
ReportIsCurrent ==
    /\ (fldFile.status \in Reported /\ ~fldStale /\ ~fldTwice
           /\ \A c \in FieldCalls : fldCall[c].at # "publish") =>
              fldReport = [revision |-> fldFile.revision, decided |-> fldDecided,
                           standard |-> fldSnapshot]
    /\ ~fldStale => \A a, b \in fldBases : a[1] = b[1] => a = b

=============================================================================
