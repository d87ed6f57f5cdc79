------------------------- MODULE WorkflowsProofs -------------------------
(***************************************************************************)
(* The field workflow and the algorithms the jobs run, for any workers,    *)
(* calls, pages, worksheets, rules and catalogs: their invariants and      *)
(* action properties, each from an inductive invariant of its own with a   *)
(* lemma for each action.                                                  *)
(***************************************************************************)
EXTENDS FieldJobs, Comparison, WorkbookHeaders, ProductTables, Rendering,
        FiniteSetTheorems, SequenceTheorems, WellFoundedInduction, TLAPS

-----------------------------------------------------------------------------
(* FieldJobs: the calls, the runs and the report of a reconciliation.      *)

FieldStatus == FieldTerminal \cup {"queued", "loading_standard", "reading_excel", "comparing"}
FieldText   == [status : FieldStatus, revision : Nat, report : BOOLEAN]
RunPlaces   == {"idle", "read", "write", "standard", "save standard", "mappings", "decisions",
                "compare", "report", "check standard", "check mappings", "check report"}
RunTargets  == {"none", "finish", "failed", "cancelled", "loading_standard", "reading_excel", "comparing"}
RunRecord   == [at : RunPlaces, to : RunTargets, standard : Nat, decided : SUBSET FieldPages,
                shown : Nat, doc : FieldText]
CallRecord  == [at : {"idle", "locked", "publish", "dispatch", "refused", "unlock"},
                op : {"none", "cancel", "retry", "confirm"}, page : FieldPages \cup {"none"},
                base : Nat, doc : FieldText]

FieldTypeOK ==
    /\ fldFile \in FieldText /\ fldMarker \in BOOLEAN
    /\ fldDecided \subseteq FieldPages
    /\ fldSnapshot \in Nat /\ fldMapped \in Nat
    /\ fldReport \in [revision : Int, decided : SUBSET FieldPages, standard : Nat]
    /\ fldLock \in BOOLEAN /\ fldQueue \subseteq Nat
    /\ fldRun \in [FieldRuns -> RunRecord]
    /\ fldCall \in [FieldCalls -> CallRecord]
    /\ fldBases \subseteq Nat \X FieldPages
    /\ fldStale \in BOOLEAN /\ fldTwice \in BOOLEAN

(* Who has the mutation lock. *)
Mutates(k) == \/ k.at \in {"locked", "dispatch", "refused", "unlock"}
              \/ k.at = "publish" /\ k.op # "cancel"
Publishes(k) == k.at = "publish" /\ k.op = "confirm"

(* One call at a time has the mutation lock, and it changes a job that has *)
(* ended.                                                                  *)
CallRule ==
    \A c \in FieldCalls :
        /\ Mutates(fldCall[c]) => fldLock /\ fldCall[c].op \in {"retry", "confirm"}
        /\ fldCall[c].at = "locked" /\ fldCall[c].op = "confirm" => fldCall[c].page \in FieldPages
        /\ fldCall[c].at = "publish" /\ fldCall[c].op # "cancel" => fldCall[c].doc.status \in FieldTerminal
        /\ fldCall[c].at \in {"dispatch", "refused"} => fldCall[c].doc.status = "queued"
        /\ \A d \in FieldCalls : Mutates(fldCall[c]) /\ Mutates(fldCall[d]) => c = d

(* The confirms that were accepted are of revisions gone by, or the last   *)
(* of them is still to be published.                                       *)
BaseRule ==
    ~fldStale =>
        /\ \A b \in fldBases : /\ b[1] <= fldFile.revision
                               /\ b[1] = fldFile.revision => \E c \in FieldCalls : Publishes(fldCall[c])
        /\ \A a, b \in fldBases : a[1] = b[1] => a = b

(* The parts of a run, by what it has behind it. *)
Writing(r, set) == r.at \in {"read", "write"} /\ r.to \in set
Started(r)  == r.at # "idle" /\ ~Writing(r, {"loading_standard"})
Standing(r) == \/ r.at \in {"check mappings", "mappings", "decisions", "compare", "check report", "report"}
               \/ Writing(r, {"reading_excel", "comparing", "finish"})
Deciding(r) == r.at \in {"compare", "check report", "report"} \/ Writing(r, {"comparing", "finish"})
Showing(r)  == r.at \in {"check report", "report"} \/ Writing(r, {"finish"})

Shown(report, file, decided, snapshot) ==
    report = [revision |-> file.revision, decided |-> decided, standard |-> snapshot]

(* While a run is under way it owns the status, and what it has read is    *)
(* what the job has: nothing was confirmed or loaded since.                *)
RunFits(r, file, decided, snapshot, report) ==
    /\ Started(r) => file.status \in {"loading_standard", "reading_excel", "comparing"}
    /\ Standing(r) => r.standard = snapshot
    /\ Deciding(r) => r.decided = decided
    /\ Showing(r) => r.shown = file.revision
    /\ Writing(r, {"finish"}) => Shown(report, file, decided, snapshot)

RunRule ==
    /\ \A w \in FieldRuns : fldRun[w].at \in {"read", "write"} => fldRun[w].to # "none"
    /\ ~fldTwice => \A v, w \in FieldRuns : fldRun[v] # NoRun /\ fldRun[w] # NoRun => v = w
    /\ ~fldStale /\ ~fldTwice =>
          \A w \in FieldRuns : RunFits(fldRun[w], fldFile, fldDecided, fldSnapshot, fldReport)

(* The report a status promises is the one of what the job has, unless a   *)
(* confirm is just being published.                                        *)
CurrentRule ==
    ~fldStale /\ ~fldTwice /\ fldFile.status \in Reported
        /\ (\A c \in FieldCalls : ~Publishes(fldCall[c]))
    => Shown(fldReport, fldFile, fldDecided, fldSnapshot)

FieldIInv == FieldTypeOK /\ CallRule /\ BaseRule /\ RunRule /\ CurrentRule

LEMMA FieldParts == FieldIInv => FieldTypeOK /\ CallRule /\ BaseRule /\ RunRule /\ CurrentRule
BY DEF FieldIInv

LEMMA FieldRecords ==
    /\ NoRun \in RunRecord /\ NoRun.at = "idle" /\ NoRun.doc \in FieldText
    /\ NoCall \in CallRecord /\ NoCall.at = "idle"
BY DEF NoRun, NoCall, RunRecord, CallRecord, RunPlaces, RunTargets, FieldText, FieldStatus

(* What is written, and that it is written over what was read or stale.    *)
LEMMA DocWritten ==
    ASSUME FieldTypeOK, NEW read, NEW doc, WriteDoc(read, doc)
    PROVE  /\ fldFile' = doc /\ fldStale' \in BOOLEAN /\ (fldStale => fldStale')
           /\ ~fldStale' => fldFile = read /\ ~fldStale
<1>1. fldFile' = doc
    BY DEF WriteDoc
<1>2. /\ fldStale' \in BOOLEAN /\ (fldStale => fldStale')
      /\ ~fldStale' => fldFile = read /\ ~fldStale
    BY Zenon DEF WriteDoc, FieldTypeOK
<1> QED BY <1>1, <1>2

(* What a run that has come so far has behind it.                          *)
LEMMA PlacesOrder ==
    ASSUME NEW r
    PROVE  /\ Standing(r) => Started(r)
           /\ Deciding(r) => Started(r) /\ Standing(r)
           /\ Showing(r) => Started(r) /\ Deciding(r)
           /\ Writing(r, {"finish"}) => Started(r)
           /\ r.at = "idle" => /\ ~Started(r)
                               /\ \A file, decided, snapshot, report : RunFits(r, file, decided, snapshot, report)
BY DEF Standing, Started, Deciding, Showing, Writing, RunFits

LEMMA FieldInitially == FieldInit => FieldIInv
<1> SUFFICES ASSUME FieldInit PROVE FieldIInv
    OBVIOUS
<1>1. /\ \A w \in FieldRuns : fldRun[w] = NoRun
      /\ \A c \in FieldCalls : fldCall[c] = NoCall
    BY DEF FieldInit
<1>2. FieldTypeOK
    <2>1. fldReport \in [revision : Int, decided : SUBSET FieldPages, standard : Nat]
        BY DEF FieldInit, NoReport
    <2>2. fldFile \in FieldText
        BY FieldRecords DEF FieldInit
    <2>3. fldRun \in [FieldRuns -> RunRecord] /\ fldCall \in [FieldCalls -> CallRecord]
        BY FieldRecords DEF FieldInit
    <2>4. fldBases \subseteq Nat \X FieldPages /\ fldQueue \subseteq Nat /\ fldDecided \subseteq FieldPages
        BY DEF FieldInit
    <2> QED BY <2>1, <2>2, <2>3, <2>4 DEF FieldInit, FieldTypeOK
<1>3. CallRule
    BY <1>1, FieldRecords DEF CallRule, Mutates
<1>4. BaseRule
    BY DEF FieldInit, BaseRule
<1>5. RunRule
    <2>1. \A w \in FieldRuns : fldRun[w].at = "idle"
        BY <1>1, FieldRecords
    <2>2. \A w \in FieldRuns : RunFits(fldRun[w], fldFile, fldDecided, fldSnapshot, fldReport)
        BY <2>1, PlacesOrder
    <2> QED BY <1>1, <2>1, <2>2 DEF RunRule
<1>6. CurrentRule
    BY DEF FieldInit, CurrentRule, NoRun, Reported
<1> QED BY <1>2, <1>3, <1>4, <1>5, <1>6 DEF FieldIInv

-----------------------------------------------------------------------------
LEMMA RunStep ==
    ASSUME FieldIInv, NEW w \in FieldRuns, NEW x \in RunRecord, fldRun' = [fldRun EXCEPT ![w] = x],
           UNCHANGED <<fldCall, fldLock, fldDecided, fldBases>>,
           fldFile' \in FieldText, fldMarker' \in BOOLEAN, fldSnapshot' \in Nat, fldMapped' \in Nat,
           fldReport' \in [revision : Int, decided : SUBSET FieldPages, standard : Nat],
           fldQueue' \subseteq Nat, fldStale' \in BOOLEAN, fldTwice' \in BOOLEAN,
           fldStale => fldStale', fldTwice => fldTwice',
           ~fldTwice' => \A v \in FieldRuns \ {w} : fldRun[v] = NoRun,
           ~fldStale' => fldFile'.revision = fldFile.revision,
           x.at \in {"read", "write"} => x.to # "none",
           ~fldStale' /\ ~fldTwice' => RunFits(x, fldFile', fldDecided', fldSnapshot', fldReport'),
           CurrentRule'
    PROVE  FieldIInv'
<1>0. FieldTypeOK /\ CallRule /\ BaseRule /\ RunRule
    BY FieldParts
<1>1. /\ fldRun' \in [FieldRuns -> RunRecord] /\ fldRun'[w] = x
      /\ \A v \in FieldRuns \ {w} : fldRun'[v] = fldRun[v]
    BY <1>0 DEF FieldTypeOK
<1>2. FieldTypeOK'
    BY <1>0, <1>1 DEF FieldTypeOK
<1>3. CallRule'
    BY <1>0 DEF CallRule
<1>4. BaseRule'
    BY <1>0 DEF BaseRule
<1>5. RunRule'
    <2>1. \A v \in FieldRuns : fldRun'[v].at \in {"read", "write"} => fldRun'[v].to # "none"
        BY <1>0, <1>1 DEF RunRule
    <2>2. ASSUME ~fldTwice' PROVE \A v \in FieldRuns : fldRun'[v] # NoRun => v = w
        BY <1>1, <2>2
    <2>3. ASSUME ~fldStale', ~fldTwice', NEW v \in FieldRuns
          PROVE  RunFits(fldRun'[v], fldFile', fldDecided', fldSnapshot', fldReport')
        <3>1. CASE v = w
            BY <1>1, <2>3, <3>1
        <3>2. CASE v # w
            <4>1. fldRun'[v].at = "idle"
                BY <1>1, <2>3, <3>2, FieldRecords
            <4> QED BY <4>1, PlacesOrder
        <3> QED BY <3>1, <3>2
    <2> QED BY <2>1, <2>2, <2>3 DEF RunRule
<1> QED BY <1>2, <1>3, <1>4, <1>5 DEF FieldIInv

LEMMA AloneAtWork ==
    ASSUME RunRule, NEW w \in FieldRuns, fldRun[w].at # "idle"
    PROVE  ~fldTwice => \A v \in FieldRuns \ {w} : fldRun[v] = NoRun
<1>1. fldRun[w] # NoRun
    BY FieldRecords
<1> QED BY <1>1 DEF RunRule

(* A step of a run that leaves the status alone.                           *)
LEMMA RunOn ==
    ASSUME FieldIInv, NEW w \in FieldRuns, NEW x \in RunRecord, fldRun' = [fldRun EXCEPT ![w] = x],
           UNCHANGED <<fldFile, fldMarker, fldQueue, fldCall, fldLock, fldDecided, fldBases, fldStale, fldTwice>>,
           fldSnapshot' \in Nat, fldMapped' \in Nat,
           fldReport' \in [revision : Int, decided : SUBSET FieldPages, standard : Nat],
           fldRun[w].at # "idle",
           x.at \in {"read", "write"} => x.to # "none",
           ~fldStale /\ ~fldTwice => RunFits(x, fldFile, fldDecided, fldSnapshot', fldReport'),
           UNCHANGED <<fldReport, fldSnapshot>> \/ Started(fldRun[w])
    PROVE  FieldIInv'
<1>0. FieldTypeOK /\ RunRule /\ CurrentRule
    BY FieldParts
<1>1. CurrentRule'
    <2>1. CASE UNCHANGED <<fldReport, fldSnapshot>>
        BY <1>0, <2>1 DEF CurrentRule
    <2>2. CASE Started(fldRun[w])
        <3>1. ~fldStale /\ ~fldTwice => fldFile.status \in {"loading_standard", "reading_excel", "comparing"}
            BY <1>0, <2>2 DEF RunRule, RunFits
        <3> QED BY <3>1 DEF CurrentRule, Reported
    <2> QED BY <2>1, <2>2
<1>2. fldFile' \in FieldText /\ fldMarker' \in BOOLEAN /\ fldQueue' \subseteq Nat
      /\ fldStale' \in BOOLEAN /\ fldTwice' \in BOOLEAN
    BY <1>0 DEF FieldTypeOK
<1>3. ~fldTwice' => \A v \in FieldRuns \ {w} : fldRun[v] = NoRun
    BY <1>0, AloneAtWork
<1>4. /\ ~fldStale' /\ ~fldTwice' => RunFits(x, fldFile', fldDecided', fldSnapshot', fldReport')
      /\ UNCHANGED <<fldCall, fldLock, fldDecided, fldBases>>
      /\ (fldStale => fldStale') /\ (fldTwice => fldTwice')
      /\ ~fldStale' => fldFile'.revision = fldFile.revision
    OBVIOUS
<1> QED BY <1>1, <1>2, <1>3, <1>4, RunStep

LEMMA RunFields ==
    ASSUME NEW r \in RunRecord, NEW at \in RunPlaces, NEW to \in RunTargets
    PROVE  /\ [r EXCEPT !.at = at] \in RunRecord
           /\ [r EXCEPT !.at = at, !.to = to] \in RunRecord
           /\ \A s \in Nat : [r EXCEPT !.standard = s, !.at = at] \in RunRecord
           /\ \A s \in Nat : [r EXCEPT !.shown = s, !.at = at] \in RunRecord
           /\ \A s \in Nat : [r EXCEPT !.standard = s, !.at = at, !.to = to] \in RunRecord
           /\ \A d \in SUBSET FieldPages : [r EXCEPT !.decided = d, !.at = at, !.to = to] \in RunRecord
           /\ \A doc \in FieldText : [r EXCEPT !.doc = doc, !.at = at] \in RunRecord
           /\ \A doc \in FieldText : [r EXCEPT !.at = at, !.doc = doc] \in RunRecord
BY DEF RunRecord

(* The facts about the run of a worker that most of its steps need.        *)
LEMMA RunThere ==
    ASSUME FieldIInv, NEW w \in FieldRuns
    PROVE  /\ FieldTypeOK /\ RunRule /\ CurrentRule /\ fldRun[w] \in RunRecord
           /\ ~fldStale /\ ~fldTwice => RunFits(fldRun[w], fldFile, fldDecided, fldSnapshot, fldReport)
           /\ fldSnapshot \in Nat /\ fldMapped \in Nat /\ fldDecided \in SUBSET FieldPages
           /\ fldReport \in [revision : Int, decided : SUBSET FieldPages, standard : Nat]
           /\ fldFile \in FieldText /\ fldFile.revision \in Nat
BY FieldParts DEF RunRule, FieldTypeOK, FieldText

LEMMA QuietRunSteps ==
    ASSUME FieldIInv, NEW w \in FieldRuns,
           RunReads(w) \/ RunChecks(w) \/ ReadStandard(w) \/ LoadStandard(w) \/ SaveStandard(w)
           \/ MapFields(w) \/ ReadDecisions(w) \/ CompareFields(w) \/ WriteReport(w) \/ RunFails(w)
    PROVE  FieldIInv'
<1> DEFINE r == fldRun[w]
<1>0. /\ FieldTypeOK /\ RunRule /\ r \in RunRecord
      /\ ~fldStale /\ ~fldTwice => RunFits(r, fldFile, fldDecided, fldSnapshot, fldReport)
      /\ fldSnapshot \in Nat /\ fldMapped \in Nat /\ fldDecided \in SUBSET FieldPages
      /\ fldReport \in [revision : Int, decided : SUBSET FieldPages, standard : Nat]
      /\ fldFile \in FieldText /\ fldFile.revision \in Nat
    BY RunThere
<1>a. /\ {"read", "write", "standard", "save standard", "mappings", "decisions", "compare", "report",
       "check standard", "check mappings", "check report"} \subseteq RunPlaces
      /\ {"cancelled", "failed", "reading_excel", "comparing", "finish"} \subseteq RunTargets
    BY DEF RunPlaces, RunTargets
<1>1. CASE RunReads(w)
    <2> DEFINE x == [r EXCEPT !.doc = fldFile, !.at = "write"]
    <2>1. r.at = "read" /\ fldRun' = [fldRun EXCEPT ![w] = x]
        BY <1>0, <1>1 DEF RunReads, RunAt, FieldTypeOK
    <2>2. UNCHANGED FieldRunVars
        BY <1>1 DEF RunReads
    <2>3. x \in RunRecord
        BY <1>0, <1>a, RunFields
    <2>4. x.at = "write" /\ x.to = r.to /\ x.standard = r.standard /\ x.decided = r.decided /\ x.shown = r.shown
        BY <1>0 DEF RunRecord
    <2>5. x.to # "none"
        BY <1>0, <2>1, <2>4 DEF RunRule
    <2> HIDE DEF x
    <2>6. ~fldStale /\ ~fldTwice => RunFits(x, fldFile, fldDecided, fldSnapshot, fldReport)
        BY <1>0, <2>1, <2>4 DEF RunFits, Started, Standing, Deciding, Showing, Writing
    <2> QED BY <1>0, <2>1, <2>2, <2>3, <2>5, <2>6, RunOn DEF FieldRunVars
<1>2. CASE RunChecks(w)
    <2>1. r.at \in {"check standard", "check mappings", "check report"} /\ UNCHANGED FieldRunVars
        BY <1>2 DEF RunChecks, AfterCheck
    <2>2. CASE fldMarker
        <3> DEFINE x == [r EXCEPT !.at = "read", !.to = "cancelled"]
        <3>1. fldRun' = [fldRun EXCEPT ![w] = x]
            BY <1>0, <1>2, <2>2 DEF RunChecks, RunStatus, FieldTypeOK
        <3>2. x \in RunRecord
            BY <1>0, <1>a, RunFields
        <3>3. x.at = "read" /\ x.to = "cancelled"
            BY <1>0 DEF RunRecord
        <3> HIDE DEF x
        <3>4. ~fldStale /\ ~fldTwice => RunFits(x, fldFile, fldDecided, fldSnapshot, fldReport)
            BY <1>0, <2>1, <3>3 DEF RunFits, Started, Standing, Deciding, Showing, Writing
        <3> QED BY <1>0, <2>1, <3>1, <3>2, <3>3, <3>4, RunOn DEF FieldRunVars
    <2>3. CASE ~fldMarker
        <3> DEFINE x == [r EXCEPT !.at = AfterCheck[r.at]]
        <3>1. fldRun' = [fldRun EXCEPT ![w] = x]
            BY <1>0, <1>2, <2>3 DEF RunChecks, RunGo, FieldTypeOK
        <3>2. \/ r.at = "check standard" /\ AfterCheck[r.at] = "standard"
              \/ r.at = "check mappings" /\ AfterCheck[r.at] = "mappings"
              \/ r.at = "check report" /\ AfterCheck[r.at] = "report"
            BY <2>1 DEF AfterCheck
        <3>3. x \in RunRecord
            BY <1>0, <1>a, <3>2, RunFields
        <3>4. x.at = AfterCheck[r.at] /\ x.to = r.to
              /\ x.standard = r.standard /\ x.decided = r.decided /\ x.shown = r.shown
            BY <1>0 DEF RunRecord
        <3> HIDE DEF x
        <3>5. ~fldStale /\ ~fldTwice => RunFits(x, fldFile, fldDecided, fldSnapshot, fldReport)
            BY <1>0, <3>2, <3>4 DEF RunFits, Started, Standing, Deciding, Showing, Writing
        <3>6. x.at \notin {"read", "write"}
            BY <3>2, <3>4
        <3> QED BY <1>0, <2>1, <3>1, <3>3, <3>5, <3>6, RunOn DEF FieldRunVars
    <2> QED BY <2>2, <2>3
<1>3. CASE ReadStandard(w)
    <2> DEFINE x == [r EXCEPT !.standard = fldSnapshot, !.at = "read", !.to = "reading_excel"]
    <2>1. r.at = "standard" /\ fldRun' = [fldRun EXCEPT ![w] = x]
        BY <1>0, <1>3 DEF ReadStandard, RunAt, RunGo, RunStatus, FieldTypeOK
    <2>2. UNCHANGED FieldRunVars
        BY <1>3 DEF ReadStandard, FieldRunVars
    <2>3. x \in RunRecord
        BY <1>0, <1>a, RunFields
    <2>4. x.at = "read" /\ x.to = "reading_excel" /\ x.standard = fldSnapshot
        BY <1>0 DEF RunRecord
    <2> HIDE DEF x
    <2>5. ~fldStale /\ ~fldTwice => RunFits(x, fldFile, fldDecided, fldSnapshot, fldReport)
        BY <1>0, <2>1, <2>4 DEF RunFits, Started, Standing, Deciding, Showing, Writing
    <2> QED BY <1>0, <2>1, <2>2, <2>3, <2>4, <2>5, RunOn DEF FieldRunVars
<1>4. CASE LoadStandard(w)
    <2>1. PICK s \in 1 .. MaxStandard : fldRun' = [fldRun EXCEPT ![w].standard = s, ![w].at = "save standard"]
        BY <1>4 DEF LoadStandard
    <2> DEFINE x == [r EXCEPT !.standard = s, !.at = "save standard"]
    <2>2. r.at = "standard" /\ fldRun' = [fldRun EXCEPT ![w] = x] /\ UNCHANGED FieldRunVars
        BY <1>0, <1>4, <2>1 DEF LoadStandard, RunAt, FieldTypeOK
    <2>s. s \in Nat
        BY FieldJobsAssumption
    <2>3. x \in RunRecord
        BY <1>0, <1>a, <2>s, RunFields
    <2>4. x.at = "save standard"
        BY <1>0 DEF RunRecord
    <2> HIDE DEF x
    <2>5. ~fldStale /\ ~fldTwice => RunFits(x, fldFile, fldDecided, fldSnapshot, fldReport)
        BY <1>0, <2>2, <2>4 DEF RunFits, Started, Standing, Deciding, Showing, Writing
    <2> QED BY <1>0, <2>2, <2>3, <2>4, <2>5, RunOn DEF FieldRunVars
<1>5. CASE SaveStandard(w)
    <2> DEFINE x == [r EXCEPT !.at = "read", !.to = "reading_excel"]
    <2>1. r.at = "save standard" /\ fldRun' = [fldRun EXCEPT ![w] = x] /\ fldSnapshot' = r.standard
        BY <1>0, <1>5 DEF SaveStandard, RunAt, RunStatus, FieldTypeOK
    <2>2. UNCHANGED <<fldFile, fldMarker, fldDecided, fldMapped, fldReport, fldLock,
                      fldQueue, fldCall, fldBases, fldStale, fldTwice>>
        BY <1>5 DEF SaveStandard
    <2>3. x \in RunRecord
        BY <1>0, <1>a, RunFields
    <2>4. x.at = "read" /\ x.to = "reading_excel" /\ x.standard = r.standard /\ r.standard \in Nat
        BY <1>0 DEF RunRecord
    <2> HIDE DEF x
    <2>5. ~fldStale /\ ~fldTwice => RunFits(x, fldFile, fldDecided, fldSnapshot', fldReport')
        BY <1>0, <2>1, <2>4 DEF RunFits, Started, Standing, Deciding, Showing, Writing
    <2>6. Started(r)
        BY <2>1 DEF Started, Writing
    <2> QED BY <1>0, <2>1, <2>2, <2>3, <2>4, <2>5, <2>6, RunOn
<1>6. CASE MapFields(w)
    <2> DEFINE x == [r EXCEPT !.at = "decisions"]
    <2>1. r.at = "mappings" /\ fldRun' = [fldRun EXCEPT ![w] = x]
        BY <1>0, <1>6 DEF MapFields, RunAt, RunGo, FieldTypeOK
    <2>2. UNCHANGED <<fldFile, fldMarker, fldDecided, fldSnapshot, fldReport, fldLock,
                      fldQueue, fldCall, fldBases, fldStale, fldTwice>>
        BY <1>6 DEF MapFields
    <2>3. x \in RunRecord
        BY <1>0, <1>a, RunFields
    <2>4. x.at = "decisions" /\ x.standard = r.standard /\ r.standard \in Nat
        BY <1>0 DEF RunRecord
    <2>5. fldMapped' \in Nat
        BY <1>0, <1>6, <2>4 DEF MapFields
    <2> HIDE DEF x
    <2>6. ~fldStale /\ ~fldTwice => RunFits(x, fldFile, fldDecided, fldSnapshot, fldReport)
        BY <1>0, <2>1, <2>4 DEF RunFits, Started, Standing, Deciding, Showing, Writing
    <2> QED BY <1>0, <2>1, <2>2, <2>3, <2>4, <2>5, <2>6, RunOn
<1>7. CASE ReadDecisions(w)
    <2> DEFINE x == [r EXCEPT !.decided = fldDecided, !.at = "read", !.to = "comparing"]
    <2>1. r.at = "decisions" /\ fldRun' = [fldRun EXCEPT ![w] = x]
        BY <1>0, <1>7 DEF ReadDecisions, RunAt, RunGo, RunStatus, FieldTypeOK
    <2>2. UNCHANGED FieldRunVars
        BY <1>7 DEF ReadDecisions, FieldRunVars
    <2>3. x \in RunRecord
        BY <1>0, <1>a, RunFields
    <2>4. x.at = "read" /\ x.to = "comparing" /\ x.standard = r.standard /\ x.decided = fldDecided
        BY <1>0 DEF RunRecord
    <2> HIDE DEF x
    <2>5. ~fldStale /\ ~fldTwice => RunFits(x, fldFile, fldDecided, fldSnapshot, fldReport)
        BY <1>0, <2>1, <2>4 DEF RunFits, Started, Standing, Deciding, Showing, Writing
    <2> QED BY <1>0, <2>1, <2>2, <2>3, <2>4, <2>5, RunOn DEF FieldRunVars
<1>8. CASE CompareFields(w)
    <2> DEFINE x == [r EXCEPT !.shown = fldFile.revision, !.at = "check report"]
    <2>1. r.at = "compare" /\ fldRun' = [fldRun EXCEPT ![w] = x]
        BY <1>0, <1>8 DEF CompareFields, RunAt, RunGo, RunStatus, FieldTypeOK
    <2>2. UNCHANGED FieldRunVars
        BY <1>8 DEF CompareFields, FieldRunVars
    <2>3. x \in RunRecord
        BY <1>0, <1>a, RunFields
    <2>4. x.at = "check report" /\ x.standard = r.standard /\ x.decided = r.decided /\ x.shown = fldFile.revision
        BY <1>0 DEF RunRecord
    <2> HIDE DEF x
    <2>5. ~fldStale /\ ~fldTwice => RunFits(x, fldFile, fldDecided, fldSnapshot, fldReport)
        BY <1>0, <2>1, <2>4 DEF RunFits, Started, Standing, Deciding, Showing, Writing
    <2> QED BY <1>0, <2>1, <2>2, <2>3, <2>4, <2>5, RunOn DEF FieldRunVars
<1>9. CASE WriteReport(w)
    <2> DEFINE x == [r EXCEPT !.at = "read", !.to = "finish"]
    <2>1. r.at = "report" /\ fldRun' = [fldRun EXCEPT ![w] = x]
          /\ fldReport' = [revision |-> r.shown, decided |-> r.decided, standard |-> r.standard]
        BY <1>0, <1>9 DEF WriteReport, RunAt, RunStatus, FieldTypeOK
    <2>2. UNCHANGED <<fldFile, fldMarker, fldDecided, fldSnapshot, fldMapped, fldLock,
                      fldQueue, fldCall, fldBases, fldStale, fldTwice>>
        BY <1>9 DEF WriteReport
    <2>3. x \in RunRecord
        BY <1>0, <1>a, RunFields
    <2>4. /\ x.at = "read" /\ x.to = "finish"
          /\ x.standard = r.standard /\ x.decided = r.decided /\ x.shown = r.shown
        BY <1>0 DEF RunRecord
    <2>5. fldReport' \in [revision : Int, decided : SUBSET FieldPages, standard : Nat]
        <3>1. r.shown \in Int /\ r.decided \in SUBSET FieldPages /\ r.standard \in Nat
            BY <1>0 DEF RunRecord
        <3> QED BY <2>1, <3>1
    <2> HIDE DEF x
    <2>6. ASSUME ~fldStale, ~fldTwice PROVE RunFits(x, fldFile, fldDecided, fldSnapshot, fldReport')
        <3>1. /\ fldFile.status \in {"loading_standard", "reading_excel", "comparing"}
              /\ r.standard = fldSnapshot /\ r.decided = fldDecided /\ r.shown = fldFile.revision
            BY <1>0, <2>1, <2>6 DEF RunFits, Started, Standing, Deciding, Showing, Writing
        <3>2. Shown(fldReport', fldFile, fldDecided, fldSnapshot)
            BY <2>1, <3>1 DEF Shown
        <3> QED BY <2>4, <3>1, <3>2 DEF RunFits
    <2>7. Started(r)
        BY <2>1 DEF Started, Writing
    <2> QED BY <1>0, <2>1, <2>2, <2>3, <2>4, <2>5, <2>6, <2>7, RunOn
<1>10. CASE RunFails(w)
    <2> DEFINE x == [r EXCEPT !.at = "read", !.to = "failed"]
    <2>1. /\ r.at \in {"standard", "mappings", "compare", "report"}
          /\ fldRun' = [fldRun EXCEPT ![w] = x] /\ UNCHANGED FieldRunVars
        BY <1>0, <1>10 DEF RunFails, RunStatus, FieldTypeOK
    <2>2. x \in RunRecord
        BY <1>0, <1>a, RunFields
    <2>3. x.at = "read" /\ x.to = "failed"
        BY <1>0 DEF RunRecord
    <2> HIDE DEF x
    <2>4. ~fldStale /\ ~fldTwice => RunFits(x, fldFile, fldDecided, fldSnapshot, fldReport)
        BY <1>0, <2>1, <2>3 DEF RunFits, Started, Standing, Deciding, Showing, Writing
    <2> QED BY <1>0, <2>1, <2>2, <2>3, <2>4, RunOn DEF FieldRunVars
<1> QED BY <1>1, <1>2, <1>3, <1>4, <1>5, <1>6, <1>7, <1>8, <1>9, <1>10

LEMMA TakeRunStep == ASSUME FieldIInv, NEW w \in FieldRuns, TakeRun(w) PROVE FieldIInv'
<1>0. FieldTypeOK /\ CurrentRule
    BY FieldParts
<1> DEFINE x == [NoRun EXCEPT !.at = "read", !.to = "loading_standard"]
<1>1. /\ fldRun' = [fldRun EXCEPT ![w] = x]
      /\ \E revision \in fldQueue : fldQueue' = fldQueue \ {revision}
      /\ UNCHANGED <<fldFile, fldMarker, fldDecided, fldSnapshot, fldMapped,
                     fldReport, fldLock, fldCall, fldBases, fldStale>>
    BY <1>0 DEF TakeRun, RunStatus, FieldTypeOK
<1>2. /\ fldTwice' \in BOOLEAN /\ (fldTwice => fldTwice')
      /\ ~fldTwice' => \A v \in FieldRuns : ~(fldRun[v] # NoRun)
    BY <1>0, Zenon DEF TakeRun, FieldTypeOK
<1>3. x \in RunRecord /\ x.at = "read" /\ x.to = "loading_standard"
    BY FieldRecords DEF RunRecord, RunPlaces, RunTargets
<1> HIDE DEF x
<1>4. RunFits(x, fldFile', fldDecided', fldSnapshot', fldReport')
    BY <1>3 DEF RunFits, Started, Standing, Deciding, Showing, Writing
<1>5. CurrentRule'
    BY <1>0, <1>1, <1>2 DEF CurrentRule
<1>6. /\ fldFile' \in FieldText /\ fldMarker' \in BOOLEAN /\ fldSnapshot' \in Nat /\ fldMapped' \in Nat
      /\ fldReport' \in [revision : Int, decided : SUBSET FieldPages, standard : Nat]
      /\ fldQueue' \subseteq Nat /\ fldStale' \in BOOLEAN
    BY <1>0, <1>1 DEF FieldTypeOK
<1> QED BY <1>1, <1>2, <1>3, <1>4, <1>5, <1>6, RunStep

LEMMA RunWritesStep == ASSUME FieldIInv, NEW w \in FieldRuns, RunWrites(w) PROVE FieldIInv'
<1> DEFINE r == fldRun[w]
<1>0. /\ FieldTypeOK /\ RunRule /\ r \in RunRecord
      /\ ~fldStale /\ ~fldTwice => RunFits(r, fldFile, fldDecided, fldSnapshot, fldReport)
    BY RunThere
<1>1. PICK status \in IF r.to = "finish" THEN Reported ELSE {r.to} :
         WriteDoc(r.doc, [r.doc EXCEPT !.status = status, !.report = @ \/ r.to = "finish"])
    BY DEF RunWrites
<1> DEFINE doc == [r.doc EXCEPT !.status = status, !.report = @ \/ r.to = "finish"]
           x == IF r.to \in DOMAIN AfterStatus
                THEN [r EXCEPT !.at = AfterStatus[r.to], !.doc = NoRun.doc] ELSE NoRun
<1>2. /\ r.at = "write" /\ fldRun' = [fldRun EXCEPT ![w] = x]
      /\ UNCHANGED <<fldMarker, fldDecided, fldSnapshot, fldMapped, fldReport,
                     fldLock, fldQueue, fldCall, fldBases, fldTwice>>
    BY DEF RunWrites, RunAt
<1>3. r.to # "none"
    BY <1>0, <1>2 DEF RunRule
<1>4. status \in FieldStatus /\ (status \in Reported => r.to = "finish")
    BY <1>0, <1>1, <1>3 DEF FieldStatus, FieldTerminal, Reported, RunRecord, RunTargets
<1>5. doc \in FieldText /\ doc.status = status /\ doc.revision = r.doc.revision
    BY <1>0, <1>4 DEF RunRecord, FieldText
<1> HIDE DEF doc
<1>6. /\ fldFile' = doc /\ fldStale' \in BOOLEAN /\ (fldStale => fldStale')
      /\ ~fldStale' => fldFile = r.doc /\ ~fldStale
    BY <1>0, <1>1, DocWritten DEF doc
<1>7. /\ x \in RunRecord
      /\ \/ x = NoRun
         \/ /\ \/ r.to = "loading_standard" /\ x.at = "check standard"
               \/ r.to = "reading_excel" /\ x.at = "check mappings"
               \/ r.to = "comparing" /\ x.at = "compare"
            /\ x.standard = r.standard /\ x.decided = r.decided
    <2>1. CASE r.to \notin DOMAIN AfterStatus
        BY <2>1, FieldRecords
    <2>2. CASE r.to \in DOMAIN AfterStatus
        <3>1. \/ r.to = "loading_standard" /\ AfterStatus[r.to] = "check standard"
              \/ r.to = "reading_excel" /\ AfterStatus[r.to] = "check mappings"
              \/ r.to = "comparing" /\ AfterStatus[r.to] = "compare"
            <4>1. DOMAIN AfterStatus = {"loading_standard", "reading_excel", "comparing"}
                BY DEF AfterStatus
            <4>2. /\ AfterStatus["loading_standard"] = "check standard"
                  /\ AfterStatus["reading_excel"] = "check mappings"
                  /\ AfterStatus["comparing"] = "compare"
                BY DEF AfterStatus
            <4> HIDE DEF x
            <4> QED BY <2>2, <4>1, <4>2, Zenon
        <3>2. AfterStatus[r.to] \in RunPlaces
            BY <3>1 DEF RunPlaces
        <3>3. ASSUME NEW at \in RunPlaces
              PROVE  LET y == [r EXCEPT !.at = at, !.doc = NoRun.doc]
                     IN  y \in RunRecord /\ y.at = at /\ y.standard = r.standard /\ y.decided = r.decided
            BY <1>0, FieldRecords DEF RunRecord
        <3> DEFINE y == [r EXCEPT !.at = AfterStatus[r.to], !.doc = NoRun.doc]
        <3>4. x = y
            BY <2>2
        <3>5. y \in RunRecord /\ y.at = AfterStatus[r.to] /\ y.standard = r.standard /\ y.decided = r.decided
            BY <3>2, <3>3
        <3> HIDE DEF x, y
        <3> QED BY <3>1, <3>4, <3>5
    <2> QED BY <2>1, <2>2
<1> HIDE DEF x
<1>8. ASSUME ~fldStale', ~fldTwice' PROVE RunFits(x, fldFile', fldDecided', fldSnapshot', fldReport')
    <2>1. CASE x = NoRun
        BY <2>1, FieldRecords, PlacesOrder
    <2>2. CASE x # NoRun
        <3>1. fldFile'.status = r.to
            BY <1>1, <1>5, <1>6, <1>7, <2>2
        <3>2. RunFits(r, fldFile, fldDecided, fldSnapshot, fldReport)
            BY <1>0, <1>2, <1>6, <1>8
        <3>3. /\ r.to \in {"reading_excel", "comparing"} => r.standard = fldSnapshot
              /\ r.to = "comparing" => r.decided = fldDecided
            BY <1>2, <3>2 DEF RunFits, Standing, Deciding, Writing
        <3> QED BY <1>2, <1>7, <2>2, <3>1, <3>3 DEF RunFits, Started, Standing, Deciding, Showing, Writing
    <2> QED BY <2>1, <2>2
<1>9. CurrentRule'
    <2> SUFFICES ASSUME ~fldStale', ~fldTwice', fldFile'.status \in Reported
                 PROVE  Shown(fldReport', fldFile', fldDecided', fldSnapshot')
        BY DEF CurrentRule
    <2>1. r.to = "finish"
        BY <1>4, <1>5, <1>6
    <2>2. Shown(fldReport, fldFile, fldDecided, fldSnapshot)
        BY <1>0, <1>2, <1>6, <2>1 DEF RunFits, Writing
    <2>3. fldFile'.revision = fldFile.revision
        BY <1>5, <1>6
    <2> QED BY <1>2, <2>2, <2>3 DEF Shown
<1>10. x.at \notin {"read", "write"}
    BY <1>7, FieldRecords
<1>11. ~fldTwice' => \A v \in FieldRuns \ {w} : fldRun[v] = NoRun
    BY <1>0, <1>2, AloneAtWork
<1>12. /\ fldFile' \in FieldText /\ fldMarker' \in BOOLEAN /\ fldSnapshot' \in Nat /\ fldMapped' \in Nat
       /\ fldReport' \in [revision : Int, decided : SUBSET FieldPages, standard : Nat]
       /\ fldQueue' \subseteq Nat /\ fldTwice' \in BOOLEAN
       /\ ~fldStale' => fldFile'.revision = fldFile.revision
    BY <1>0, <1>2, <1>5, <1>6 DEF FieldTypeOK
<1> HIDE DEF r
<1> QED BY <1>2, <1>6, <1>7, <1>8, <1>9, <1>10, <1>11, <1>12, RunStep

-----------------------------------------------------------------------------
(* A step of a request: the lock and who has it.                           *)
LEMMA CallStep ==
    ASSUME FieldIInv, NEW c \in FieldCalls, NEW x \in CallRecord, fldCall' = [fldCall EXCEPT ![c] = x],
           UNCHANGED <<fldRun, fldTwice, fldSnapshot, fldMapped, fldReport>>,
           fldFile' \in FieldText, fldMarker' \in BOOLEAN, fldDecided' \subseteq FieldPages,
           fldLock' \in BOOLEAN, fldQueue' \subseteq Nat, fldBases' \subseteq Nat \X FieldPages,
           fldStale' \in BOOLEAN,
           Mutates(x) => fldLock' /\ x.op \in {"retry", "confirm"},
           x.at = "locked" /\ x.op = "confirm" => x.page \in FieldPages,
           x.at = "publish" /\ x.op # "cancel" => x.doc.status \in FieldTerminal,
           x.at \in {"dispatch", "refused"} => x.doc.status = "queued",
           \/ Mutates(fldCall[c])
           \/ ~fldLock
           \/ fldLock' = fldLock /\ ~Mutates(x),
           BaseRule', CurrentRule',
           fldStale => fldStale',
           ~fldStale' /\ ~fldTwice =>
               \A w \in FieldRuns : RunFits(fldRun[w], fldFile', fldDecided', fldSnapshot, fldReport)
    PROVE  FieldIInv'
<1>0. FieldTypeOK /\ CallRule /\ RunRule
    BY FieldParts
<1>1. /\ fldCall' \in [FieldCalls -> CallRecord] /\ fldCall'[c] = x
      /\ \A d \in FieldCalls \ {c} : fldCall'[d] = fldCall[d]
    BY <1>0 DEF FieldTypeOK
<1>2. FieldTypeOK'
    BY <1>0, <1>1 DEF FieldTypeOK
<1>3. ASSUME NEW d \in FieldCalls, d # c, Mutates(fldCall[d])
      PROVE  ~Mutates(x) /\ fldLock' = fldLock
    <2>1. fldLock
        BY <1>0, <1>3 DEF CallRule
    <2>2. ~Mutates(fldCall[c])
        BY <1>0, <1>3 DEF CallRule
    <2> QED BY <2>1, <2>2
<1>4. CallRule'
    <2>1. ASSUME NEW d \in FieldCalls
          PROVE  /\ Mutates(fldCall'[d]) => fldLock' /\ fldCall'[d].op \in {"retry", "confirm"}
                 /\ fldCall'[d].at = "locked" /\ fldCall'[d].op = "confirm" => fldCall'[d].page \in FieldPages
                 /\ fldCall'[d].at = "publish" /\ fldCall'[d].op # "cancel" => fldCall'[d].doc.status \in FieldTerminal
                 /\ fldCall'[d].at \in {"dispatch", "refused"} => fldCall'[d].doc.status = "queued"
        <3>1. CASE d = c
            BY <1>1, <3>1
        <3>2. CASE d # c
            <4>1. fldCall'[d] = fldCall[d]
                BY <1>1, <3>2
            <4>2. Mutates(fldCall[d]) => fldLock /\ fldLock' = fldLock
                BY <1>0, <1>3, <3>2 DEF CallRule
            <4> QED BY <1>0, <4>1, <4>2 DEF CallRule
        <3> QED BY <3>1, <3>2
    <2>2. ASSUME NEW d \in FieldCalls, NEW e \in FieldCalls, Mutates(fldCall'[d]), Mutates(fldCall'[e])
          PROVE  d = e
        <3>1. CASE d # c /\ e # c
            BY <1>0, <1>1, <2>2, <3>1 DEF CallRule
        <3>2. CASE d = c /\ e # c
            BY <1>1, <1>3, <2>2, <3>2
        <3>3. CASE d # c /\ e = c
            BY <1>1, <1>3, <2>2, <3>3
        <3> QED BY <3>1, <3>2, <3>3
    <2> QED BY <2>1, <2>2 DEF CallRule, Mutates
<1>5. RunRule'
    <2>1. /\ \A w \in FieldRuns : fldRun'[w].at \in {"read", "write"} => fldRun'[w].to # "none"
          /\ ~fldTwice' => \A v, w \in FieldRuns : fldRun'[v] # NoRun /\ fldRun'[w] # NoRun => v = w
        BY <1>0 DEF RunRule
    <2>2. ASSUME ~fldStale', ~fldTwice', NEW w \in FieldRuns
          PROVE  RunFits(fldRun'[w], fldFile', fldDecided', fldSnapshot', fldReport')
        BY <2>2
    <2> QED BY <2>1, <2>2 DEF RunRule
<1> QED BY <1>2, <1>4, <1>5 DEF FieldIInv

LEMMA CallThere ==
    ASSUME FieldIInv, NEW c \in FieldCalls
    PROVE  /\ FieldTypeOK /\ CallRule /\ BaseRule /\ RunRule /\ CurrentRule /\ fldCall[c] \in CallRecord
           /\ fldFile \in FieldText /\ fldMarker \in BOOLEAN /\ fldDecided \subseteq FieldPages
           /\ fldLock \in BOOLEAN /\ fldQueue \subseteq Nat /\ fldBases \subseteq Nat \X FieldPages
           /\ fldStale \in BOOLEAN
           /\ ~fldStale /\ ~fldTwice =>
                 \A w \in FieldRuns : RunFits(fldRun[w], fldFile, fldDecided, fldSnapshot, fldReport)
BY FieldParts DEF FieldTypeOK, RunRule

(* A request that publishes no confirm and leaves status and decisions.    *)
LEMMA CallOn ==
    ASSUME FieldIInv, NEW c \in FieldCalls, NEW x \in CallRecord, fldCall' = [fldCall EXCEPT ![c] = x],
           UNCHANGED <<fldRun, fldTwice, fldSnapshot, fldMapped, fldReport, fldFile, fldDecided, fldBases>>,
           fldMarker' \in BOOLEAN, fldLock' \in BOOLEAN, fldQueue' \subseteq Nat, fldStale' \in BOOLEAN,
           fldStale => fldStale',
           ~Publishes(fldCall[c]),
           Mutates(x) => fldLock' /\ x.op \in {"retry", "confirm"},
           x.at = "locked" /\ x.op = "confirm" => x.page \in FieldPages,
           x.at = "publish" /\ x.op # "cancel" => x.doc.status \in FieldTerminal,
           x.at \in {"dispatch", "refused"} => x.doc.status = "queued",
           \/ Mutates(fldCall[c])
           \/ ~fldLock
           \/ fldLock' = fldLock /\ ~Mutates(x)
    PROVE  FieldIInv'
<1>0. /\ FieldTypeOK /\ BaseRule /\ CurrentRule
      /\ fldFile \in FieldText /\ fldDecided \subseteq FieldPages /\ fldBases \subseteq Nat \X FieldPages
      /\ ~fldStale /\ ~fldTwice =>
            \A w \in FieldRuns : RunFits(fldRun[w], fldFile, fldDecided, fldSnapshot, fldReport)
    BY CallThere
<1>1. \A d \in FieldCalls : Publishes(fldCall[d]) => Publishes(fldCall'[d])
    BY <1>0 DEF FieldTypeOK
<1>2. BaseRule'
    <2> SUFFICES ASSUME ~fldStale' PROVE BaseRule'
        BY DEF BaseRule
    <2>1. \A b \in fldBases : b[1] = fldFile.revision => \E d \in FieldCalls : Publishes(fldCall'[d])
        BY <1>0, <1>1 DEF BaseRule
    <2> QED BY <1>0, <2>1 DEF BaseRule, Publishes
<1>3. CurrentRule'
    <2> SUFFICES ASSUME ~fldStale', ~fldTwice', fldFile'.status \in Reported,
                        \A d \in FieldCalls : ~Publishes(fldCall'[d])
                 PROVE  Shown(fldReport', fldFile', fldDecided', fldSnapshot')
        BY DEF CurrentRule, Publishes
    <2>1. \A d \in FieldCalls : ~Publishes(fldCall[d])
        BY <1>1
    <2> QED BY <1>0, <2>1 DEF CurrentRule
<1>4. /\ fldFile' \in FieldText /\ fldDecided' \subseteq FieldPages /\ fldBases' \subseteq Nat \X FieldPages
      /\ ~fldStale' /\ ~fldTwice =>
            \A w \in FieldRuns : RunFits(fldRun[w], fldFile', fldDecided', fldSnapshot, fldReport)
    BY <1>0
<1> QED BY <1>2, <1>3, <1>4, CallStep

LEMMA QuietCallSteps ==
    ASSUME FieldIInv, NEW c \in FieldCalls,
           AskCancel(c) \/ TakeMutationLock(c) \/ Retry(c) \/ Dispatch(c) \/ UnlockMutation(c)
    PROVE  FieldIInv'
<1> DEFINE k == fldCall[c]
<1>0. /\ FieldTypeOK /\ CallRule /\ k \in CallRecord
      /\ fldFile \in FieldText /\ fldMarker \in BOOLEAN
      /\ fldLock \in BOOLEAN /\ fldQueue \subseteq Nat /\ fldStale \in BOOLEAN
    BY CallThere
<1>1. CASE AskCancel(c)
    <2> DEFINE x == [NoCall EXCEPT !.at = "publish", !.op = "cancel", !.doc = fldFile]
    <2>1. /\ k = NoCall /\ fldMarker' = TRUE /\ fldCall' = [fldCall EXCEPT ![c] = x]
          /\ UNCHANGED <<fldFile, fldDecided, fldSnapshot, fldMapped, fldReport, fldLock,
                         fldQueue, fldRun, fldBases, fldStale, fldTwice>>
        BY <1>1 DEF AskCancel
    <2>2. x \in CallRecord /\ x.at = "publish" /\ x.op = "cancel"
        BY <1>0, FieldRecords DEF CallRecord
    <2> HIDE DEF x
    <2>3. ~Mutates(x) /\ ~Publishes(k)
        BY <2>1, <2>2, FieldRecords DEF Mutates, Publishes
    <2> QED BY <1>0, <2>1, <2>2, <2>3, CallOn
<1>2. CASE TakeMutationLock(c)
    <2>1. PICK x : /\ fldCall' = [fldCall EXCEPT ![c] = x]
                   /\ \/ x = [NoCall EXCEPT !.at = "locked", !.op = "retry"]
                      \/ \E p \in FieldPages \ fldDecided, base \in 0 .. MaxFieldRevision - 1 :
                            x = [NoCall EXCEPT !.at = "locked", !.op = "confirm", !.page = p, !.base = base]
        BY <1>2 DEF TakeMutationLock
    <2>2. /\ k = NoCall /\ ~fldLock /\ fldLock' = TRUE
          /\ UNCHANGED <<fldFile, fldQueue, fldBases, fldStale, fldMarker, fldDecided, fldSnapshot, fldMapped,
                         fldReport, fldRun, fldTwice>>
        BY <1>2 DEF TakeMutationLock, FieldCallVars
    <2>3. x \in CallRecord /\ x.at = "locked" /\ x.op \in {"retry", "confirm"}
          /\ (x.op = "confirm" => x.page \in FieldPages)
        <3>1. CASE x = [NoCall EXCEPT !.at = "locked", !.op = "retry"]
            BY <3>1, FieldRecords DEF CallRecord
        <3>2. ASSUME NEW p \in FieldPages, NEW base \in 0 .. MaxFieldRevision - 1,
                     x = [NoCall EXCEPT !.at = "locked", !.op = "confirm", !.page = p, !.base = base]
              PROVE  x \in CallRecord /\ x.at = "locked" /\ x.op = "confirm" /\ x.page \in FieldPages
            <4>1. base \in Nat
                BY FieldJobsAssumption
            <4> QED BY <3>2, <4>1, FieldRecords DEF CallRecord
        <3> QED BY <2>1, <3>1, <3>2
    <2>4. ~Publishes(k)
        BY <2>2, FieldRecords DEF Publishes
    <2>5. /\ fldCall' = [fldCall EXCEPT ![c] = x]
          /\ ~(x.at = "publish") /\ x.at \notin {"dispatch", "refused"}
        BY <2>1, <2>3
    <2> QED BY <1>0, <2>2, <2>3, <2>4, <2>5, CallOn
<1>3. CASE Retry(c)
    <2>1. /\ k.at = "locked" /\ k.op = "retry"
          /\ UNCHANGED <<fldFile, fldDecided, fldSnapshot, fldMapped, fldReport, fldQueue,
                         fldRun, fldBases, fldStale, fldTwice>>
          /\ \/ /\ fldFile.status \in {"failed", "cancelled", "manual_review"}
                /\ fldMarker' = FALSE /\ fldLock' = fldLock
                /\ fldCall' = [fldCall EXCEPT ![c].at = "publish", ![c].doc = fldFile]
             \/ fldLock' = FALSE /\ fldMarker' = fldMarker /\ fldCall' = [fldCall EXCEPT ![c] = NoCall]
        BY <1>3 DEF Retry
    <2>2. Mutates(k) /\ ~Publishes(k)
        BY <2>1 DEF Mutates, Publishes
    <2>3. CASE fldCall' = [fldCall EXCEPT ![c] = NoCall] /\ fldLock' = FALSE /\ fldMarker' = fldMarker
        <3>1. ~Mutates(NoCall)
            BY FieldRecords DEF Mutates
        <3> QED BY <1>0, <2>1, <2>2, <2>3, <3>1, FieldRecords, CallOn
    <2>4. CASE /\ fldFile.status \in {"failed", "cancelled", "manual_review"}
               /\ fldMarker' = FALSE /\ fldLock' = fldLock
               /\ fldCall' = [fldCall EXCEPT ![c].at = "publish", ![c].doc = fldFile]
        <3> DEFINE x == [k EXCEPT !.at = "publish", !.doc = fldFile]
        <3>1. fldCall' = [fldCall EXCEPT ![c] = x]
            BY <1>0, <2>4 DEF FieldTypeOK
        <3>2. x \in CallRecord /\ x.at = "publish" /\ x.op = "retry" /\ x.doc = fldFile
            BY <1>0, <2>1 DEF CallRecord
        <3> HIDE DEF x
        <3>3. fldLock /\ fldFile.status \in FieldTerminal
            BY <1>0, <2>2, <2>4 DEF CallRule, FieldTerminal
        <3> QED BY <1>0, <2>1, <2>2, <2>4, <3>1, <3>2, <3>3, CallOn
    <2> QED BY <2>1, <2>3, <2>4
<1>4. CASE Dispatch(c)
    <2>1. /\ k.at = "dispatch" /\ fldQueue' \in {fldQueue, fldQueue \cup {k.doc.revision}}
          /\ UNCHANGED <<fldFile, fldLock, fldBases, fldStale, fldMarker, fldDecided, fldSnapshot, fldMapped,
                         fldReport, fldRun, fldTwice>>
        BY <1>4 DEF Dispatch, FieldCallVars
    <2>2. PICK at \in {"unlock", "refused"} : CallGo(c, at)
        BY <1>4 DEF Dispatch
    <2> DEFINE x == [k EXCEPT !.at = at]
    <2>3. fldCall' = [fldCall EXCEPT ![c] = x]
        BY <1>0, <2>2 DEF FieldTypeOK, CallGo
    <2>4. x \in CallRecord /\ x.at = at /\ x.op = k.op /\ x.doc = k.doc
        BY <1>0 DEF CallRecord
    <2> HIDE DEF x
    <2>5. fldQueue' \subseteq Nat
        BY <1>0, <2>1 DEF CallRecord, FieldText
    <2>6. Mutates(k) /\ ~Publishes(k)
        BY <2>1 DEF Mutates, Publishes
    <2>7. fldLock /\ k.op \in {"retry", "confirm"} /\ k.doc.status = "queued"
        BY <1>0, <2>1, <2>6 DEF CallRule
    <2> QED BY <1>0, <2>1, <2>3, <2>4, <2>5, <2>6, <2>7, CallOn
<1>5. CASE UnlockMutation(c)
    <2>1. /\ k.at = "unlock" /\ fldLock' = FALSE /\ fldCall' = [fldCall EXCEPT ![c] = NoCall]
          /\ UNCHANGED <<fldFile, fldQueue, fldBases, fldStale, fldMarker, fldDecided, fldSnapshot, fldMapped,
                         fldReport, fldRun, fldTwice>>
        BY <1>5 DEF UnlockMutation, FieldCallVars
    <2>2. Mutates(k) /\ ~Publishes(k) /\ ~Mutates(NoCall)
        BY <2>1, FieldRecords DEF Mutates, Publishes
    <2> QED BY <1>0, <2>1, <2>2, FieldRecords, CallOn
<1> QED BY <1>1, <1>2, <1>3, <1>4, <1>5

LEMMA ConfirmStep == ASSUME FieldIInv, NEW c \in FieldCalls, Confirm(c) PROVE FieldIInv'
<1> DEFINE k == fldCall[c]
<1>0. /\ FieldTypeOK /\ CallRule /\ BaseRule /\ k \in CallRecord
      /\ fldFile \in FieldText /\ fldMarker \in BOOLEAN /\ fldDecided \subseteq FieldPages
      /\ fldLock \in BOOLEAN /\ fldQueue \subseteq Nat /\ fldStale \in BOOLEAN
      /\ fldBases \subseteq Nat \X FieldPages
      /\ ~fldStale /\ ~fldTwice =>
            \A w \in FieldRuns : RunFits(fldRun[w], fldFile, fldDecided, fldSnapshot, fldReport)
    BY CallThere
<1>1. /\ k.at = "locked" /\ k.op = "confirm"
      /\ UNCHANGED <<fldFile, fldMarker, fldSnapshot, fldMapped, fldReport, fldQueue,
                     fldRun, fldStale, fldTwice>>
    BY DEF Confirm
<1>2. /\ Mutates(k) /\ ~Publishes(k) /\ fldLock /\ k.page \in FieldPages
      /\ \A d \in FieldCalls \ {c} : ~Publishes(fldCall[d])
    <2>1. Mutates(k) /\ ~Publishes(k)
        BY <1>1 DEF Mutates, Publishes
    <2>2. \A d \in FieldCalls : Publishes(fldCall[d]) => Mutates(fldCall[d])
        BY DEF Mutates, Publishes
    <2> QED BY <1>0, <1>1, <2>1, <2>2 DEF CallRule
<1>3. CASE ~(fldFile.revision = k.base /\ fldFile.status \in Reported)
    <2>1. /\ fldLock' = FALSE /\ fldCall' = [fldCall EXCEPT ![c] = NoCall]
          /\ UNCHANGED <<fldDecided, fldBases>>
        BY <1>3 DEF Confirm
    <2>2. ~Mutates(NoCall)
        BY FieldRecords DEF Mutates
    <2> QED BY <1>0, <1>1, <1>2, <2>1, <2>2, FieldRecords, CallOn
<1>4. CASE fldFile.revision = k.base /\ fldFile.status \in Reported
    <2> DEFINE x == [k EXCEPT !.at = "publish", !.doc = fldFile]
    <2>1. /\ fldDecided' = fldDecided \cup {k.page}
          /\ fldBases' = fldBases \cup {<<k.base, k.page>>}
          /\ fldCall' = [fldCall EXCEPT ![c] = x] /\ fldLock' = fldLock
        BY <1>0, <1>4 DEF Confirm, FieldTypeOK
    <2>2. x \in CallRecord /\ x.at = "publish" /\ x.op = "confirm" /\ x.doc = fldFile
        BY <1>0, <1>1 DEF CallRecord
    <2> HIDE DEF x
    <2>3. fldCall'[c] = x /\ Publishes(fldCall'[c])
        BY <1>0, <2>1, <2>2 DEF FieldTypeOK, Publishes
    <2>4. k.base \in Nat /\ fldDecided' \subseteq FieldPages /\ fldBases' \subseteq Nat \X FieldPages
        BY <1>0, <1>2, <2>1 DEF CallRecord
    <2>5. BaseRule'
        <3> SUFFICES ASSUME ~fldStale' PROVE BaseRule'
            BY DEF BaseRule
        <3>1. \A b \in fldBases : b[1] <= fldFile.revision /\ b[1] # fldFile.revision
            BY <1>0, <1>1, <1>2 DEF BaseRule
        <3>2. \A a, b \in fldBases : a[1] = b[1] => a = b
            BY <1>0, <1>1 DEF BaseRule
        <3> DEFINE n == <<k.base, k.page>>
        <3>3. n[1] = fldFile.revision
            BY <1>4
        <3>4. fldBases' = fldBases \cup {n}
            BY <2>1
        <3> HIDE DEF n
        <3>5. fldFile.revision <= fldFile.revision
            BY <1>4, <2>4
        <3>6. \A b \in fldBases' : b[1] <= fldFile.revision
            BY <3>1, <3>3, <3>4, <3>5
        <3>7. \A a, b \in fldBases' : a[1] = b[1] => a = b
            BY <3>1, <3>2, <3>3, <3>4
        <3>8. \E d \in FieldCalls : Publishes(fldCall[d])'
            BY <2>3 DEF Publishes
        <3> HIDE DEF k
        <3> QED BY <1>1, <3>6, <3>7, <3>8 DEF BaseRule
    <2>6. CurrentRule'
        BY <2>3 DEF CurrentRule, Publishes
    <2>7. ~fldStale' /\ ~fldTwice =>
              \A w \in FieldRuns : RunFits(fldRun[w], fldFile', fldDecided', fldSnapshot, fldReport)
        <3> SUFFICES ASSUME ~fldStale', ~fldTwice, NEW w \in FieldRuns
                     PROVE  RunFits(fldRun[w], fldFile', fldDecided', fldSnapshot, fldReport)
            OBVIOUS
        <3>1. RunFits(fldRun[w], fldFile, fldDecided, fldSnapshot, fldReport)
            BY <1>0, <1>1
        <3>2. ~Started(fldRun[w])
            BY <1>4, <3>1 DEF RunFits, Reported
        <3> QED BY <3>2, PlacesOrder DEF RunFits
    <2>8. fldFile.status \in FieldTerminal
        BY <1>4 DEF Reported, FieldTerminal
    <2> QED BY <1>0, <1>1, <1>2, <2>1, <2>2, <2>4, <2>5, <2>6, <2>7, <2>8, CallStep
<1> QED BY <1>3, <1>4

LEMMA PublishStep == ASSUME FieldIInv, NEW c \in FieldCalls, PublishCall(c) PROVE FieldIInv'
<1> DEFINE k == fldCall[c]
<1>0. /\ FieldTypeOK /\ CallRule /\ BaseRule /\ CurrentRule /\ k \in CallRecord /\ k.doc \in FieldText
      /\ fldFile \in FieldText /\ fldMarker \in BOOLEAN /\ fldDecided \subseteq FieldPages
      /\ fldLock \in BOOLEAN /\ fldQueue \subseteq Nat /\ fldStale \in BOOLEAN
      /\ fldBases \subseteq Nat \X FieldPages
      /\ ~fldStale /\ ~fldTwice =>
            \A w \in FieldRuns : RunFits(fldRun[w], fldFile, fldDecided, fldSnapshot, fldReport)
    BY CallThere DEF CallRecord
<1>1. k.at = "publish" /\ UNCHANGED <<fldLock, fldQueue, fldBases, fldMarker, fldDecided, fldSnapshot, fldMapped,
                                      fldReport, fldRun, fldTwice>>
    BY DEF PublishCall, FieldCallVars
<1>2. CASE k.op = "cancel"
    <2>1. WriteDoc(k.doc, k.doc) /\ fldCall' = [fldCall EXCEPT ![c] = NoCall]
        BY <1>2 DEF PublishCall
    <2>2. /\ fldFile' = k.doc /\ fldStale' \in BOOLEAN /\ (fldStale => fldStale')
          /\ ~fldStale' => fldFile = k.doc /\ ~fldStale
        BY <1>0, <2>1, DocWritten
    <2>3. ~Mutates(NoCall) /\ ~Publishes(k) /\ ~Publishes(NoCall)
        BY <1>2, FieldRecords DEF Mutates, Publishes
    <2>4. \A d \in FieldCalls : Publishes(fldCall'[d]) <=> Publishes(fldCall[d])
        BY <1>0, <2>1, <2>3 DEF FieldTypeOK
    <2>5. BaseRule'
        <3> SUFFICES ASSUME ~fldStale' PROVE BaseRule'
            BY DEF BaseRule
        <3>1. fldFile' = fldFile /\ ~fldStale
            BY <2>2
        <3>2. \A b \in fldBases : b[1] = fldFile.revision => \E d \in FieldCalls : Publishes(fldCall'[d])
            BY <1>0, <2>4, <3>1 DEF BaseRule
        <3> QED BY <1>0, <1>1, <3>1, <3>2 DEF BaseRule, Publishes
    <2>6. CurrentRule'
        <3> SUFFICES ASSUME ~fldStale', ~fldTwice', fldFile'.status \in Reported,
                            \A d \in FieldCalls : ~Publishes(fldCall'[d])
                     PROVE  Shown(fldReport', fldFile', fldDecided', fldSnapshot')
            BY DEF CurrentRule, Publishes
        <3>1. fldFile' = fldFile /\ ~fldStale /\ \A d \in FieldCalls : ~Publishes(fldCall[d])
            BY <2>2, <2>4
        <3> QED BY <1>0, <1>1, <3>1 DEF CurrentRule
    <2>7. ~fldStale' /\ ~fldTwice =>
              \A w \in FieldRuns : RunFits(fldRun[w], fldFile', fldDecided', fldSnapshot, fldReport)
        BY <1>0, <1>1, <2>2
    <2>8. ~Mutates(fldCall[c]) /\ fldLock' = fldLock
        BY <1>1, <1>2 DEF Mutates
    <2>9. fldFile' \in FieldText /\ fldMarker' \in BOOLEAN /\ fldDecided' \subseteq FieldPages
          /\ fldLock' \in BOOLEAN /\ fldQueue' \subseteq Nat /\ fldBases' \subseteq Nat \X FieldPages
        BY <1>0, <1>1, <2>2
    <2> QED BY <1>1, <2>1, <2>2, <2>3, <2>5, <2>6, <2>7, <2>8, <2>9, FieldRecords, CallStep
<1>3. CASE k.op # "cancel"
    <2> DEFINE doc == NextRevision(k.doc)
               x == [k EXCEPT !.at = "dispatch", !.doc = doc]
    <2>1. WriteDoc(k.doc, doc) /\ fldCall' = [fldCall EXCEPT ![c] = x]
        BY <1>0, <1>3 DEF PublishCall, FieldTypeOK
    <2>2. doc \in FieldText /\ doc.status = "queued" /\ doc.revision = k.doc.revision + 1
          /\ k.doc.revision \in Nat
        BY <1>0 DEF NextRevision, FieldText, FieldStatus
    <2> HIDE DEF doc
    <2>3. x \in CallRecord /\ x.at = "dispatch" /\ x.op = k.op /\ x.doc = doc
        BY <1>0, <2>2 DEF CallRecord
    <2> HIDE DEF x
    <2>4. /\ fldFile' = doc /\ fldStale' \in BOOLEAN /\ (fldStale => fldStale')
          /\ ~fldStale' => fldFile = k.doc /\ ~fldStale
        BY <1>0, <2>1, DocWritten
    <2>5. Mutates(k) /\ k.op \in {"retry", "confirm"} /\ fldLock /\ k.doc.status \in FieldTerminal
        <3>1. Mutates(k)
            BY <1>1, <1>3 DEF Mutates
        <3> QED BY <1>0, <1>1, <1>3, <3>1 DEF CallRule
    <2>6. BaseRule'
        <3> SUFFICES ASSUME ~fldStale' PROVE BaseRule'
            BY DEF BaseRule
        <3>1. \A b \in fldBases : b[1] \in Nat /\ b[1] <= k.doc.revision
            BY <1>0, <2>4 DEF BaseRule
        <3>2. \A b \in fldBases : b[1] <= doc.revision /\ b[1] # doc.revision
            BY <2>2, <3>1
        <3>3. \A a, b \in fldBases : a[1] = b[1] => a = b
            BY <1>0, <2>4 DEF BaseRule
        <3> HIDE DEF k
        <3> QED BY <1>1, <2>4, <3>2, <3>3 DEF BaseRule
    <2>7. CurrentRule'
        BY <2>2, <2>4 DEF CurrentRule, Reported
    <2>8. ~fldStale' /\ ~fldTwice =>
              \A w \in FieldRuns : RunFits(fldRun[w], fldFile', fldDecided', fldSnapshot, fldReport)
        <3> SUFFICES ASSUME ~fldStale', ~fldTwice, NEW w \in FieldRuns
                     PROVE  RunFits(fldRun[w], fldFile', fldDecided', fldSnapshot, fldReport)
            OBVIOUS
        <3>1. RunFits(fldRun[w], fldFile, fldDecided, fldSnapshot, fldReport)
            BY <1>0, <2>4
        <3>2. fldFile.status \in FieldTerminal
            BY <2>4, <2>5
        <3>3. ~Started(fldRun[w])
            BY <3>1, <3>2 DEF RunFits, FieldTerminal
        <3> QED BY <3>3, PlacesOrder DEF RunFits
    <2>9. fldFile' \in FieldText /\ fldMarker' \in BOOLEAN /\ fldDecided' \subseteq FieldPages
          /\ fldLock' = fldLock /\ fldLock' \in BOOLEAN /\ fldQueue' \subseteq Nat
          /\ fldBases' \subseteq Nat \X FieldPages
        BY <1>0, <1>1, <2>2, <2>4
    <2>10. /\ Mutates(x) => fldLock' /\ x.op \in {"retry", "confirm"}
           /\ x.at # "locked" /\ x.at # "publish" /\ x.doc.status = "queued"
        BY <2>2, <2>3, <2>5, <2>9
    <2>11. /\ UNCHANGED <<fldRun, fldTwice, fldSnapshot, fldMapped, fldReport>>
           /\ fldCall' = [fldCall EXCEPT ![c] = x] /\ x \in CallRecord
           /\ Mutates(fldCall[c]) /\ fldStale' \in BOOLEAN /\ (fldStale => fldStale')
        BY <1>1, <2>1, <2>3, <2>4, <2>5
    <2> HIDE DEF k
    <2> QED BY <2>6, <2>7, <2>8, <2>9, <2>10, <2>11, CallStep
<1> QED BY <1>2, <1>3

LEMMA RefusedStep == ASSUME FieldIInv, NEW c \in FieldCalls, DispatchFails(c) PROVE FieldIInv'
<1> DEFINE k == fldCall[c]
<1>0. /\ FieldTypeOK /\ CallRule /\ BaseRule /\ k \in CallRecord /\ k.doc \in FieldText
      /\ fldFile \in FieldText /\ fldMarker \in BOOLEAN /\ fldDecided \subseteq FieldPages
      /\ fldLock \in BOOLEAN /\ fldQueue \subseteq Nat /\ fldStale \in BOOLEAN
      /\ fldBases \subseteq Nat \X FieldPages
      /\ ~fldStale /\ ~fldTwice =>
            \A w \in FieldRuns : RunFits(fldRun[w], fldFile, fldDecided, fldSnapshot, fldReport)
    BY CallThere DEF CallRecord
<1> DEFINE doc == [k.doc EXCEPT !.status = "failed"]
           x == [k EXCEPT !.at = "unlock"]
<1>1. /\ k.at = "refused" /\ WriteDoc(k.doc, doc) /\ fldCall' = [fldCall EXCEPT ![c] = x]
      /\ UNCHANGED <<fldLock, fldQueue, fldBases, fldMarker, fldDecided, fldSnapshot, fldMapped,
                     fldReport, fldRun, fldTwice>>
    BY <1>0 DEF DispatchFails, FieldCallVars, CallGo, FieldTypeOK
<1>2. doc \in FieldText /\ doc.status = "failed" /\ doc.revision = k.doc.revision
    BY <1>0 DEF FieldText, FieldStatus, FieldTerminal
<1>3. x \in CallRecord /\ x.at = "unlock" /\ x.op = k.op
    BY <1>0 DEF CallRecord
<1> HIDE DEF doc, x
<1>4. /\ fldFile' = doc /\ fldStale' \in BOOLEAN /\ (fldStale => fldStale')
      /\ ~fldStale' => fldFile = k.doc /\ ~fldStale
    BY <1>0, <1>1, DocWritten
<1>5. /\ Mutates(k) /\ fldLock /\ k.op \in {"retry", "confirm"} /\ k.doc.status = "queued"
      /\ ~Publishes(k)
    <2>1. Mutates(k) /\ ~Publishes(k)
        BY <1>1 DEF Mutates, Publishes
    <2> QED BY <1>0, <1>1, <2>1 DEF CallRule
<1>6. \A d \in FieldCalls : Publishes(fldCall[d]) => Publishes(fldCall'[d])
    BY <1>0, <1>1, <1>5 DEF FieldTypeOK
<1>7. BaseRule'
    <2> SUFFICES ASSUME ~fldStale' PROVE BaseRule'
        BY DEF BaseRule
    <2>1. fldFile'.revision = fldFile.revision /\ ~fldStale
        BY <1>2, <1>4
    <2>2. \A b \in fldBases : b[1] = fldFile.revision => \E d \in FieldCalls : Publishes(fldCall'[d])
        BY <1>0, <1>6, <2>1 DEF BaseRule
    <2> QED BY <1>0, <1>1, <2>1, <2>2 DEF BaseRule, Publishes
<1>8. CurrentRule'
    BY <1>2, <1>4 DEF CurrentRule, Reported
<1>9. ~fldStale' /\ ~fldTwice =>
          \A w \in FieldRuns : RunFits(fldRun[w], fldFile', fldDecided', fldSnapshot, fldReport)
    <2> SUFFICES ASSUME ~fldStale', ~fldTwice, NEW w \in FieldRuns
                 PROVE  RunFits(fldRun[w], fldFile', fldDecided', fldSnapshot, fldReport)
        OBVIOUS
    <2>1. RunFits(fldRun[w], fldFile, fldDecided, fldSnapshot, fldReport)
        BY <1>0, <1>4
    <2>2. ~Started(fldRun[w])
        BY <1>4, <1>5, <2>1 DEF RunFits
    <2> QED BY <2>2, PlacesOrder DEF RunFits
<1>10. fldFile' \in FieldText /\ fldMarker' \in BOOLEAN /\ fldDecided' \subseteq FieldPages
       /\ fldLock' = fldLock /\ fldLock' \in BOOLEAN /\ fldQueue' \subseteq Nat
       /\ fldBases' \subseteq Nat \X FieldPages
    BY <1>0, <1>1, <1>2, <1>4
<1>11. /\ Mutates(x) => fldLock' /\ x.op \in {"retry", "confirm"}
       /\ x.at \notin {"locked", "publish", "dispatch", "refused"}
    BY <1>3, <1>5, <1>10
<1>12. /\ UNCHANGED <<fldRun, fldTwice, fldSnapshot, fldMapped, fldReport>>
       /\ fldCall' = [fldCall EXCEPT ![c] = x] /\ x \in CallRecord
       /\ Mutates(fldCall[c]) /\ fldStale' \in BOOLEAN /\ (fldStale => fldStale')
    BY <1>1, <1>3, <1>4, <1>5
<1> HIDE DEF k
<1> QED BY <1>7, <1>8, <1>9, <1>10, <1>11, <1>12, CallStep

LEMMA FieldKept == FieldIInv /\ [FieldNext]_fldVars => FieldIInv'
<1> SUFFICES ASSUME FieldIInv, [FieldNext]_fldVars PROVE FieldIInv'
    OBVIOUS
<1>1. CASE UNCHANGED fldVars
    <2>1. FieldTypeOK' /\ CallRule' /\ BaseRule' /\ RunRule' /\ CurrentRule'
        <3>0. FieldTypeOK /\ CallRule /\ BaseRule /\ RunRule /\ CurrentRule
            BY FieldParts
        <3>1. FieldTypeOK'
            BY <1>1, <3>0 DEF FieldTypeOK, fldVars
        <3>2. CallRule'
            BY <1>1, <3>0 DEF CallRule, fldVars
        <3>3. BaseRule'
            BY <1>1, <3>0 DEF BaseRule, fldVars
        <3>4. RunRule'
            BY <1>1, <3>0 DEF RunRule, fldVars
        <3>5. CurrentRule'
            BY <1>1, <3>0 DEF CurrentRule, fldVars
        <3> QED BY <3>1, <3>2, <3>3, <3>4, <3>5
    <2> QED BY <2>1 DEF FieldIInv
<1>2. ASSUME NEW w \in FieldRuns,
             \/ TakeRun(w) \/ RunReads(w) \/ RunWrites(w) \/ RunChecks(w)
             \/ ReadStandard(w) \/ LoadStandard(w) \/ SaveStandard(w) \/ MapFields(w)
             \/ ReadDecisions(w) \/ CompareFields(w) \/ WriteReport(w) \/ RunFails(w)
      PROVE  FieldIInv'
    BY <1>2, TakeRunStep, RunWritesStep, QuietRunSteps
<1>3. ASSUME NEW c \in FieldCalls,
             \/ AskCancel(c) \/ TakeMutationLock(c) \/ Confirm(c) \/ Retry(c)
             \/ PublishCall(c) \/ Dispatch(c) \/ DispatchFails(c) \/ UnlockMutation(c)
      PROVE  FieldIInv'
    BY <1>3, QuietCallSteps, ConfirmStep, PublishStep, RefusedStep
<1> QED BY <1>1, <1>2, <1>3 DEF FieldNext

LEMMA FieldInvariant == FieldSpec => []FieldIInv
BY FieldInitially, FieldKept, PTL DEF FieldSpec

(* As long as no stale status is written and no run is sent twice:         *)
(* whenever the status says that there is a result, the report file is the *)
(* one of this revision with all decisions, and one revision is confirmed  *)
(* by one page.                                                            *)
THEOREM ReportsAreCurrent == FieldSpec => []ReportIsCurrent
<1>1. FieldIInv => ReportIsCurrent
    <2> SUFFICES ASSUME FieldIInv PROVE ReportIsCurrent
        OBVIOUS
    <2>1. BaseRule /\ CurrentRule
        BY FieldParts
    <2>2. ASSUME fldFile.status \in Reported, ~fldStale, ~fldTwice, \A c \in FieldCalls : fldCall[c].at # "publish"
          PROVE  fldReport = [revision |-> fldFile.revision, decided |-> fldDecided, standard |-> fldSnapshot]
        <3>1. \A c \in FieldCalls : ~Publishes(fldCall[c])
            BY <2>2 DEF Publishes
        <3> QED BY <2>1, <2>2, <3>1 DEF CurrentRule, Shown
    <2> QED BY <2>1, <2>2 DEF BaseRule, ReportIsCurrent
<1> QED BY <1>1, FieldInvariant, PTL

(* A set of naturals has a least element, and a bounded one a greatest.    *)
LessOnNat == {p \in Nat \X Nat : p[1] < p[2]}

LEMMA LessOnNatWellFounded == IsWellFoundedOn(LessOnNat, Nat)
BY NatLessThanWellFounded DEF LessOnNat, OpToRel

LEMMA LeastOf ==
    ASSUME NEW T \in SUBSET Nat, T # {}
    PROVE  \E x \in T : \A y \in T : x <= y
<1>1. PICK x \in T : \A y \in T : <<y, x>> \notin LessOnNat
    BY LessOnNatWellFounded, WFMin
<1>2. \A y \in T : ~(y < x)
    BY <1>1 DEF LessOnNat
<1> QED BY <1>1, <1>2

LEMMA GreatestOf ==
    ASSUME NEW n \in Nat, NEW T \in SUBSET (1 .. n), T # {}
    PROVE  \E x \in T : \A y \in T : y <= x
<1> DEFINE U == {n - y : y \in T}
<1>1. U \in SUBSET Nat /\ U # {}
    <2>1. \A y \in T : n - y \in Nat
        OBVIOUS
    <2> QED BY <2>1
<1>2. PICK u \in U : \A v \in U : u <= v
    BY <1>1, LeastOf
<1>3. PICK x \in T : u = n - x
    BY <1>2
<1>4. ASSUME NEW y \in T PROVE y <= x
    <2>1. n - x <= n - y
        BY <1>2, <1>3
    <2> QED BY <2>1
<1> QED BY <1>4

-----------------------------------------------------------------------------
(* Comparison: the differences, and what is written for them.              *)

(* A strict order of a finite set numbers its elements from 1 on.          *)
Below(S, R, x) == {y \in S : <<y, x>> \in R}

LEMMA NumbersOfAnOrder ==
    ASSUME NEW S, IsFiniteSet(S), NEW R,
           \A x \in S : <<x, x>> \notin R,
           \A x \in S : \A y \in S : \A z \in S : <<x, y>> \in R /\ <<y, z>> \in R => <<x, z>> \in R,
           \A x \in S : \A y \in S : x # y => <<x, y>> \in R \/ <<y, x>> \in R
    PROVE  /\ Cardinality(S) \in Nat
           /\ \A x \in S : 1 + Cardinality(Below(S, R, x)) \in 1 .. Cardinality(S)
           /\ \A x \in S : \A y \in S :
                 Cardinality(Below(S, R, x)) = Cardinality(Below(S, R, y)) => x = y
           /\ \A n \in 1 .. Cardinality(S) : \E x \in S : 1 + Cardinality(Below(S, R, x)) = n
<1> DEFINE N    == Cardinality(S)
           B(x) == Below(S, R, x)
<1>1. N \in Nat
    BY FS_CardinalityType
<1>2. ASSUME NEW x \in S
      PROVE  /\ B(x) \in SUBSET S /\ x \notin B(x) /\ IsFiniteSet(B(x))
             /\ Cardinality(B(x)) \in Nat /\ Cardinality(B(x)) < N
    <2>1. B(x) \in SUBSET S /\ x \notin B(x)
        BY DEF Below
    <2>2. /\ IsFiniteSet(B(x)) /\ Cardinality(B(x)) <= N
          /\ N = Cardinality(B(x)) => S = B(x)
        BY <2>1, FS_Subset
    <2>3. Cardinality(B(x)) \in Nat
        BY <2>2, FS_CardinalityType
    <2>4. Cardinality(B(x)) # N
        BY <2>1, <2>2
    <2> HIDE DEF B, N
    <2>5. Cardinality(B(x)) < N
        BY <1>1, <2>2, <2>3, <2>4
    <2> QED BY <2>1, <2>2, <2>3, <2>5
<1>3. ASSUME NEW x \in S, NEW y \in S, <<x, y>> \in R
      PROVE  Cardinality(B(x)) < Cardinality(B(y))
    <2>1. B(x) \in SUBSET B(y) /\ x \in B(y) /\ x \notin B(x)
        BY <1>2, <1>3 DEF Below
    <2>2. IsFiniteSet(B(y)) /\ Cardinality(B(x)) \in Nat /\ Cardinality(B(y)) \in Nat
        BY <1>2
    <2> HIDE DEF B
    <2>3. /\ Cardinality(B(x)) <= Cardinality(B(y))
          /\ Cardinality(B(y)) = Cardinality(B(x)) => B(y) = B(x)
        BY <2>1, <2>2, FS_Subset
    <2>4. Cardinality(B(x)) # Cardinality(B(y))
        BY <2>1, <2>3
    <2> QED BY <2>2, <2>3, <2>4
<1>4. ASSUME NEW x \in S, NEW y \in S, Cardinality(B(x)) = Cardinality(B(y)) PROVE x = y
    <2>1. Cardinality(B(x)) \in Nat
        BY <1>2
    <2>2. ~(Cardinality(B(x)) < Cardinality(B(y))) /\ ~(Cardinality(B(y)) < Cardinality(B(x)))
        <3> HIDE DEF B
        <3> QED BY <1>4, <2>1
    <2>3. <<x, y>> \notin R /\ <<y, x>> \notin R
        BY <1>3, <2>2
    <2> QED BY <2>3
<1> DEFINE f == [x \in S |-> 1 + Cardinality(B(x))]
<1>5. f \in [S -> 1 .. N]
    <2>1. ASSUME NEW x \in S PROVE 1 + Cardinality(B(x)) \in 1 .. N
        <3>1. Cardinality(B(x)) \in Nat /\ Cardinality(B(x)) < N
            BY <1>2
        <3> HIDE DEF B, N
        <3> QED BY <1>1, <3>1
    <2> HIDE DEF B, N
    <2> QED BY <2>1
<1>6. f \in Injection(S, 1 .. N)
    <2>1. ASSUME NEW x \in S, NEW y \in S, f[x] = f[y] PROVE x = y
        <3>1. Cardinality(B(x)) \in Nat /\ Cardinality(B(y)) \in Nat
            BY <1>2
        <3>2. 1 + Cardinality(B(x)) = 1 + Cardinality(B(y))
            BY <2>1
        <3> HIDE DEF B, f
        <3>3. Cardinality(B(x)) = Cardinality(B(y))
            BY <3>1, <3>2
        <3> QED BY <1>4, <3>3
    <2> HIDE DEF f
    <2> QED BY <1>5, <2>1 DEF Injection, IsInjective
<1>7. IsFiniteSet(1 .. N) /\ Cardinality(1 .. N) = N
    <2> HIDE DEF N
    <2> QED BY <1>1, FS_Interval
<1>8. f \in Surjection(S, 1 .. N)
    <2> HIDE DEF f
    <2> QED BY <1>6, <1>7, FS_Injection
<1>9. ASSUME NEW n \in 1 .. N PROVE \E x \in S : 1 + Cardinality(B(x)) = n
    <2>1. PICK x \in S : f[x] = n
        BY <1>8 DEF Surjection
    <2> QED BY <2>1
<1> QED BY <1>1, <1>4, <1>5, <1>9

-----------------------------------------------------------------------------
(* The parts of an input, and its keys.                                    *)
LEMMA InputParts ==
    ASSUME NEW s \in SheetInputs
    PROVE  /\ s.mode \in {"fields", "row_number"}
           /\ s.onEmpty \in {"report_invalid", "skip_row", "use_row_number"}
           /\ s.append \in BOOLEAN /\ s.fill \in BOOLEAN /\ s.overwrite \in BOOLEAN /\ s.insert \in BOOLEAN
           /\ s.disk \in BOOLEAN /\ s.parts \in BOOLEAN /\ s.hidden \in BOOLEAN
           /\ s.rule \in [Fields -> ColumnRules] /\ s.when \in Nat /\ s.first \in Nat \ {0}
           /\ s.rows \in Seq(SheetRows) /\ s.std \in Seq(StandardRows) /\ s.columns \in SUBSET Fields
           /\ \A i \in DOMAIN s.rows : \A f \in Fields \ s.columns : s.rows[i].cell[f] = Blank
BY DEF SheetInputs

LEMMA InputRows ==
    ASSUME NEW s \in SheetInputs
    PROVE  /\ Len(s.rows) \in Nat /\ DOMAIN s.rows = 1 .. Len(s.rows)
           /\ Len(s.std) \in Nat /\ DOMAIN s.std = 1 .. Len(s.std)
           /\ \A i \in DOMAIN s.rows : s.rows[i] \in SheetRows
           /\ \A j \in DOMAIN s.std : s.std[j] \in StandardRows
           /\ LastRow(s) \in Nat /\ s.first \in Nat
<1>1. s.rows \in Seq(SheetRows) /\ s.std \in Seq(StandardRows) /\ s.first \in Nat \ {0}
    BY InputParts
<1>2. Len(s.rows) \in Nat /\ Len(s.std) \in Nat
    BY <1>1
<1>3. LastRow(s) \in Nat
    BY <1>1, <1>2 DEF LastRow
<1> QED BY <1>1, <1>2, <1>3

LEMMA RowCells ==
    ASSUME NEW r \in SheetRows, NEW f \in Fields
    PROVE  /\ r.cell[f] \in SheetCells /\ r.cached[f] \in SheetCells
           /\ r.cell \in [Fields -> SheetCells] /\ r.cached \in [Fields -> SheetCells]
           /\ r.hidden \in BOOLEAN /\ r.odd \in SUBSET Fields
BY DEF SheetRows

LEMMA StandardCells ==
    ASSUME NEW r \in StandardRows, NEW f \in Fields
    PROVE  /\ r.cell[f] \in SheetCells /\ r.cell \in [Fields -> SheetCells]
           /\ r.given \in SUBSET Fields /\ r.at \in Nat
BY DEF StandardRows

LEMMA CellParts ==
    ASSUME NEW c \in SheetCells
    PROVE  /\ c.tag \in {"blank", "word", "number", "formula"} /\ c.n \in Nat /\ c.form \in Nat
           /\ c = [tag |-> c.tag, n |-> c.n, form |-> c.form]
           /\ c.tag = "blank" <=> c = Blank
BY DEF SheetCells, Blank, Cell

Keys == [by : {"row", "fallback", "field", "none"}, n : Nat, form : Nat]

LEMMA KeyParts ==
    ASSUME NEW s \in SheetInputs, NEW id \in SheetCells, NEW n \in Nat, NEW m \in Nat
    PROVE  LET k == KeyOf(s, id, n, m) IN
           /\ k \in Keys
           /\ k = NoKey <=> k.by = "none"
           /\ k.by = "row" <=> s.mode = "row_number"
           /\ k.by = "field" <=> s.mode = "fields" /\ id.tag = "number"
           /\ k.by = "fallback" <=> s.mode = "fields" /\ id.tag # "number" /\ s.onEmpty = "use_row_number"
<1>1. s.mode \in {"fields", "row_number"} /\ id.n \in Nat /\ id.form \in Nat
    BY InputParts, CellParts
<1>2. CASE s.mode = "row_number"
    BY <1>2 DEF KeyOf, RowKey, NoKey, Keys
<1>3. CASE s.mode = "fields" /\ id.tag = "number"
    BY <1>1, <1>3 DEF KeyOf, FieldKey, NoKey, Keys
<1>4. CASE s.mode = "fields" /\ id.tag # "number" /\ s.onEmpty = "use_row_number"
    BY <1>4 DEF KeyOf, FallbackKey, NoKey, Keys
<1>5. CASE s.mode = "fields" /\ id.tag # "number" /\ s.onEmpty # "use_row_number"
    BY <1>5 DEF KeyOf, NoKey, Keys
<1> QED BY <1>1, <1>2, <1>3, <1>4, <1>5

LEMMA StandardKeyParts ==
    ASSUME NEW s \in SheetInputs, NEW j \in DOMAIN s.std
    PROVE  LET k == StandardKey(s, j) id == s.std[j].cell["id"] IN
           /\ k \in Keys
           /\ k = NoKey <=> k.by = "none"
           /\ k.by = "row" <=> s.mode = "row_number"
           /\ k.by = "field" <=> s.mode = "fields" /\ id.tag = "number"
           /\ k.by = "fallback" <=> s.mode = "fields" /\ id.tag # "number" /\ s.onEmpty = "use_row_number"
<1>1. s.std[j] \in StandardRows /\ j \in Nat /\ "id" \in Fields
    BY InputRows DEF Fields
<1>2. s.std[j].cell["id"] \in SheetCells /\ s.std[j].at \in Nat
    BY <1>1, StandardCells
<1> QED BY <1>1, <1>2, KeyParts DEF StandardKey

LEMMA ExcelKeyParts ==
    ASSUME NEW s \in SheetInputs, NEW i \in DOMAIN s.rows
    PROVE  LET k == ExcelKey(s, i) id == s.rows[i].cell["id"] IN
           /\ At(s, i) \in Nat /\ k \in Keys
           /\ k = NoKey <=> k.by = "none"
           /\ k.by = "row" <=> s.mode = "row_number"
           /\ k.by = "field" <=> s.mode = "fields" /\ id.tag = "number"
           /\ k.by = "fallback" <=> s.mode = "fields" /\ id.tag # "number" /\ s.onEmpty = "use_row_number"
<1>1. s.rows[i] \in SheetRows /\ i \in Nat \ {0} /\ s.first \in Nat /\ "id" \in Fields
    BY InputRows DEF Fields
<1>2. s.rows[i].cell["id"] \in SheetCells /\ At(s, i) \in Nat
    BY <1>1, RowCells DEF At
<1> QED BY <1>1, <1>2, KeyParts DEF ExcelKey

LEMMA TupleParts ==
    ASSUME NEW k \in Keys, NEW l \in Keys
    PROVE  /\ Tuple(k) = Tuple(l) <=> k.by = l.by /\ k.n = l.n
           /\ Text(k) = Text(l) <=> k.by = l.by /\ k.n = l.n /\ k.form = l.form
BY DEF Keys, Tuple, Text

(* The records of the standard in the order of their keys' text.           *)
LEMMA TextOrder ==
    ASSUME NEW a \in Nat, NEW b \in Nat, NEW c \in Nat
    PROVE  /\ ~TextBefore(a, a)
           /\ TextBefore(a, b) /\ TextBefore(b, c) => TextBefore(a, c)
           /\ TextBefore(a, b) => ~TextBefore(b, a)
           /\ a # b => TextBefore(a, b) \/ TextBefore(b, a)
BY DEF TextBefore

KeyBefore(a, b) ==
  IF a.by # b.by THEN a.by = "field" ELSE IF a.n # b.n THEN TextBefore(a.n, b.n) ELSE a.form < b.form

LEMMA KeyOrder ==
    ASSUME NEW S, S \subseteq Keys, \A k \in S : k.by # "none",
           \A k \in S : \A l \in S : k.by = "row" <=> l.by = "row"
    PROVE  /\ \A a \in S : ~KeyBefore(a, a)
           /\ \A a \in S : \A b \in S : \A c \in S : KeyBefore(a, b) /\ KeyBefore(b, c) => KeyBefore(a, c)
           /\ \A a \in S : \A b \in S : a # b => KeyBefore(a, b) \/ KeyBefore(b, a)
<1>1. \A a \in S : /\ a.by \in {"row", "fallback", "field"} /\ a.n \in Nat /\ a.form \in Nat
                   /\ a = [by |-> a.by, n |-> a.n, form |-> a.form]
    BY DEF Keys
<1>2. ASSUME NEW a \in S PROVE ~KeyBefore(a, a)
    BY <1>1 DEF KeyBefore
<1>3. ASSUME NEW a \in S, NEW b \in S, NEW c \in S, KeyBefore(a, b), KeyBefore(b, c)
      PROVE  KeyBefore(a, c)
    <2>1. TextBefore(a.n, b.n) /\ TextBefore(b.n, c.n) => TextBefore(a.n, c.n)
        BY <1>1, TextOrder
    <2>2. TextBefore(a.n, b.n) => ~TextBefore(b.n, a.n)
        BY <1>1, TextOrder
    <2>3. CASE a.by = b.by /\ b.by = c.by
        <3>1. CASE a.n = b.n /\ b.n = c.n
            BY <1>1, <1>3, <2>3, <3>1 DEF KeyBefore
        <3>2. CASE a.n # b.n /\ b.n = c.n
            BY <1>3, <2>3, <3>2 DEF KeyBefore
        <3>3. CASE a.n = b.n /\ b.n # c.n
            BY <1>3, <2>3, <3>3 DEF KeyBefore
        <3>4. CASE a.n # b.n /\ b.n # c.n
            <4>1. TextBefore(a.n, b.n) /\ TextBefore(b.n, c.n)
                BY <1>3, <2>3, <3>4 DEF KeyBefore
            <4>2. a.n # c.n
                BY <2>2, <4>1
            <4> QED BY <2>1, <2>3, <4>1, <4>2 DEF KeyBefore
        <3> QED BY <3>1, <3>2, <3>3, <3>4
    <2>4. CASE a.by # b.by \/ b.by # c.by
        BY <1>1, <1>3, <2>4 DEF KeyBefore
    <2> QED BY <2>3, <2>4
<1>4. ASSUME NEW a \in S, NEW b \in S, a # b PROVE KeyBefore(a, b) \/ KeyBefore(b, a)
    <2>1. CASE a.by # b.by
        BY <1>1, <2>1 DEF KeyBefore
    <2>2. CASE a.by = b.by /\ a.n # b.n
        BY <1>1, <2>2, TextOrder DEF KeyBefore
    <2>3. CASE a.by = b.by /\ a.n = b.n
        <3>1. a.form # b.form
            BY <1>1, <1>4, <2>3
        <3> QED BY <1>1, <2>3, <3>1 DEF KeyBefore
    <2> QED BY <2>1, <2>2, <2>3
<1> QED BY <1>2, <1>3, <1>4

-----------------------------------------------------------------------------
(* What StandardDataValidator lets through has one record for each key.    *)
LEMMA AcceptedKeys ==
    ASSUME NEW s \in SheetInputs, Accepted(s)
    PROVE  /\ StandardRecords(s) = Kept(s) /\ StandardDuplicates(s) = {}
           /\ DOMAIN s.std \ StandardRecords(s) = {j \in DOMAIN s.std : Skipped(s, j)}
           /\ \A j \in Kept(s) : j \in DOMAIN s.std /\ StandardKey(s, j) # NoKey /\ StandardKey(s, j) \in Keys
           /\ \A j \in Kept(s) : \A l \in Kept(s) :
                 Tuple(StandardKey(s, j)) = Tuple(StandardKey(s, l)) => j = l
<1>1. /\ \A j \in DOMAIN s.std : StandardKey(s, j) = NoKey => s.onEmpty = "skip_row"
      /\ \A j, l \in DOMAIN s.std :
            j # l /\ StandardKey(s, j) # NoKey => Tuple(StandardKey(s, j)) # Tuple(StandardKey(s, l))
    BY DEF Accepted, KeysRight
<1>2. \A j \in DOMAIN s.std : StandardKey(s, j) \in Keys
    BY StandardKeyParts
<1>3. ASSUME NEW j \in DOMAIN s.std
      PROVE  StandardKey(s, j) = NoKey <=> Skipped(s, j)
    <2> DEFINE k == StandardKey(s, j)
    <2>1. /\ k \in Keys /\ (k = NoKey <=> k.by = "none") /\ (k.by = "row" <=> s.mode = "row_number")
          /\ k.by = "field" <=> s.mode = "fields" /\ s.std[j].cell["id"].tag = "number"
          /\ k.by = "fallback" <=> /\ s.mode = "fields" /\ s.std[j].cell["id"].tag # "number"
                                   /\ s.onEmpty = "use_row_number"
        BY StandardKeyParts
    <2>2. k.by \in {"row", "fallback", "field", "none"} /\ s.mode \in {"fields", "row_number"}
        BY <2>1, InputParts DEF Keys
    <2>3. k = NoKey => s.onEmpty = "skip_row"
        BY <1>1
    <2> HIDE DEF k
    <2>4. k = NoKey <=> Skipped(s, j)
        BY <2>1, <2>2, <2>3 DEF Skipped
    <2> QED BY <2>4 DEF k
<1>4. ASSUME NEW j \in DOMAIN s.std, NEW l \in DOMAIN s.std, j # l, StandardKey(s, j) # NoKey
      PROVE  Stored(s, StandardKey(s, l)) # Stored(s, StandardKey(s, j))
    <2>1. Tuple(StandardKey(s, j)) # Tuple(StandardKey(s, l))
        BY <1>1, <1>4
    <2>2. Text(StandardKey(s, j)) # Text(StandardKey(s, l))
        BY <2>1 DEF Text
    <2> QED BY <2>1, <2>2 DEF Stored
<1>5. StandardRecords(s) = {j \in DOMAIN s.std : StandardKey(s, j) # NoKey}
    BY <1>4 DEF StandardRecords
<1>6. Kept(s) = {j \in DOMAIN s.std : StandardKey(s, j) # NoKey}
    BY <1>3 DEF Kept
<1>7. StandardDuplicates(s) = {}
    BY <1>5 DEF StandardDuplicates
<1>8. DOMAIN s.std \ StandardRecords(s) = {j \in DOMAIN s.std : Skipped(s, j)}
    BY <1>3, <1>5
<1>9. \A j \in Kept(s) : j \in DOMAIN s.std /\ StandardKey(s, j) # NoKey /\ StandardKey(s, j) \in Keys
    BY <1>2, <1>6
<1>10. \A j \in Kept(s) : \A l \in Kept(s) : Tuple(StandardKey(s, j)) = Tuple(StandardKey(s, l)) => j = l
    BY <1>1, <1>9
<1> QED BY <1>5, <1>6, <1>7, <1>8, <1>9, <1>10

LEMMA StandardOnlyFits ==
    ASSUME NEW s \in SheetInputs, Accepted(s)
    PROVE  /\ StandardOnly(s) \subseteq Kept(s) /\ StandardOnly(s) \subseteq DOMAIN s.std
           /\ IsFiniteSet(StandardOnly(s))
<1>1. StandardOnly(s) \subseteq Kept(s) /\ StandardOnly(s) \subseteq DOMAIN s.std
    BY AcceptedKeys DEF StandardOnly, StandardRecords
<1>2. IsFiniteSet(DOMAIN s.std)
    BY InputRows, FS_Interval
<1> QED BY <1>1, <1>2, FS_Subset

LEMMA Turns ==
    ASSUME NEW s \in SheetInputs, Accepted(s), NEW only, only = StandardOnly(s)
    PROVE  /\ Cardinality(only) \in Nat
           /\ \A j \in only : Turn(s, only, j) \in 1 .. Cardinality(only) /\ AtTurn(s, only, Turn(s, only, j)) = j
           /\ \A n \in 1 .. Cardinality(only) : AtTurn(s, only, n) \in only /\ Turn(s, only, AtTurn(s, only, n)) = n
<1> DEFINE R == {p \in only \X only : Before(s, p[1], p[2])}
           K == {StandardKey(s, j) : j \in only}
<1>1. /\ \A j \in only : j \in DOMAIN s.std /\ StandardKey(s, j) # NoKey /\ StandardKey(s, j) \in Keys
      /\ \A j \in only : \A l \in only : Tuple(StandardKey(s, j)) = Tuple(StandardKey(s, l)) => j = l
    BY AcceptedKeys, StandardOnlyFits
<1>2. /\ K \subseteq Keys /\ \A k \in K : k.by # "none"
      /\ \A k \in K : \A l \in K : k.by = "row" <=> l.by = "row"
    BY <1>1, StandardKeyParts
<1>3. \A j \in only : \A l \in only : Before(s, j, l) <=> KeyBefore(StandardKey(s, j), StandardKey(s, l))
    BY DEF Before, KeyBefore
<1> HIDE DEF K
<1>4. /\ \A a \in K : ~KeyBefore(a, a)
      /\ \A a \in K : \A b \in K : \A c \in K : KeyBefore(a, b) /\ KeyBefore(b, c) => KeyBefore(a, c)
      /\ \A a \in K : \A b \in K : a # b => KeyBefore(a, b) \/ KeyBefore(b, a)
    BY <1>2, KeyOrder
<1>5. \A j \in only : StandardKey(s, j) \in K
    BY DEF K
<1>6. \A j \in only : \A l \in only : j # l => StandardKey(s, j) # StandardKey(s, l)
    BY <1>1
<1>7. \A j \in only : <<j, j>> \notin R
    BY <1>3, <1>4, <1>5
<1>8. \A x \in only : \A y \in only : \A z \in only : <<x, y>> \in R /\ <<y, z>> \in R => <<x, z>> \in R
    BY <1>3, <1>4, <1>5
<1>9. \A x \in only : \A y \in only : x # y => <<x, y>> \in R \/ <<y, x>> \in R
    BY <1>3, <1>4, <1>5, <1>6
<1>10. IsFiniteSet(only)
    BY StandardOnlyFits
<1>11. ASSUME NEW j \in only PROVE Turn(s, only, j) = 1 + Cardinality(Below(only, R, j))
    <2>1. {l \in only : Before(s, l, j)} = Below(only, R, j)
        BY DEF Below
    <2> QED BY <2>1 DEF Turn
<1> HIDE DEF R
<1> DEFINE N == Cardinality(only)
<1>12. /\ N \in Nat
       /\ \A x \in only : 1 + Cardinality(Below(only, R, x)) \in 1 .. N
       /\ \A x \in only : \A y \in only :
             Cardinality(Below(only, R, x)) = Cardinality(Below(only, R, y)) => x = y
       /\ \A n \in 1 .. N : \E x \in only : 1 + Cardinality(Below(only, R, x)) = n
    BY <1>7, <1>8, <1>9, <1>10, NumbersOfAnOrder
<1>13. ASSUME NEW j \in only PROVE Cardinality(Below(only, R, j)) \in Nat
    <2>1. IsFiniteSet(Below(only, R, j))
        BY <1>10, FS_Subset DEF Below
    <2> QED BY <2>1, FS_CardinalityType
<1> HIDE DEF N
<1>14. ASSUME NEW j \in only, NEW l \in only, Turn(s, only, j) = Turn(s, only, l) PROVE j = l
    <2>1. Cardinality(Below(only, R, j)) = Cardinality(Below(only, R, l))
        BY <1>11, <1>13, <1>14
    <2> QED BY <1>12, <2>1
<1>15. \A j \in only : AtTurn(s, only, Turn(s, only, j)) = j
    BY <1>14 DEF AtTurn
<1>16. ASSUME NEW n \in 1 .. N PROVE AtTurn(s, only, n) \in only /\ Turn(s, only, AtTurn(s, only, n)) = n
    <2>1. \E x \in only : Turn(s, only, x) = n
        BY <1>11, <1>12
    <2> QED BY <2>1 DEF AtTurn
<1>17. \A j \in only : Turn(s, only, j) \in 1 .. N
    BY <1>11, <1>12
<1> QED BY <1>12, <1>15, <1>16, <1>17 DEF N

(* Rows are taken one after the other: turn n takes the row it finds free, *)
(* unless it is barred from it.                                            *)
NextFree(h, Bad, n) == h[n - 1] + IF <<n, h[n - 1]>> \in Bad THEN 0 ELSE 1
Stairs(h, N, start, Bad) == h = [n \in 0 .. N |-> IF n = 0 THEN start ELSE NextFree(h, Bad, n)]
Taken(h, N, Bad) == {n \in 1 .. N : <<n, h[n - 1]>> \notin Bad}

LEMMA StairsExist ==
    ASSUME NEW N \in Nat, NEW start \in Nat, NEW Bad
    PROVE  \E h \in [0 .. N -> Nat] : Stairs(h, N, start, Bad)
<1> DEFINE Good(m, h) == /\ h[0] = start
                         /\ \A n \in 1 .. m : h[n] = NextFree(h, Bad, n)
           T == {m \in 0 .. N : ~\E h \in [0 .. m -> Nat] : Good(m, h)}
<1>1. T = {}
    <2> SUFFICES ASSUME T # {} PROVE FALSE
        OBVIOUS
    <2>1. PICK m \in T : \A k \in T : m <= k
        <3>1. T \in SUBSET Nat /\ T # {}
            OBVIOUS
        <3> HIDE DEF T
        <3> QED BY <3>1, LeastOf
    <2>2. m \in 0 .. N /\ ~\E h \in [0 .. m -> Nat] : Good(m, h)
        BY <2>1
    <2>3. CASE m = 0
        <3> DEFINE h == [n \in 0 .. 0 |-> start]
        <3>1. h \in [0 .. m -> Nat] /\ h[0] = start
            BY <2>3
        <3>2. Good(m, h)
            BY <2>3, <3>1
        <3> QED BY <2>2, <3>1, <3>2
    <2>4. CASE m # 0
        <3>1. m - 1 \in 0 .. N /\ m - 1 \notin T
            BY <2>1, <2>2, <2>4
        <3>2. PICK h \in [0 .. m - 1 -> Nat] : Good(m - 1, h)
            BY <3>1
        <3> DEFINE g == [n \in 0 .. m |-> IF n = m THEN NextFree(h, Bad, m) ELSE h[n]]
        <3>3. h[m - 1] \in Nat
            BY <2>2, <2>4, <3>2
        <3>4. NextFree(h, Bad, m) \in Nat
            BY <3>3 DEF NextFree
        <3>5. \A n \in 0 .. m - 1 : n \in 0 .. m /\ n # m /\ h[n] \in Nat
            BY <2>2, <2>4, <3>2
        <3>6. \A n \in 0 .. m : n = m \/ n \in 0 .. m - 1
            BY <2>2, <2>4
        <3>7. g \in [0 .. m -> Nat]
            BY <3>4, <3>5, <3>6
        <3>8. g[m] = NextFree(h, Bad, m) /\ \A n \in 0 .. m - 1 : g[n] = h[n]
            BY <2>2, <3>5
        <3> HIDE DEF g
        <3>9. \A n \in 1 .. m : n \in 0 .. m /\ n - 1 \in 0 .. m - 1
            BY <2>2, <2>4
        <3>10. \A n \in 1 .. m : NextFree(g, Bad, n) = NextFree(h, Bad, n)
            BY <3>8, <3>9 DEF NextFree
        <3>11. \A n \in 1 .. m - 1 : n \in 0 .. m - 1
            BY <2>2, <2>4
        <3>12. ASSUME NEW n \in 1 .. m PROVE g[n] = NextFree(g, Bad, n)
            <4>1. CASE n = m
                BY <3>8, <3>10, <4>1
            <4>2. CASE n # m
                <5>1. n \in 1 .. m - 1
                    BY <2>2, <4>2
                <5> QED BY <3>2, <3>8, <3>10, <3>11, <5>1
            <4> QED BY <4>1, <4>2
        <3>13. g[0] = start
            BY <2>2, <2>4, <3>2, <3>8
        <3> QED BY <2>2, <3>7, <3>12, <3>13
    <2> QED BY <2>3, <2>4
<1>2. PICK h \in [0 .. N -> Nat] : Good(N, h)
    <2>1. N \in 0 .. N
        OBVIOUS
    <2>2. N \notin T
        <3> HIDE DEF T
        <3> QED BY <1>1
    <2> HIDE DEF Good
    <2> QED BY <2>1, <2>2
<1>3. \A n \in 0 .. N : h[n] = IF n = 0 THEN start ELSE NextFree(h, Bad, n)
    BY <1>2
<1> QED BY <1>2, <1>3 DEF Stairs

LEMMA StairsUp ==
    ASSUME NEW N \in Nat, NEW start \in Nat, NEW Bad, NEW h,
           Stairs(h, N, start, Bad)
    PROVE  /\ h \in [0 .. N -> Nat] /\ h[0] = start
           /\ \A n \in 1 .. N : h[n] = NextFree(h, Bad, n)
           /\ \A n \in 0 .. N : \A m \in 0 .. N : n <= m => h[n] <= h[m]
           /\ \A n \in 1 .. N : n - 1 \in 0 .. N
<1> DEFINE g == [n \in 0 .. N |-> IF n = 0 THEN start ELSE NextFree(h, Bad, n)]
<1>0. h = g
    BY DEF Stairs
<1>1. h[0] = start /\ DOMAIN h = 0 .. N
    <2>1. g[0] = start /\ DOMAIN g = 0 .. N
        OBVIOUS
    <2> HIDE DEF g
    <2> QED BY <1>0, <2>1
<1>2. \A n \in 1 .. N : h[n] = NextFree(h, Bad, n)
    <2>1. \A n \in 1 .. N : n \in 0 .. N /\ n # 0
        OBVIOUS
    <2>2. \A n \in 1 .. N : g[n] = NextFree(h, Bad, n)
        BY <2>1
    <2> HIDE DEF g
    <2> QED BY <1>0, <2>2
<1> HIDE DEF g
<1>3. \A n \in 0 .. N : h[n] \in Nat
    <2> DEFINE T == {n \in 0 .. N : h[n] \notin Nat}
    <2> SUFFICES ASSUME T # {} PROVE FALSE
        OBVIOUS
    <2>1. PICK m \in T : \A k \in T : m <= k
        <3>1. T \in SUBSET Nat /\ T # {}
            OBVIOUS
        <3> HIDE DEF T
        <3> QED BY <3>1, LeastOf
    <2>2. m \in 1 .. N /\ m - 1 \in 0 .. N /\ m - 1 \notin T
        BY <1>1, <2>1
    <2>3. h[m - 1] \in Nat
        BY <2>2
    <2>4. h[m] = NextFree(h, Bad, m)
        BY <1>2, <2>2
    <2>5. h[m] \in Nat
        BY <2>3, <2>4 DEF NextFree
    <2> QED BY <2>1, <2>5
<1>4. ASSUME NEW n \in 0 .. N, NEW m \in 0 .. N, n <= m PROVE h[n] <= h[m]
    <2> DEFINE T == {k \in 0 .. N : n <= k /\ ~(h[n] <= h[k])}
    <2>1. T = {}
        <3> SUFFICES ASSUME T # {} PROVE FALSE
            OBVIOUS
        <3>1. PICK k \in T : \A l \in T : k <= l
            <4>1. T \in SUBSET Nat /\ T # {}
                OBVIOUS
            <4> HIDE DEF T
            <4> QED BY <4>1, LeastOf
        <3>2. k \in 0 .. N /\ n <= k /\ ~(h[n] <= h[k]) /\ h[n] \in Nat
            BY <1>3, <3>1
        <3>3. k # n
            BY <3>2
        <3>4. k \in 1 .. N /\ k - 1 \in 0 .. N /\ n <= k - 1 /\ k - 1 \notin T
            BY <3>1, <3>2, <3>3
        <3>5. h[n] <= h[k - 1] /\ h[k - 1] \in Nat
            BY <1>3, <3>4
        <3>6. h[k] = NextFree(h, Bad, k)
            BY <1>2, <3>4
        <3>7. h[k] \in Nat /\ h[k - 1] <= h[k]
            BY <3>5, <3>6 DEF NextFree
        <3> QED BY <3>2, <3>5, <3>7
    <2> QED BY <1>4, <2>1
<1>5. \A n \in 1 .. N : n - 1 \in 0 .. N
    OBVIOUS
<1>6. h \in [0 .. N -> Nat]
    <2>1. h = [n \in 0 .. N |-> h[n]]
        BY <1>0 DEF g
    <2> QED BY <1>3, <2>1
<1> QED BY <1>1, <1>2, <1>4, <1>5, <1>6

(* The rows taken are start, start + 1, ... : one after the other.         *)
LEMMA RowsTaken ==
    ASSUME NEW N \in Nat, NEW start \in Nat, NEW Bad, NEW h,
           Stairs(h, N, start, Bad), NEW taken, taken = Taken(h, N, Bad)
    PROVE  /\ \A n \in taken : \A m \in taken : h[n - 1] = h[m - 1] => n = m
           /\ IsFiniteSet(taken) /\ Cardinality(taken) \in Nat
           /\ \A n \in taken : h[n - 1] \in start .. start + Cardinality(taken) - 1
           /\ \A r \in start .. start + Cardinality(taken) - 1 : \E n \in taken : h[n - 1] = r
<1>1. /\ h \in [0 .. N -> Nat] /\ h[0] = start
      /\ \A n \in 1 .. N : h[n] = NextFree(h, Bad, n)
      /\ \A n \in 0 .. N : \A m \in 0 .. N : n <= m => h[n] <= h[m]
      /\ \A n \in 1 .. N : n - 1 \in 0 .. N
    BY StairsUp
<1>2. taken \in SUBSET (1 .. N) /\ taken \subseteq 0 .. N
    BY DEF Taken
<1>3. ASSUME NEW n \in taken PROVE h[n] = h[n - 1] + 1 /\ h[n - 1] \in Nat /\ h[n] \in Nat
    <2>1. n \in 1 .. N /\ h[n] = NextFree(h, Bad, n) /\ <<n, h[n - 1]>> \notin Bad /\ n - 1 \in 0 .. N
        BY <1>1 DEF Taken
    <2>2. h[n - 1] \in Nat
        BY <1>1, <2>1
    <2> QED BY <2>1, <2>2 DEF NextFree
<1>4. ASSUME NEW n \in taken, NEW m \in taken, n < m PROVE h[n - 1] < h[m - 1]
    <2>1. n \in 0 .. N /\ m - 1 \in 0 .. N /\ n <= m - 1
        BY <1>2, <1>4
    <2>2. h[n] <= h[m - 1]
        BY <1>1, <2>1
    <2> QED BY <1>3, <2>2
<1>5. \A n \in taken : \A m \in taken : h[n - 1] = h[m - 1] => n = m
    <2> SUFFICES ASSUME NEW n \in taken, NEW m \in taken, h[n - 1] = h[m - 1], n # m PROVE FALSE
        OBVIOUS
    <2>1. n < m \/ m < n
        BY <1>2
    <2> QED BY <1>3, <1>4, <2>1
<1> DEFINE R == start .. h[N] - 1
<1>6. h[N] \in Nat /\ start <= h[N]
    BY <1>1
<1>7. \A n \in taken : h[n - 1] \in R
    <2> SUFFICES ASSUME NEW n \in taken PROVE h[n - 1] \in R
        OBVIOUS
    <2>1. n \in 0 .. N /\ n - 1 \in 0 .. N /\ 0 <= n - 1 /\ n <= N /\ N \in 0 .. N /\ 0 \in 0 .. N
        BY <1>2
    <2>2. start <= h[n - 1] /\ h[n] <= h[N]
        BY <1>1, <2>1
    <2> QED BY <1>3, <1>6, <2>2
<1>8. \A r \in R : \E n \in taken : h[n - 1] = r
    <2> SUFFICES ASSUME NEW r \in R PROVE \E n \in taken : h[n - 1] = r
        OBVIOUS
    <2> DEFINE T == {n \in 0 .. N : r < h[n]}
    <2>1. r \in Nat /\ start <= r /\ r < h[N]
        BY <1>6
    <2>2. N \in T
        BY <2>1
    <2>3. PICK n \in T : \A k \in T : n <= k
        <3>1. T \in SUBSET Nat /\ T # {}
            BY <2>2
        <3> HIDE DEF T
        <3> QED BY <3>1, LeastOf
    <2>4. n \in 0 .. N /\ r < h[n]
        BY <2>3
    <2>5. n # 0
        BY <1>1, <2>1, <2>4
    <2>6. n \in 1 .. N /\ n - 1 \in 0 .. N /\ n - 1 \notin T
        BY <2>3, <2>4, <2>5
    <2>7. h[n - 1] \in Nat /\ h[n - 1] <= r
        BY <1>1, <2>1, <2>6
    <2>8. h[n] = NextFree(h, Bad, n)
        BY <1>1, <2>6
    <2>9. <<n, h[n - 1]>> \notin Bad /\ h[n] = h[n - 1] + 1
        BY <2>1, <2>4, <2>7, <2>8 DEF NextFree
    <2>10. h[n - 1] = r
        BY <2>1, <2>4, <2>7, <2>9
    <2> QED BY <2>6, <2>9, <2>10 DEF Taken
<1> DEFINE b == [n \in taken |-> h[n - 1]]
<1>9. b \in [taken -> R]
    BY <1>7
<1>10. b \in Injection(taken, R) /\ b \in Surjection(taken, R)
    BY <1>5, <1>8, <1>9 DEF Injection, IsInjective, Surjection
<1> HIDE DEF b
<1>11. IsFiniteSet(R)
    <2> HIDE DEF R
    <2>1. start \in Int /\ h[N] - 1 \in Int
        BY <1>6
    <2> QED BY <2>1, FS_Interval DEF R
<1>12. Cardinality(R) = h[N] - start
    <2>1. start \in Int /\ h[N] - 1 \in Int
        BY <1>6
    <2>2. Cardinality(start .. h[N] - 1) = IF start > h[N] - 1 THEN 0 ELSE h[N] - 1 - start + 1
        BY <2>1, FS_Interval
    <2> DEFINE c == Cardinality(start .. h[N] - 1)
    <2>3. c = IF start > h[N] - 1 THEN 0 ELSE h[N] - 1 - start + 1
        BY <2>2
    <2> HIDE DEF c
    <2>4. c = h[N] - start
        BY <1>6, <2>3
    <2> QED BY <2>4 DEF c
<1> HIDE DEF R
<1>13. IsFiniteSet(taken) /\ Cardinality(taken) = Cardinality(R)
    BY <1>10, <1>11, FS_Injection
<1>14. Cardinality(taken) \in Nat /\ start + Cardinality(taken) - 1 = h[N] - 1
    BY <1>6, <1>12, <1>13
<1> QED BY <1>5, <1>7, <1>8, <1>13, <1>14 DEF R

-----------------------------------------------------------------------------
(* The rows that records are appended to.                                  *)
AppendedTurns(s, only) == {n \in 1 .. Cardinality(only) : ~Barred(s, AtTurn(s, only, n), FreeRows(s, only)[n - 1])}

FreeStep(s, only, f) ==
    f = [n \in 0 .. Cardinality(only) |->
           IF n = 0 THEN LastRow(s) + 1
           ELSE f[n - 1] + IF Barred(s, AtTurn(s, only, n), f[n - 1]) THEN 0 ELSE 1]

LEMMA BarredStairs ==
    ASSUME NEW s, NEW only, NEW f, NEW V, Nat \subseteq V, \A n \in 0 .. Cardinality(only) : f[n] \in V,
           Cardinality(only) \in Nat, NEW Bad,
           Bad = {p \in (1 .. Cardinality(only)) \X V : Barred(s, AtTurn(s, only, p[1]), p[2])}
    PROVE  Stairs(f, Cardinality(only), LastRow(s) + 1, Bad) <=> FreeStep(s, only, f)
<1> DEFINE N == Cardinality(only)
<1>1. ASSUME NEW n \in 0 .. N, n # 0
      PROVE  NextFree(f, Bad, n) = f[n - 1] + IF Barred(s, AtTurn(s, only, n), f[n - 1]) THEN 0 ELSE 1
    <2>1. n \in 1 .. N /\ n - 1 \in 0 .. N
        BY <1>1
    <2>2. f[n - 1] \in V
        BY <2>1
    <2>3. <<n, f[n - 1]>> \in Bad <=> Barred(s, AtTurn(s, only, n), f[n - 1])
        BY <2>1, <2>2
    <2> QED BY <2>3 DEF NextFree
<1>2. [n \in 0 .. N |-> IF n = 0 THEN LastRow(s) + 1 ELSE NextFree(f, Bad, n)]
      = [n \in 0 .. N |-> IF n = 0 THEN LastRow(s) + 1
                          ELSE f[n - 1] + IF Barred(s, AtTurn(s, only, n), f[n - 1]) THEN 0 ELSE 1]
    BY <1>1
<1> QED BY <1>2 DEF Stairs, FreeStep

LEMMA FreeRowsFit ==
    ASSUME NEW s \in SheetInputs, Accepted(s), NEW only, only = StandardOnly(s)
    PROVE  LET free == FreeRows(s, only) turns == AppendedTurns(s, only) IN
           /\ \A n \in 0 .. Cardinality(only) : free[n] \in Nat
           /\ \A n \in turns : \A m \in turns : free[n - 1] = free[m - 1] => n = m
           /\ IsFiniteSet(turns) /\ Cardinality(turns) \in Nat
           /\ \A n \in turns : free[n - 1] \in LastRow(s) + 1 .. LastRow(s) + Cardinality(turns)
           /\ \A r \in LastRow(s) + 1 .. LastRow(s) + Cardinality(turns) : \E n \in turns : free[n - 1] = r
<1> DEFINE N     == Cardinality(only)
           start == LastRow(s) + 1
           f     == FreeRows(s, only)
           Bad0  == {p \in (1 .. N) \X Nat : Barred(s, AtTurn(s, only, p[1]), p[2])}
           V     == Nat \cup {f[n] : n \in 0 .. N}
           Bad   == {p \in (1 .. N) \X V : Barred(s, AtTurn(s, only, p[1]), p[2])}
<1>1. N \in Nat /\ start \in Nat /\ LastRow(s) \in Nat
    <2>1. IsFiniteSet(only) /\ LastRow(s) \in Nat
        BY StandardOnlyFits, InputRows
    <2> QED BY <2>1, FS_CardinalityType
<1>2. PICK h \in [0 .. N -> Nat] : Stairs(h, N, start, Bad0)
    <2> HIDE DEF N, start, Bad0
    <2> QED BY <1>1, StairsExist
<1>3. FreeStep(s, only, h)
    <2>1. \A n \in 0 .. N : h[n] \in Nat
        BY <1>2
    <2> QED BY <1>1, <1>2, <2>1, BarredStairs
<1>4. f = CHOOSE g : FreeStep(s, only, g)
    BY DEF FreeRows, FreeStep
<1>5. FreeStep(s, only, f)
    <2> HIDE DEF f
    <2> QED BY <1>3, <1>4
<1>6. Stairs(f, N, start, Bad)
    <2>1. Nat \subseteq V /\ \A n \in 0 .. N : f[n] \in V
        OBVIOUS
    <2> HIDE DEF f, V
    <2> QED BY <1>1, <1>5, <2>1, BarredStairs
<1> DEFINE turns == AppendedTurns(s, only)
<1>7. turns = Taken(f, N, Bad)
    <2>1. \A n \in 1 .. N : n - 1 \in 0 .. N
        BY <1>1
    <2>2. \A n \in 1 .. N : <<n, f[n - 1]>> \in Bad <=> Barred(s, AtTurn(s, only, n), f[n - 1])
        BY <2>1
    <2>3. turns = {n \in 1 .. N : ~Barred(s, AtTurn(s, only, n), f[n - 1])}
        BY DEF AppendedTurns
    <2> HIDE DEF f, Bad, turns, N
    <2> QED BY <2>2, <2>3 DEF Taken
<1> HIDE DEF f, Bad, turns, N, start
<1>8. f \in [0 .. N -> Nat]
    BY <1>1, <1>6, StairsUp
<1>9. /\ \A n \in turns : \A m \in turns : f[n - 1] = f[m - 1] => n = m
      /\ IsFiniteSet(turns) /\ Cardinality(turns) \in Nat
      /\ \A n \in turns : f[n - 1] \in start .. start + Cardinality(turns) - 1
      /\ \A r \in start .. start + Cardinality(turns) - 1 : \E n \in turns : f[n - 1] = r
    BY <1>1, <1>6, <1>7, RowsTaken
<1>10. start .. start + Cardinality(turns) - 1 = LastRow(s) + 1 .. LastRow(s) + Cardinality(turns)
    <2>1. start + Cardinality(turns) - 1 = LastRow(s) + Cardinality(turns)
        BY <1>1, <1>9 DEF start
    <2> QED BY <2>1 DEF start
<1> QED BY <1>8, <1>9, <1>10 DEF f, turns, N

-----------------------------------------------------------------------------
(* The values that are planned to be written into cells.                   *)
FitsCell(s, i, f, d) ==
    /\ d.planned = TRUE /\ d.row = At(s, i) /\ d.field = f /\ d.op \in {"set_cell", "set_field"}
    /\ d.value \in SheetCells /\ Storable(d.value)
    /\ ~IsFormula(s.rows[i].cell[f])
    /\ f \in s.columns \/ s.insert

LEMMA DifferenceParts ==
    ASSUME NEW kind, NEW row, NEW f, NEW rule
    PROVE  Difference(kind, row, f, rule).planned = FALSE
BY DEF Difference

LEMMA PlannedParts ==
    ASSUME NEW kind, NEW row, NEW f, NEW rule, NEW op, NEW value, NEW d,
           d = Planned(kind, row, f, rule, op, value)
    PROVE  d.planned = TRUE /\ d.row = row /\ d.field = f /\ d.op = op /\ d.value = value
BY DEF Planned

LEMMA WriteParts ==
    ASSUME NEW s, NEW kind, NEW row, NEW f, NEW rule, NEW op, NEW value,
           NEW d \in Write(s, kind, row, f, rule, op, value), d.planned
    PROVE  d = Planned(kind, row, f, rule, op, value) /\ Storable(value)
<1>1. CASE Storable(value)
    BY <1>1 DEF Write
<1>2. CASE ~Storable(value)
    <2>1. d = Difference("UNSUPPORTED_FEATURE", row, f, "excel_write_precision")
        BY <1>2 DEF Write
    <2> QED BY <2>1, DifferenceParts
<1> QED BY <1>1, <1>2

LEMMA MismatchParts ==
    ASSUME NEW s, NEW row, NEW f, NEW left, NEW right, NEW overFormula \in BOOLEAN,
           NEW d \in Mismatch(s, row, f, left, right, overFormula), d.planned
    PROVE  LET fill == left = Blank /\ right # Blank /\ s.fill IN
           /\ ~overFormula /\ Storable(right)
           /\ d = Planned("VALUE_MISMATCH", row, f,
                          IF fill THEN "fill_empty_from_standard" ELSE "overwrite_mismatch", "set_cell", right)
<1> DEFINE fill  == left = Blank /\ right # Blank /\ s.fill
           rule  == IF fill THEN "fill_empty_from_standard" ELSE "overwrite_mismatch"
           plain == Difference("VALUE_MISMATCH", row, f, "exact")
           held  == Difference("UNSUPPORTED_FEATURE", row, f, "formula_cached_write_blocked")
           W     == Write(s, "VALUE_MISMATCH", row, f, rule, "set_cell", right)
<1>1. Mismatch(s, row, f, left, right, overFormula)
      = IF ~fill /\ ~s.overwrite THEN {plain}
        ELSE IF overFormula THEN {plain} \cup {held}
        ELSE W \cup IF Storable(right) THEN {} ELSE {plain}
    BY DEF Mismatch
<1>2. plain.planned = FALSE /\ held.planned = FALSE
    BY DifferenceParts
<1> HIDE DEF plain, held, W, rule, fill
<1>3. d # plain /\ d # held
    BY <1>2
<1>4. d \in W /\ ~overFormula
    BY <1>1, <1>3
<1>5. d = Planned("VALUE_MISMATCH", row, f, rule, "set_cell", right) /\ Storable(right)
    BY <1>4, WriteParts DEF W
<1> QED BY <1>4, <1>5 DEF rule, fill

LEMMA ComparedPlans ==
    ASSUME NEW s \in SheetInputs, NEW i \in DOMAIN s.rows, NEW j \in DOMAIN s.std, NEW f \in s.columns
    PROVE  /\ \A d \in ComparedDifferences(s, i, j, f) : d.planned => FitsCell(s, i, f, d)
           /\ \A d \in ComparedDifferences(s, i, j, f) : \A e \in ComparedDifferences(s, i, j, f) :
                 d.planned /\ e.planned => d = e
<1> DEFINE row   == At(s, i)
           cell  == s.rows[i].cell[f]
           right == s.std[j].cell[f]
           left  == IF IsFormula(cell) THEN s.rows[i].cached[f] ELSE cell
           default == s.rule[f].default
           fill  == left = Blank /\ right # Blank /\ s.fill
           how   == IF fill THEN "fill_empty_from_standard" ELSE "overwrite_mismatch"
           M     == Mismatch(s, row, f, left, right, IsFormula(cell))
           W     == Write(s, "NORMALIZED_MATCH", row, f, "fill_static_default", "set_cell", default)
           D     == ComparedDifferences(s, i, j, f)
           text  == Difference("VALUE_MISMATCH", row, f, "formula_text")
           bad   == Difference("INVALID_VALUE", row, f, "standard_parse")
           held  == Difference("UNSUPPORTED_FEATURE", row, f, "formula_cached_write_blocked")
           pm    == Planned("VALUE_MISMATCH", row, f, how, "set_cell", right)
           pw    == Planned("NORMALIZED_MATCH", row, f, "fill_static_default", "set_cell", default)
<1>1. /\ D \subseteq {text, bad, held} \cup (IF ~Same(left, right) THEN M ELSE IF IsFormula(cell) THEN {} ELSE W)
    <2> HIDE DEF row, cell, right, text, bad, held, M, W
    <2> QED BY DEF ComparedDifferences, row, cell, right, text, bad, held, M, W
<1>2. text.planned = FALSE /\ bad.planned = FALSE /\ held.planned = FALSE
    BY DifferenceParts
<1>3. \A d \in M : d.planned => ~IsFormula(cell) /\ Storable(right) /\ d = pm
    <2>1. IsFormula(cell) \in BOOLEAN
        BY DEF IsFormula
    <2> DEFINE over == IsFormula(cell)
    <2>2. \A d \in M : d.planned => ~over /\ Storable(right) /\ d = pm
        <3>1. over \in BOOLEAN
            BY <2>1
        <3>2. M = Mismatch(s, row, f, left, right, over)
            OBVIOUS
        <3> HIDE DEF over, M
        <3>3. ASSUME NEW d \in M, d.planned PROVE ~over /\ Storable(right) /\ d = pm
            <4>1. d \in Mismatch(s, row, f, left, right, over)
                BY <3>2
            <4> HIDE DEF row, left, right
            <4>2. ~over /\ Storable(right) /\ d = Planned("VALUE_MISMATCH", row, f,
                    IF left = Blank /\ right # Blank /\ s.fill THEN "fill_empty_from_standard" ELSE "overwrite_mismatch",
                    "set_cell", right)
                BY <3>1, <3>3, <4>1, MismatchParts
            <4> QED BY <4>2
        <3> QED BY <3>3
    <2> QED BY <2>2
<1>4. \A d \in W : d.planned => Storable(default) /\ d = pw
    BY WriteParts
<1>5. /\ pm.planned = TRUE /\ pm.row = row /\ pm.field = f /\ pm.op = "set_cell" /\ pm.value = right
      /\ pw.planned = TRUE /\ pw.row = row /\ pw.field = f /\ pw.op = "set_cell" /\ pw.value = default
    <2> HIDE DEF row, right, default, how
    <2> QED BY DEF Planned
<1>6. right \in SheetCells /\ default \in SheetCells
    <2>1. s.std[j] \in StandardRows /\ f \in Fields /\ s.rule \in [Fields -> ColumnRules]
        BY InputParts, InputRows
    <2> QED BY <2>1, StandardCells DEF ColumnRules
<1> HIDE DEF D, row, cell, right, left, default, text, bad, held, M, W, pm, pw, how
<1>7. ASSUME NEW d \in D, d.planned
      PROVE  /\ ~IsFormula(cell)
             /\ \/ ~Same(left, right) /\ d = pm /\ Storable(right)
                \/ Same(left, right) /\ d = pw /\ Storable(default)
    BY <1>1, <1>2, <1>3, <1>4, <1>7
<1>8. ASSUME NEW d \in D, d.planned PROVE FitsCell(s, i, f, d)
    BY <1>5, <1>6, <1>7, <1>8 DEF FitsCell, row, cell
<1>9. \A d \in D : \A e \in D : d.planned /\ e.planned => d = e
    BY <1>7
<1> QED BY <1>8, <1>9 DEF D

LEMMA InsertedPlans ==
    ASSUME NEW s \in SheetInputs, NEW i \in DOMAIN s.rows, NEW j \in DOMAIN s.std, NEW f \in Fields \ s.columns
    PROVE  /\ \A d \in InsertedDifferences(s, i, j, f) : d.planned => FitsCell(s, i, f, d)
           /\ \A d \in InsertedDifferences(s, i, j, f) : \A e \in InsertedDifferences(s, i, j, f) :
                 d.planned /\ e.planned => d = e
<1> DEFINE row   == At(s, i)
           c     == s.std[j].cell[f]
           default == s.rule[f].default
           D     == InsertedDifferences(s, i, j, f)
           filled == s.fill /\ Valid(c, s.rule[f]) /\ c # Blank
           V     == Write(s, "NORMALIZED_MATCH", row, f, "fill_empty_from_standard", "set_field", c)
           W     == Write(s, "NORMALIZED_MATCH", row, f, "fill_static_default", "set_field", default)
           bad   == Difference("VALUE_MISMATCH", row, f, "formula_template_mismatch")
           pv    == Planned("NORMALIZED_MATCH", row, f, "fill_empty_from_standard", "set_field", c)
           pw    == Planned("NORMALIZED_MATCH", row, f, "fill_static_default", "set_field", default)
<1>1. /\ D \subseteq {bad} \cup (IF filled THEN V ELSE W)
      /\ D # {} => s.insert
    <2> HIDE DEF row, c, bad, V, W
    <2> QED BY DEF InsertedDifferences, row, c, bad, V, W
<1>2. bad.planned = FALSE
    BY DifferenceParts
<1>3. \A d \in V : d.planned => Storable(c) /\ d = pv
    BY WriteParts
<1>4. \A d \in W : d.planned => Storable(default) /\ d = pw
    BY WriteParts
<1>5. /\ pv.planned = TRUE /\ pv.row = row /\ pv.field = f /\ pv.op = "set_field" /\ pv.value = c
      /\ pw.planned = TRUE /\ pw.row = row /\ pw.field = f /\ pw.op = "set_field" /\ pw.value = default
    <2> HIDE DEF row, c, default
    <2> QED BY DEF Planned
<1>6. c \in SheetCells /\ default \in SheetCells
    <2>1. s.std[j] \in StandardRows /\ f \in Fields /\ s.rule \in [Fields -> ColumnRules]
        BY InputParts, InputRows
    <2> QED BY <2>1, StandardCells DEF ColumnRules
<1>7. ~IsFormula(s.rows[i].cell[f])
    BY InputParts DEF IsFormula, Blank, Cell
<1> HIDE DEF D, row, c, default, bad, V, W, pv, pw, filled
<1>8. ASSUME NEW d \in D, d.planned
      PROVE  \/ filled /\ d = pv /\ Storable(c)
             \/ ~filled /\ d = pw /\ Storable(default)
    BY <1>1, <1>2, <1>3, <1>4, <1>8
<1>9. ASSUME NEW d \in D, d.planned PROVE FitsCell(s, i, f, d)
    BY <1>1, <1>5, <1>6, <1>7, <1>8, <1>9 DEF FitsCell, row
<1>10. \A d \in D : \A e \in D : d.planned /\ e.planned => d = e
    BY <1>8
<1> QED BY <1>9, <1>10 DEF D

FieldPart(s, i, j, f) == IF f \in s.columns THEN ComparedDifferences(s, i, j, f) ELSE InsertedDifferences(s, i, j, f)

LEMMA MatchedPlans ==
    ASSUME NEW s \in SheetInputs, NEW i \in DOMAIN s.rows, NEW j \in DOMAIN s.std, NEW f \in Fields
    PROVE  /\ \A d \in FieldPart(s, i, j, f) : d.planned => FitsCell(s, i, f, d)
           /\ \A d \in FieldPart(s, i, j, f) : \A e \in FieldPart(s, i, j, f) :
                 d.planned /\ e.planned => d = e
<1>1. CASE f \in s.columns
    <2>1. FieldPart(s, i, j, f) = ComparedDifferences(s, i, j, f)
        BY <1>1 DEF FieldPart
    <2> QED BY <1>1, <2>1, ComparedPlans
<1>2. CASE f \notin s.columns
    <2>1. FieldPart(s, i, j, f) = InsertedDifferences(s, i, j, f)
        BY <1>2 DEF FieldPart
    <2> QED BY <1>2, <2>1, InsertedPlans
<1> QED BY <1>1, <1>2

(* An extra record's planned writes: one to each field's cell.             *)
DefaultPlan(s, i, f) == Planned("NORMALIZED_MATCH", At(s, i), f, "fill_static_default", "set_cell", s.rule[f].default)

LEMMA ExtraPlans ==
    ASSUME NEW s \in SheetInputs, NEW i \in DOMAIN s.rows
    PROVE  \A d \in ExtraDifferences(s, i) :
              d.planned => \E f \in Fields : FitsCell(s, i, f, d) /\ d = DefaultPlan(s, i, f)
<1> DEFINE F    == {f \in s.columns : s.rows[i].cell[f] = Blank /\ s.rule[f].default # Blank}
           W(f) == Write(s, "NORMALIZED_MATCH", At(s, i), f, "fill_static_default", "set_cell", s.rule[f].default)
           extra == Difference("EXTRA_RECORD", At(s, i), "", "")
<1> SUFFICES ASSUME NEW d \in ExtraDifferences(s, i), d.planned
             PROVE  \E f \in Fields : FitsCell(s, i, f, d) /\ d = DefaultPlan(s, i, f)
    OBVIOUS
<1>1. ExtraDifferences(s, i) = {extra} \cup UNION {W(f) : f \in F}
    BY DEF ExtraDifferences
<1>2. extra.planned = FALSE
    BY DifferenceParts
<1>3. PICK f \in F : d \in W(f)
    BY <1>1, <1>2
<1>4. d = DefaultPlan(s, i, f) /\ Storable(s.rule[f].default)
    BY <1>3, WriteParts DEF DefaultPlan
<1>5. d.planned = TRUE /\ d.row = At(s, i) /\ d.field = f /\ d.op = "set_cell" /\ d.value = s.rule[f].default
    BY <1>4 DEF DefaultPlan, Planned
<1>6. f \in Fields /\ f \in s.columns /\ s.rule[f].default \in SheetCells
    <2>1. s.columns \in SUBSET Fields /\ s.rule \in [Fields -> ColumnRules]
        BY InputParts
    <2> QED BY <1>3, <2>1 DEF ColumnRules
<1>7. ~IsFormula(s.rows[i].cell[f])
    BY <1>3 DEF IsFormula, Blank, Cell
<1>8. FitsCell(s, i, f, d)
    BY <1>4, <1>5, <1>6, <1>7 DEF FitsCell
<1> QED BY <1>4, <1>6, <1>8

-----------------------------------------------------------------------------
(* Where each planned difference comes from.                               *)
AppendPlan(s, only, j) ==
    Planned("MISSING_RECORD", FreeRows(s, only)[Turn(s, only, j) - 1], "", "append", "append_record", s.std[j].cell)

CellPlan(s, i, f, d) ==
    /\ d.planned /\ FitsCell(s, i, f, d)
    /\ \/ i \in ExcelOnly(s) /\ d = DefaultPlan(s, i, f)
       \/ \E j \in StandardRecords(s) : <<i, j>> \in Matched(s) /\ d \in FieldPart(s, i, j, f)

LEMMA MatchesAreUnique ==
    ASSUME NEW s \in SheetInputs, Accepted(s)
    PROVE  /\ \A p \in Matched(s) : /\ p[1] \in ExcelRecords(s) /\ p[2] \in StandardRecords(s)
                                    /\ p = <<p[1], p[2]>>
                                    /\ Tuple(ExcelKey(s, p[1])) = Tuple(StandardKey(s, p[2]))
           /\ \A p \in Matched(s) : \A q \in Matched(s) : p[1] = q[1] => p = q
           /\ \A p \in Matched(s) : \A q \in Matched(s) : p[2] = q[2] => p = q
           /\ \A p \in Matched(s) : p[1] \notin ExcelOnly(s)
<1>1. \A p \in Matched(s) : /\ p[1] \in ExcelRecords(s) /\ p[2] \in StandardRecords(s)
                            /\ p = <<p[1], p[2]>>
                            /\ Joined(s, ExcelKey(s, p[1])) = Joined(s, StandardKey(s, p[2]))
    BY DEF Matched
<1>2. \A p \in Matched(s) : Tuple(ExcelKey(s, p[1])) = Tuple(StandardKey(s, p[2]))
    <2>1. \A k, l : Joined(s, k) = Joined(s, l) => Tuple(k) = Tuple(l)
        BY DEF Joined, Text
    <2> QED BY <1>1, <2>1
<1>3. \A p \in Matched(s) : \A q \in Matched(s) : p[1] = q[1] => p = q
    <2>1. \A j \in StandardRecords(s) : \A l \in StandardRecords(s) :
             Tuple(StandardKey(s, j)) = Tuple(StandardKey(s, l)) => j = l
        BY AcceptedKeys
    <2>2. ASSUME NEW p \in Matched(s), NEW q \in Matched(s), p[1] = q[1] PROVE p = q
        <3>1. Tuple(StandardKey(s, p[2])) = Tuple(StandardKey(s, q[2]))
            BY <1>2, <2>2
        <3>2. p[2] = q[2]
            BY <1>1, <2>1, <3>1
        <3> QED BY <1>1, <2>2, <3>2
    <2> QED BY <2>2
<1>4. \A p \in Matched(s) : \A q \in Matched(s) : p[2] = q[2] => p = q
    <2>1. ASSUME NEW p \in Matched(s), NEW q \in Matched(s), p[2] = q[2] PROVE p = q
        <3>1. Tuple(ExcelKey(s, p[1])) = Tuple(ExcelKey(s, q[1]))
            BY <1>2, <2>1
        <3>2. p[1] \in Keyed(s) /\ q[1] \in Keyed(s) /\ Twins(s, p[1]) = {p[1]}
            BY <1>1 DEF ExcelRecords
        <3>3. q[1] \in Twins(s, p[1])
            BY <3>1, <3>2 DEF Twins
        <3> QED BY <1>1, <2>1, <3>2, <3>3
    <2> QED BY <2>1
<1>5. \A p \in Matched(s) : p[1] \notin ExcelOnly(s)
    BY DEF ExcelOnly
<1> QED BY <1>1, <1>2, <1>3, <1>4, <1>5

LEMMA RecordsAreRows ==
    ASSUME NEW s
    PROVE  /\ ExcelRecords(s) \subseteq Keyed(s) /\ Keyed(s) \subseteq Seen(s) /\ Seen(s) \subseteq DOMAIN s.rows
           /\ Validated(s) \subseteq Seen(s) /\ ExcelOnly(s) \subseteq ExcelRecords(s)
           /\ StandardRecords(s) \subseteq DOMAIN s.std
BY DEF ExcelRecords, Keyed, Seen, Validated, ExcelOnly, StandardRecords

LEMMA MissingPlans ==
    ASSUME NEW s, NEW j, NEW next, NEW d \in MissingDifferences(s, j, next), d.planned
    PROVE  ~Barred(s, j, next) /\ d = Planned("MISSING_RECORD", next, "", "append", "append_record", s.std[j].cell)
<1>1. CASE ~Barred(s, j, next)
    BY <1>1 DEF MissingDifferences
<1>2. CASE Barred(s, j, next)
    <2>1. \E r, f, k : d = Difference(k, 0, f, r)
        BY <1>2 DEF MissingDifferences
    <2> QED BY <2>1, DifferenceParts
<1> QED BY <1>1, <1>2

LEMMA OwnRulePlans ==
    ASSUME NEW s, NEW d \in HeaderDifferences(s) \cup KeyDifferences(s) \cup ValidationDifferences(s), d.planned
    PROVE  d.op = "set_number_format"
<1>1. ASSUME NEW i, NEW f, d \in FieldDifferences(s, i, f) PROVE d.op = "set_number_format"
    <2> DEFINE format == Planned("NORMALIZED_MATCH", At(s, i), f, "normalize_display_format", "set_number_format", Blank)
    <2>1. d = format \/ \E k, r, g, l : d = Difference(k, r, g, l)
        <3> HIDE DEF format
        <3> QED BY <1>1 DEF FieldDifferences, format
    <2>2. d = format
        BY <2>1, DifferenceParts
    <2> QED BY <2>2 DEF Planned
<1>2. CASE \E k, r, g, l : d = Difference(k, r, g, l)
    BY <1>2, DifferenceParts
<1>3. \/ \E k, r, g, l : d = Difference(k, r, g, l)
      \/ \E i, f : d \in FieldDifferences(s, i, f)
    <2>1. CASE d \in HeaderDifferences(s)
        BY <2>1 DEF HeaderDifferences
    <2>2. CASE d \in KeyDifferences(s)
        BY <2>2 DEF KeyDifferences
    <2>3. CASE d \in ValidationDifferences(s)
        <3> DEFINE D(i) == {FieldDifferences(s, i, f) : f \in Checked(s, i)}
        <3> DEFINE U == UNION {UNION D(i) : i \in Validated(s)}
                   A == {Difference("VALIDATION_ERROR", At(s, p[1]), p[2], "unique") : p \in Repeated(s)}
                   B == {Difference("VALIDATION_ERROR", At(s, i), "v", "conditional_required") : i \in Conditional(s)}
        <3>0. ValidationDifferences(s) = U \cup A \cup B
            BY DEF ValidationDifferences
        <3>1. \/ d \in U
              \/ \E k, r, g, l : d = Difference(k, r, g, l)
            <4> HIDE DEF U
            <4>1. d \in A \/ d \in B \/ d \in U
                <5> HIDE DEF A, B
                <5> QED BY <2>3, <3>0
            <4> QED BY <4>1
        <3>2. CASE d \in UNION {UNION D(i) : i \in Validated(s)}
            <4>1. PICK i \in Validated(s) : d \in UNION D(i)
                BY <3>2
            <4>2. PICK f \in Checked(s, i) : d \in FieldDifferences(s, i, f)
                BY <4>1
            <4> QED BY <4>2
        <3> QED BY <3>1, <3>2
    <2> QED BY <2>1, <2>2, <2>3
<1> QED BY <1>1, <1>2, <1>3

LEMMA PlansOfDifferences ==
    ASSUME NEW s \in SheetInputs, Accepted(s), NEW only, only = StandardOnly(s),
           NEW d \in Differences(s), d.planned
    PROVE  \/ d.op = "set_number_format"
           \/ \E i \in ExcelRecords(s) : \E f \in Fields : CellPlan(s, i, f, d)
           \/ \E j \in only : /\ Turn(s, only, j) \in AppendedTurns(s, only)
                              /\ d = AppendPlan(s, only, j)
<1> DEFINE free == FreeRows(s, only)
           X(i) == ExtraDifferences(s, i)
           Y(j) == MissingDifferences(s, j, free[Turn(s, only, j) - 1])
           Z(p) == MatchedDifferences(s, p[1], p[2])
<1>1. \/ d \in HeaderDifferences(s) \cup KeyDifferences(s) \cup ValidationDifferences(s)
      \/ d \in UNION {X(i) : i \in ExcelOnly(s)}
      \/ d \in UNION {Y(j) : j \in only}
      \/ d \in UNION {Z(p) : p \in Matched(s)}
    <2> DEFINE UX == UNION {X(i) : i \in ExcelOnly(s)}
               UY == UNION {Y(j) : j \in only}
               UZ == UNION {Z(p) : p \in Matched(s)}
    <2>1. Differences(s) = HeaderDifferences(s) \cup KeyDifferences(s) \cup ValidationDifferences(s)
                           \cup UX \cup UY \cup UZ
        BY DEF Differences
    <2>2. d \in HeaderDifferences(s) \cup KeyDifferences(s) \cup ValidationDifferences(s)
          \/ d \in UX \/ d \in UY \/ d \in UZ
        <3> HIDE DEF UX, UY, UZ
        <3> QED BY <2>1
    <2> QED BY <2>2
<1>2. CASE d \in HeaderDifferences(s) \cup KeyDifferences(s) \cup ValidationDifferences(s)
    BY <1>2, OwnRulePlans
<1>3. CASE d \in UNION {X(i) : i \in ExcelOnly(s)}
    <2>1. PICK i \in ExcelOnly(s) : d \in ExtraDifferences(s, i)
        BY <1>3
    <2>2. i \in DOMAIN s.rows /\ i \in ExcelRecords(s)
        BY RecordsAreRows
    <2>3. \E f \in Fields : FitsCell(s, i, f, d) /\ d = DefaultPlan(s, i, f)
        BY <2>1, <2>2, ExtraPlans
    <2> QED BY <2>2, <2>3 DEF CellPlan
<1>4. CASE d \in UNION {Y(j) : j \in only}
    <2>1. PICK j \in only : d \in MissingDifferences(s, j, free[Turn(s, only, j) - 1])
        BY <1>4
    <2> DEFINE n == Turn(s, only, j)
    <2>2. n \in 1 .. Cardinality(only) /\ AtTurn(s, only, n) = j
        BY Turns
    <2>3. /\ ~Barred(s, j, free[n - 1])
          /\ d = Planned("MISSING_RECORD", free[n - 1], "", "append", "append_record", s.std[j].cell)
        BY <2>1, MissingPlans
    <2>4. n \in AppendedTurns(s, only)
        BY <2>2, <2>3 DEF AppendedTurns
    <2> QED BY <2>3, <2>4 DEF AppendPlan
<1>5. CASE d \in UNION {Z(p) : p \in Matched(s)}
    <2>1. PICK p \in Matched(s) : d \in MatchedDifferences(s, p[1], p[2])
        BY <1>5
    <2> DEFINE P(f) == FieldPart(s, p[1], p[2], f)
    <2>2. MatchedDifferences(s, p[1], p[2]) = UNION {P(f) : f \in Fields}
        BY DEF MatchedDifferences, FieldPart
    <2>3. PICK f \in Fields : d \in FieldPart(s, p[1], p[2], f)
        <3> HIDE DEF P
        <3>1. PICK f \in Fields : d \in P(f)
            BY <2>1, <2>2
        <3> QED BY <3>1 DEF P
    <2>4. p[1] \in ExcelRecords(s) /\ p[2] \in StandardRecords(s) /\ p = <<p[1], p[2]>>
        BY MatchesAreUnique
    <2>5. p[1] \in DOMAIN s.rows /\ p[2] \in DOMAIN s.std
        BY <2>4, RecordsAreRows
    <2>6. FitsCell(s, p[1], f, d)
        BY <2>3, <2>5, MatchedPlans
    <2>7. CellPlan(s, p[1], f, d)
        BY <2>3, <2>4, <2>6 DEF CellPlan
    <2> QED BY <2>4, <2>7
<1> QED BY <1>1, <1>2, <1>3, <1>4, <1>5

LEMMA OnePlanPerCell ==
    ASSUME NEW s \in SheetInputs, Accepted(s), NEW i \in ExcelRecords(s), NEW f \in Fields,
           NEW d, NEW e, CellPlan(s, i, f, d), CellPlan(s, i, f, e)
    PROVE  d = e
<1>1. CASE i \in ExcelOnly(s)
    <2>1. \A j \in StandardRecords(s) : <<i, j>> \notin Matched(s)
        BY <1>1 DEF ExcelOnly
    <2> QED BY <2>1 DEF CellPlan
<1>2. CASE i \notin ExcelOnly(s)
    <2>1. PICK j \in StandardRecords(s) : <<i, j>> \in Matched(s) /\ d \in FieldPart(s, i, j, f)
        BY <1>2 DEF CellPlan
    <2>2. PICK l \in StandardRecords(s) : <<i, l>> \in Matched(s) /\ e \in FieldPart(s, i, l, f)
        BY <1>2 DEF CellPlan
    <2>3. j = l
        BY <2>1, <2>2, MatchesAreUnique
    <2>4. i \in DOMAIN s.rows /\ j \in DOMAIN s.std /\ d.planned /\ e.planned
        BY RecordsAreRows DEF CellPlan
    <2> QED BY <2>1, <2>2, <2>3, <2>4, MatchedPlans
<1> QED BY <1>1, <1>2

-----------------------------------------------------------------------------
(* The records that are appended, and where.                               *)
Added(found) == {d \in found : d.planned /\ d.op = "append_record"}

LEMMA AppendedRecords ==
    ASSUME NEW s \in SheetInputs, Accepted(s)
    PROVE  LET added == Added(Differences(s)) IN
           /\ IsFiniteSet(added) /\ Cardinality(added) \in Nat
           /\ \A d \in added : /\ d.row \in LastRow(s) + 1 .. LastRow(s) + Cardinality(added) /\ d.field = ""
                               /\ \E j \in Kept(s) : d.value = s.std[j].cell
                               /\ \A f \in Fields : Storable(d.value[f])
           /\ \A d \in added : \A e \in added : d.row = e.row => d = e
           /\ \A r \in LastRow(s) + 1 .. LastRow(s) + Cardinality(added) : \E d \in added : d.row = r
<1> DEFINE added == Added(Differences(s))
           only  == StandardOnly(s)
           free  == FreeRows(s, only)
           turns == AppendedTurns(s, only)
           N     == Cardinality(only)
           P(n)  == AppendPlan(s, only, AtTurn(s, only, n))
<1>1. /\ \A n \in 0 .. N : free[n] \in Nat
      /\ \A n \in turns : \A m \in turns : free[n - 1] = free[m - 1] => n = m
      /\ IsFiniteSet(turns) /\ Cardinality(turns) \in Nat
      /\ \A n \in turns : free[n - 1] \in LastRow(s) + 1 .. LastRow(s) + Cardinality(turns)
      /\ \A r \in LastRow(s) + 1 .. LastRow(s) + Cardinality(turns) : \E n \in turns : free[n - 1] = r
    BY FreeRowsFit
<1>2. /\ N \in Nat
      /\ \A j \in only : Turn(s, only, j) \in 1 .. N /\ AtTurn(s, only, Turn(s, only, j)) = j
      /\ \A n \in 1 .. N : AtTurn(s, only, n) \in only /\ Turn(s, only, AtTurn(s, only, n)) = n
    BY Turns
<1>3. turns \subseteq 1 .. N /\ \A n \in turns : ~Barred(s, AtTurn(s, only, n), free[n - 1])
    BY DEF AppendedTurns
<1>4. ASSUME NEW n \in turns
      PROVE  /\ P(n) = Planned("MISSING_RECORD", free[n - 1], "", "append", "append_record",
                               s.std[AtTurn(s, only, n)].cell)
             /\ P(n).planned = TRUE /\ P(n).row = free[n - 1] /\ P(n).field = "" /\ P(n).op = "append_record"
             /\ P(n).value = s.std[AtTurn(s, only, n)].cell /\ AtTurn(s, only, n) \in only
    <2>1. n \in 1 .. N /\ Turn(s, only, AtTurn(s, only, n)) = n /\ AtTurn(s, only, n) \in only
        BY <1>2, <1>3
    <2> DEFINE j == AtTurn(s, only, n)
    <2>2. AppendPlan(s, only, j)
          = Planned("MISSING_RECORD", free[n - 1], "", "append", "append_record", s.std[j].cell)
        <3>1. Turn(s, only, j) = n
            BY <2>1
        <3> HIDE DEF j
        <3> QED BY <3>1 DEF AppendPlan
    <2> DEFINE q == AppendPlan(s, only, j)
    <2>3. /\ q.planned = TRUE /\ q.row = free[n - 1] /\ q.field = "" /\ q.op = "append_record"
          /\ q.value = s.std[j].cell
        <3> HIDE DEF j, q, free
        <3>1. q = Planned("MISSING_RECORD", free[n - 1], "", "append", "append_record", s.std[j].cell)
            BY <2>2 DEF q
        <3> QED BY <3>1 DEF Planned
    <2> QED BY <2>1, <2>2, <2>3
<1>5. ASSUME NEW n \in turns PROVE P(n) \in added
    <2> DEFINE j == AtTurn(s, only, n)
               Y(l) == MissingDifferences(s, l, free[Turn(s, only, l) - 1])
               UY == UNION {Y(l) : l \in only}
    <2>1. j \in only /\ Turn(s, only, j) = n /\ ~Barred(s, j, free[n - 1])
        BY <1>2, <1>3
    <2>2. P(n) \in MissingDifferences(s, j, free[n - 1])
        BY <1>4, <2>1 DEF MissingDifferences
    <2>3. P(n) \in UY
        <3>1. P(n) \in Y(j)
            BY <2>1, <2>2
        <3> HIDE DEF Y
        <3> QED BY <2>1, <3>1
    <2>4. UY \subseteq Differences(s)
        <3> HIDE DEF UY
        <3>1. \E A, B, C, D, E : Differences(s) = A \cup B \cup C \cup D \cup UY \cup E
            BY DEF Differences, UY
        <3> QED BY <3>1
    <2> HIDE DEF P, UY
    <2> QED BY <1>4, <2>3, <2>4 DEF Added
<1>6. ASSUME NEW d \in added PROVE \E n \in turns : d = P(n)
    <2>1. d \in Differences(s) /\ d.planned /\ d.op = "append_record"
        BY DEF Added
    <2>2. \A i \in ExcelRecords(s) : \A f \in Fields : ~CellPlan(s, i, f, d)
        BY <2>1 DEF CellPlan, FitsCell
    <2>3. PICK j \in only : Turn(s, only, j) \in turns /\ d = AppendPlan(s, only, j)
        BY <2>1, <2>2, PlansOfDifferences
    <2> QED BY <1>2, <2>3
<1> HIDE DEF P, turns, free, N
<1>7. \A d \in added : \A e \in added : d.row = e.row => d = e
    <2> SUFFICES ASSUME NEW d \in added, NEW e \in added, d.row = e.row PROVE d = e
        OBVIOUS
    <2>1. PICK n \in turns : d = P(n)
        BY <1>6
    <2>2. PICK m \in turns : e = P(m)
        BY <1>6
    <2>3. free[n - 1] = free[m - 1]
        BY <1>4, <2>1, <2>2
    <2> QED BY <1>1, <2>1, <2>2, <2>3
<1> DEFINE b == [n \in turns |-> P(n)]
<1>8. b \in Injection(turns, added) /\ b \in Surjection(turns, added)
    <2>1. b \in [turns -> added]
        BY <1>5
    <2>2. ASSUME NEW n \in turns, NEW m \in turns, b[n] = b[m] PROVE n = m
        <3>1. P(n) = P(m)
            BY <2>2
        <3>2. P(n).row = free[n - 1] /\ P(m).row = free[m - 1]
            BY <1>4
        <3>3. free[n - 1] = free[m - 1]
            BY <3>1, <3>2
        <3> QED BY <1>1, <3>3
    <2>3. \A d \in added : \E n \in turns : b[n] = d
        BY <1>6
    <2> HIDE DEF b
    <2> QED BY <2>1, <2>2, <2>3 DEF Injection, IsInjective, Surjection
<1> HIDE DEF b
<1>9. IsFiniteSet(added) /\ Cardinality(added) = Cardinality(turns)
    BY <1>1, <1>8, FS_Surjection
<1>10. ASSUME NEW d \in added
       PROVE  /\ d.row \in LastRow(s) + 1 .. LastRow(s) + Cardinality(added) /\ d.field = ""
              /\ \E j \in Kept(s) : d.value = s.std[j].cell
              /\ \A f \in Fields : Storable(d.value[f])
    <2>1. PICK n \in turns : d = P(n)
        BY <1>6
    <2> DEFINE j == AtTurn(s, only, n)
    <2>2. /\ d.row = free[n - 1] /\ d.field = "" /\ d.value = s.std[j].cell /\ j \in only
        BY <1>4, <2>1
    <2>3. j \in Kept(s)
        BY <2>2, StandardOnlyFits
    <2>4. Unwritable(s, j) = {}
        BY <1>3 DEF Barred
    <2>5. \A f \in Fields : Storable(d.value[f])
        BY <2>2, <2>4 DEF Unwritable
    <2>6. d.row \in LastRow(s) + 1 .. LastRow(s) + Cardinality(added)
        BY <1>1, <1>9, <2>2
    <2> QED BY <2>2, <2>3, <2>5, <2>6
<1>11. \A r \in LastRow(s) + 1 .. LastRow(s) + Cardinality(added) : \E d \in added : d.row = r
    <2> SUFFICES ASSUME NEW r \in LastRow(s) + 1 .. LastRow(s) + Cardinality(added)
                 PROVE  \E d \in added : d.row = r
        OBVIOUS
    <2>1. PICK n \in turns : free[n - 1] = r
        BY <1>1, <1>9
    <2> QED BY <1>4, <1>5, <2>1
<1>12. Cardinality(added) \in Nat
    BY <1>1, <1>9
<1> QED BY <1>7, <1>9, <1>10, <1>11, <1>12

(* What is written goes to cells of their own.                             *)
LEMMA WritesFit ==
    ASSUME NEW s \in SheetInputs, Accepted(s), NEW found, found = Differences(s),
           NEW d \in Writes(found)
    PROVE  \/ d \in Added(found)
           \/ /\ d \notin Added(found)
              /\ \E i \in ExcelRecords(s) : \E f \in Fields : CellPlan(s, i, f, d)
<1>1. d \in Differences(s) /\ d.planned /\ d.op # "set_number_format"
    BY DEF Writes
<1>2. CASE d.op = "append_record"
    BY <1>1, <1>2 DEF Added
<1>3. CASE d.op # "append_record"
    <2> DEFINE only == StandardOnly(s)
    <2>1. ASSUME NEW j \in only PROVE d # AppendPlan(s, only, j)
        <3> DEFINE row == FreeRows(s, only)[Turn(s, only, j) - 1]
        <3> DEFINE q == AppendPlan(s, only, j)
        <3>1. q.op = "append_record"
            <4>1. q = Planned("MISSING_RECORD", row, "", "append", "append_record", s.std[j].cell)
                BY DEF AppendPlan
            <4> HIDE DEF q, row
            <4> QED BY <4>1 DEF Planned
        <3> QED BY <1>3, <3>1
    <2>2. \E i \in ExcelRecords(s) : \E f \in Fields : CellPlan(s, i, f, d)
        BY <1>1, <2>1, PlansOfDifferences
    <2> QED BY <1>3, <2>2 DEF Added
<1> QED BY <1>2, <1>3

LEMMA RowNumbers ==
    ASSUME NEW s \in SheetInputs
    PROVE  /\ \A i \in DOMAIN s.rows : /\ At(s, i) \in 1 .. LastRow(s) /\ At(s, i) - s.first + 1 = i
                                       /\ At(s, i) < LastRow(s) + 1
           /\ \A i \in DOMAIN s.rows : \A k \in DOMAIN s.rows : At(s, i) = At(s, k) => i = k
<1>1. s.first \in Nat \ {0} /\ Len(s.rows) \in Nat /\ DOMAIN s.rows = 1 .. Len(s.rows)
    BY InputParts, InputRows
<1>2. \A i \in 1 .. Len(s.rows) : /\ At(s, i) \in 1 .. LastRow(s) /\ At(s, i) - s.first + 1 = i
                                  /\ At(s, i) < LastRow(s) + 1
    BY <1>1 DEF At, LastRow
<1>3. \A i \in 1 .. Len(s.rows) : \A k \in 1 .. Len(s.rows) : At(s, i) = At(s, k) => i = k
    BY <1>1 DEF At
<1> QED BY <1>1, <1>2, <1>3

SafeRepairs(s, found) ==
    LET writes == Writes(found) IN
    /\ \A d, e \in writes : d # e => <<d.row, d.field>> # <<e.row, e.field>>
    /\ \A d \in writes :
         IF d.op = "append_record"
         THEN /\ d.row \in (LastRow(s) + 1)..(LastRow(s) + Cardinality(writes))
              /\ \A f \in Fields : Storable(d.value[f])
         ELSE LET i == d.row - s.first + 1 IN
              /\ i \in ExcelRecords(s)
              /\ ~IsFormula(s.rows[i].cell[d.field])
              /\ Storable(d.value)

LEMMA DifferencesAreSafe ==
    ASSUME NEW s \in SheetInputs, Accepted(s), NEW found, found = Differences(s)
    PROVE  SafeRepairs(s, found)
<1> DEFINE writes == Writes(found)
           added  == Added(found)
           count      == Cardinality(added)
           last      == LastRow(s)
           Below0 == 1 .. last
           Behind == last + 1 .. last + count
<1>0. last \in Nat
    BY InputRows
<1>1. /\ IsFiniteSet(added) /\ count \in Nat
      /\ \A d \in added : /\ d.row \in Behind /\ d.field = ""
                          /\ \A f \in Fields : Storable(d.value[f])
      /\ \A d \in added : \A e \in added : d.row = e.row => d = e
    <2>1. added = Added(found) /\ Behind = LastRow(s) + 1 .. LastRow(s) + Cardinality(added)
          /\ count = Cardinality(added)
        OBVIOUS
    <2>0. added = Added(Differences(s))
        OBVIOUS
    <2> HIDE DEF added
    <2>2. /\ IsFiniteSet(added) /\ Cardinality(added) \in Nat
          /\ \A d \in added : /\ d.row \in LastRow(s) + 1 .. LastRow(s) + Cardinality(added) /\ d.field = ""
                              /\ \E j \in Kept(s) : d.value = s.std[j].cell
                              /\ \A f \in Fields : Storable(d.value[f])
          /\ \A d \in added : \A e \in added : d.row = e.row => d = e
        BY <2>0, AppendedRecords, Zenon
    <2> QED BY <2>2, Zenon
<1>11. count \in Nat
    BY <1>1
<1>12. Behind \cap Below0 = {}
    <2> HIDE DEF last, count
    <2> QED BY <1>0, <1>11
<1>13. Behind \cup Below0 \subseteq 1 .. last + count
    <2> HIDE DEF last, count
    <2> QED BY <1>0, <1>11
<1>14. IsFiniteSet(1 .. last + count)
    <2> HIDE DEF last, count
    <2>1. last + count \in Int /\ 1 \in Int
        BY <1>0, <1>11
    <2> QED BY <2>1, FS_Interval
<1>2. added \subseteq writes /\ \A d \in added : d.op = "append_record"
    BY DEF Added, Writes
<1>3. ASSUME NEW d \in writes, d \notin added
      PROVE  \E i \in ExcelRecords(s) : \E f \in Fields :
                /\ CellPlan(s, i, f, d) /\ d.row = At(s, i) /\ d.field = f /\ i \in DOMAIN s.rows
                /\ d.row \in Below0 /\ At(s, i) - s.first + 1 = i
                /\ d.op # "append_record"
    <2>1. PICK i \in ExcelRecords(s) : \E f \in Fields : CellPlan(s, i, f, d)
        BY <1>3, WritesFit
    <2>2. i \in DOMAIN s.rows
        BY RecordsAreRows
    <2>3. At(s, i) \in 1 .. LastRow(s) /\ At(s, i) - s.first + 1 = i
        BY <2>2, RowNumbers
    <2> QED BY <2>1, <2>2, <2>3 DEF CellPlan, FitsCell
<1> DEFINE rows == 1 .. last + count
<1> HIDE DEF writes, added, count, last, Below0, Behind, rows
<1>15. Behind \cup Below0 \subseteq rows /\ IsFiniteSet(rows)
    BY <1>13, <1>14 DEF rows
<1>5. ASSUME NEW d \in writes
      PROVE  d.row \in rows /\ d.field \in Fields \cup {""}
    <2>1. CASE d \in added
        BY <1>1, <1>15, <2>1
    <2>2. CASE d \notin added
        BY <1>3, <1>15, <2>2
    <2> QED BY <2>1, <2>2
<1>6. ASSUME NEW d \in writes, NEW e \in writes, d.row = e.row, d.field = e.field PROVE d = e
    <2>1. CASE d \in added /\ e \in added
        BY <1>1, <1>6, <2>1
    <2>2. CASE d \in added /\ e \notin added
        <3>1. d.row \in Behind /\ e.row \in Below0
            BY <1>1, <1>3, <2>2
        <3> QED BY <1>12, <1>6, <3>1
    <2>3. CASE d \notin added /\ e \in added
        <3>1. e.row \in Behind /\ d.row \in Below0
            BY <1>1, <1>3, <2>3
        <3> QED BY <1>12, <1>6, <3>1
    <2>4. CASE d \notin added /\ e \notin added
        <3>1. PICK i \in ExcelRecords(s) : \E f \in Fields :
                /\ CellPlan(s, i, f, d) /\ d.row = At(s, i) /\ d.field = f /\ i \in DOMAIN s.rows
            BY <1>3, <2>4
        <3>2. PICK k \in ExcelRecords(s) : \E f \in Fields :
                /\ CellPlan(s, k, f, e) /\ e.row = At(s, k) /\ e.field = f /\ k \in DOMAIN s.rows
            BY <1>3, <2>4
        <3>3. i = k
            BY <1>6, <3>1, <3>2, RowNumbers
        <3>4. d.field \in Fields /\ CellPlan(s, i, d.field, d) /\ CellPlan(s, i, d.field, e)
            BY <1>6, <3>1, <3>2, <3>3
        <3> QED BY <3>4, OnePlanPerCell
    <2> QED BY <2>1, <2>2, <2>3, <2>4
<1>7. IsFiniteSet(writes)
    <2> DEFINE box == rows \X (Fields \cup {""})
               p   == [d \in writes |-> <<d.row, d.field>>]
    <2>1. IsFiniteSet(box)
        <3>2. IsFiniteSet(Fields \cup {""})
            <4>1. IsFiniteSet({""})
                BY FS_Singleton
            <4>2. IsFiniteSet({""} \cup {"v"})
                BY <4>1, FS_AddElement
            <4>3. IsFiniteSet(({""} \cup {"v"}) \cup {"id"})
                BY <4>2, FS_AddElement
            <4>4. Fields \cup {""} = ({""} \cup {"v"}) \cup {"id"}
                BY DEF Fields
            <4> QED BY <4>3, <4>4
        <3> QED BY <1>15, <3>2, FS_Product
    <2>2. p \in [writes -> box]
        BY <1>5
    <2>3. \A d \in writes : \A e \in writes : p[d] = p[e] => d = e
        BY <1>6
    <2> HIDE DEF p, box
    <2>4. p \in Injection(writes, box)
        BY <2>2, <2>3 DEF Injection, IsInjective
    <2> QED BY <2>1, <2>4, FS_Injection
<1>8. count <= Cardinality(writes) /\ Cardinality(writes) \in Nat
    BY <1>2, <1>7, FS_Subset, FS_CardinalityType DEF count
<1>9. ASSUME NEW d \in writes, d.op = "append_record"
      PROVE  /\ d.row \in (LastRow(s) + 1)..(LastRow(s) + Cardinality(writes))
             /\ \A f \in Fields : Storable(d.value[f])
    <2>1. d \in added
        BY <1>3, <1>9
    <2>2. d.row \in Behind /\ \A f \in Fields : Storable(d.value[f])
        BY <1>1, <2>1
    <2> DEFINE c == Cardinality(writes)
    <2>3. c \in Nat /\ count <= c
        BY <1>8
    <2> HIDE DEF c
    <2>4. Behind \subseteq (last + 1)..(last + c)
        BY <1>0, <1>11, <2>3 DEF Behind
    <2> QED BY <2>2, <2>4 DEF c, last
<1>10. ASSUME NEW d \in writes, d.op # "append_record"
       PROVE  LET i == d.row - s.first + 1 IN
              /\ i \in ExcelRecords(s)
              /\ ~IsFormula(s.rows[i].cell[d.field])
              /\ Storable(d.value)
    <2>1. d \notin added
        BY <1>2, <1>10
    <2>2. PICK i \in ExcelRecords(s) : \E f \in Fields :
                /\ CellPlan(s, i, f, d) /\ d.row = At(s, i) /\ d.field = f
                /\ At(s, i) - s.first + 1 = i
        BY <1>3, <2>1
    <2> QED BY <2>2 DEF CellPlan, FitsCell
<1>16. \A d, e \in writes : d # e => <<d.row, d.field>> # <<e.row, e.field>>
    BY <1>6
<1> QED BY <1>9, <1>10, <1>16 DEF SafeRepairs, writes

-----------------------------------------------------------------------------
(* The rendered worksheet is an input again.                               *)
LEMMA InputExcept ==
    ASSUME NEW s \in SheetInputs, NEW columns \in SUBSET Fields, NEW rows \in Seq(SheetRows),
           \A i \in DOMAIN rows : \A f \in Fields \ columns : rows[i].cell[f] = Blank
    PROVE  LET r == [s EXCEPT !.columns = columns, !.rows = rows] IN
           /\ r \in SheetInputs
           /\ r.std = s.std /\ r.rule = s.rule /\ r.mode = s.mode /\ r.onEmpty = s.onEmpty /\ r.when = s.when
BY DEF SheetInputs

LEMMA RenderedRowFits ==
    ASSUME NEW s \in SheetInputs, Accepted(s), NEW found, found = Differences(s), NEW i \in DOMAIN s.rows
    PROVE  /\ RenderedRow(s, found, i) \in SheetRows
           /\ \A f \in Fields \ (s.columns \cup Inserted(s)) : RenderedRow(s, found, i).cell[f] = Blank
<1> DEFINE row  == At(s, i)
           W(f) == WritesTo(found, row, f)
           new(f) == IF W(f) # {} THEN (CHOOSE d \in W(f) : TRUE).value
                     ELSE IF f \in Inserted(s) /\ s.rule[f].template /\ i \in Seen(s) THEN Formula(row)
                     ELSE s.rows[i].cell[f]
           cells == [f \in Fields |-> new(f)]
           odds  == {f \in s.rows[i].odd : ~\E d \in found :
                       d.planned /\ d.row = row /\ d.field = f /\ d.op = "set_number_format"}
<1>1. s.rows[i] \in SheetRows /\ row \in Nat
    BY InputRows, ExcelKeyParts
<1>2. ASSUME NEW f \in Fields, NEW d \in W(f)
      PROVE  d.value \in SheetCells /\ (f \in s.columns \/ s.insert)
    <2>1. d \in found /\ d.planned /\ d.row = row /\ d.field = f /\ d.op \in {"set_cell", "set_field"}
        BY DEF WritesTo
    <2>2. d \in Writes(found) /\ d \notin Added(found)
        BY <2>1 DEF Writes, Added
    <2>3. PICK k \in ExcelRecords(s) : \E g \in Fields : CellPlan(s, k, g, d)
        BY <2>2, WritesFit
    <2>4. PICK g \in Fields : CellPlan(s, k, g, d)
        BY <2>3
    <2>5. d.field = g /\ d.value \in SheetCells /\ (g \in s.columns \/ s.insert)
        BY <2>4 DEF CellPlan, FitsCell
    <2> QED BY <2>1, <2>5
<1>3. ASSUME NEW f \in Fields PROVE new(f) \in SheetCells
    <2>1. CASE W(f) # {}
        <3>1. (CHOOSE d \in W(f) : TRUE) \in W(f)
            BY <2>1
        <3>2. (CHOOSE d \in W(f) : TRUE).value \in SheetCells
            BY <1>2, <3>1
        <3> QED BY <2>1, <3>2
    <2>2. CASE W(f) = {}
        <3>1. s.rows[i].cell[f] \in SheetCells
            BY <1>1, RowCells
        <3>2. Formula(row) \in SheetCells
            <4> HIDE DEF row
            <4> QED BY <1>1 DEF Formula, Cell, SheetCells, Blank
        <3> HIDE DEF row
        <3> QED BY <2>2, <3>1, <3>2
    <2> QED BY <2>1, <2>2
<1>4. ASSUME NEW f \in Fields \ (s.columns \cup Inserted(s)) PROVE new(f) = Blank
    <2>1. ~s.insert /\ f \notin s.columns
        BY DEF Inserted
    <2>2. W(f) = {}
        BY <1>2, <2>1
    <2>3. s.rows[i].cell[f] = Blank
        BY <2>1, InputParts
    <2> QED BY <2>2, <2>3
<1>5. RenderedRow(s, found, i) = [s.rows[i] EXCEPT !.cell = cells, !.odd = odds]
    BY DEF RenderedRow
<1> HIDE DEF new
<1>6. cells \in [Fields -> SheetCells] /\ \A f \in Fields : cells[f] = new(f)
    BY <1>3
<1>7. odds \in SUBSET Fields
    <2>1. s.rows[i].odd \in SUBSET Fields
        BY <1>1 DEF SheetRows
    <2>2. odds \subseteq s.rows[i].odd
        OBVIOUS
    <2> QED BY <2>1, <2>2
<1> HIDE DEF cells, odds
<1>8. RenderedRow(s, found, i) \in SheetRows /\ RenderedRow(s, found, i).cell = cells
    BY <1>1, <1>5, <1>6, <1>7 DEF SheetRows
<1> QED BY <1>4, <1>6, <1>8

LEMMA AppendedRowFits ==
    ASSUME NEW s \in SheetInputs, NEW d, NEW j \in DOMAIN s.std, d.value = s.std[j].cell
    PROVE  /\ AppendedRow(s, d) \in SheetRows
           /\ \A f \in Fields \ (s.columns \cup Inserted(s)) : AppendedRow(s, d).cell[f] = Blank
<1>1. s.std[j] \in StandardRows
    BY InputRows
<1>2. \A f \in Fields : d.value[f] \in SheetCells
    BY <1>1, StandardCells
<1>3. Blank \in SheetCells
    BY DEF Blank, Cell, SheetCells
<1> DEFINE cells == [f \in Fields |-> IF f \in s.columns \cup Inserted(s) THEN d.value[f] ELSE Blank]
           none  == [f \in Fields |-> Blank]
<1>4. cells \in [Fields -> SheetCells] /\ none \in [Fields -> SheetCells]
    BY <1>2, <1>3
<1>5. \A f \in Fields \ (s.columns \cup Inserted(s)) : cells[f] = Blank
    OBVIOUS
<1>6. AppendedRow(s, d) = [cell |-> cells, cached |-> none, hidden |-> FALSE, odd |-> Fields]
    BY DEF AppendedRow
<1> HIDE DEF cells, none
<1> QED BY <1>4, <1>5, <1>6 DEF SheetRows

LEMMA RenderedFits ==
    ASSUME NEW s \in SheetInputs, Accepted(s), NEW found, found = Differences(s)
    PROVE  Rendered(s, found) \in SheetInputs /\ Accepted(Rendered(s, found))
<1> DEFINE added == Added(found)
           K     == Cardinality(added)
           new(n) == AppendedRow(s, CHOOSE d \in added : d.row = LastRow(s) + n)
           a     == [i \in DOMAIN s.rows |-> RenderedRow(s, found, i)]
           b     == [n \in 1 .. K |-> new(n)]
           columns == s.columns \cup Inserted(s)
           r     == [s EXCEPT !.columns = columns, !.rows = a \o b]
<1>1. Rendered(s, found) = r
    BY DEF Rendered, Added
<1>2. a \in Seq(SheetRows) /\ DOMAIN a = DOMAIN s.rows
    <2>1. \A i \in DOMAIN s.rows : RenderedRow(s, found, i) \in SheetRows
        BY RenderedRowFits
    <2>2. Len(s.rows) \in Nat /\ DOMAIN s.rows = 1 .. Len(s.rows)
        BY InputRows
    <2> QED BY <2>1, <2>2
<1>3. K \in Nat
    BY AppendedRecords
<1>4. ASSUME NEW n \in 1 .. K
      PROVE  new(n) \in SheetRows /\ \A f \in Fields \ columns : new(n).cell[f] = Blank
    <2> DEFINE r0 == LastRow(s) + n
               d  == CHOOSE d \in added : d.row = r0
    <2>0. LastRow(s) \in Nat
        BY InputRows
    <2>1. \E e \in added : e.row = r0
        <3> DEFINE L == LastRow(s)
        <3>1. \A m \in L + 1 .. L + K : \E e \in added : e.row = m
            BY AppendedRecords
        <3>2. r0 \in L + 1 .. L + K
            <4>1. L \in Nat /\ r0 = L + n
                BY <2>0
            <4> HIDE DEF L, K, r0
            <4> QED BY <1>3, <4>1
        <3> HIDE DEF L, K, r0, added
        <3> QED BY <3>1, <3>2
    <2>2. d \in added
        <3> HIDE DEF added, r0
        <3> QED BY <2>1
    <2>3. PICK j \in Kept(s) : d.value = s.std[j].cell
        <3> HIDE DEF d
        <3> QED BY <2>2, AppendedRecords
    <2>4. j \in DOMAIN s.std
        BY DEF Kept
    <2> HIDE DEF d
    <2>5. AppendedRow(s, d) \in SheetRows /\ \A f \in Fields \ columns : AppendedRow(s, d).cell[f] = Blank
        BY <2>3, <2>4, AppendedRowFits
    <2> QED BY <2>5 DEF d
<1> HIDE DEF new, K
<1>5. b \in Seq(SheetRows) /\ DOMAIN b = 1 .. K
    BY <1>3, <1>4
<1>6. columns \in SUBSET Fields
    BY InputParts DEF Inserted
<1>7. \A i \in DOMAIN a : \A f \in Fields \ columns : a[i].cell[f] = Blank
    BY RenderedRowFits
<1>8. \A n \in DOMAIN b : \A f \in Fields \ columns : b[n].cell[f] = Blank
    BY <1>4, <1>5
<1> HIDE DEF a, b, columns
<1>9. a \o b \in Seq(SheetRows) /\ \A i \in DOMAIN (a \o b) : \A f \in Fields \ columns : (a \o b)[i].cell[f] = Blank
    <2> DEFINE c == a \o b
    <2>1. c = a \o b
        OBVIOUS
    <2>2. a \in Seq(SheetRows) /\ b \in Seq(SheetRows)
        BY <1>2, <1>5
    <2> HIDE DEF c
    <2>3. /\ c \in Seq(SheetRows) /\ Len(a) \in Nat /\ Len(b) \in Nat
          /\ DOMAIN c = 1 .. Len(a) + Len(b) /\ DOMAIN a = 1 .. Len(a) /\ DOMAIN b = 1 .. Len(b)
        BY <2>1, <2>2
    <2>4. ASSUME NEW i \in DOMAIN c, NEW f \in Fields \ columns PROVE c[i].cell[f] = Blank
        <3>1. CASE i <= Len(a)
            <4>1. c[i] = a[i] /\ i \in DOMAIN a
                BY <2>1, <2>2, <2>3, <3>1
            <4> QED BY <1>7, <4>1
        <3>2. CASE i > Len(a)
            <4>1. c[i] = b[i - Len(a)] /\ i - Len(a) \in DOMAIN b
                BY <2>1, <2>2, <2>3, <3>2
            <4> QED BY <1>8, <4>1
        <3> QED BY <2>3, <3>1, <3>2
    <2> QED BY <2>3, <2>4 DEF c
<1> DEFINE rows == a \o b
<1>10. /\ r \in SheetInputs
       /\ r.std = s.std /\ r.rule = s.rule /\ r.mode = s.mode /\ r.onEmpty = s.onEmpty /\ r.when = s.when
    <2>1. rows \in Seq(SheetRows) /\ \A i \in DOMAIN rows : \A f \in Fields \ columns : rows[i].cell[f] = Blank
        BY <1>9
    <2>2. r = [s EXCEPT !.columns = columns, !.rows = rows]
        OBVIOUS
    <2> HIDE DEF r, rows
    <2> QED BY <1>6, <2>1, <2>2, InputExcept
<1> HIDE DEF r
<1>11. Accepted(r)
    <2>1. /\ DOMAIN r.std = DOMAIN s.std
          /\ \A j, f : TypedRight(r, j, f) <=> TypedRight(s, j, f)
        BY <1>10 DEF TypedRight, Primary
    <2>2. Kept(r) = Kept(s)
        BY <1>10 DEF Kept, Skipped
    <2>3. \A f : UniqueRight(r, f) <=> UniqueRight(s, f)
        BY <1>10, <2>2 DEF UniqueRight
    <2>4. \A j : StandardKey(r, j) = StandardKey(s, j)
        BY <1>10 DEF StandardKey, KeyOf
    <2>5. KeysRight(r) <=> KeysRight(s)
        BY <1>10, <2>1, <2>4 DEF KeysRight
    <2>6. \A id, v : LacksValue(r, id, v) <=> LacksValue(s, id, v)
        BY <1>10 DEF LacksValue
    <2>7. Accepted(r) <=> Accepted(s)
        BY <1>10, <2>1, <2>2, <2>3, <2>5, <2>6 DEF Accepted
    <2> QED BY <2>7
<1> QED BY <1>1, <1>10, <1>11

-----------------------------------------------------------------------------
(* What a comparison without a difference has found out.                   *)
LEMMA DifferencesHave ==
    ASSUME NEW s, Differences(s) = {}
    PROVE  /\ HeaderDifferences(s) = {} /\ KeyDifferences(s) = {} /\ ValidationDifferences(s) = {}
           /\ \A i \in ExcelOnly(s) : ExtraDifferences(s, i) = {}
           /\ \A j \in StandardOnly(s) : \E next : MissingDifferences(s, j, next) = {}
           /\ \A p \in Matched(s) : MatchedDifferences(s, p[1], p[2]) = {}
<1> DEFINE only == StandardOnly(s)
           free == FreeRows(s, only)
           X(i) == ExtraDifferences(s, i)
           Y(j) == MissingDifferences(s, j, free[Turn(s, only, j) - 1])
           Z(p) == MatchedDifferences(s, p[1], p[2])
           UX == UNION {X(i) : i \in ExcelOnly(s)}
           UY == UNION {Y(j) : j \in only}
           UZ == UNION {Z(p) : p \in Matched(s)}
<1>1. Differences(s) = HeaderDifferences(s) \cup KeyDifferences(s) \cup ValidationDifferences(s)
                       \cup UX \cup UY \cup UZ
    BY DEF Differences
<1>2. /\ HeaderDifferences(s) = {} /\ KeyDifferences(s) = {} /\ ValidationDifferences(s) = {}
      /\ UX = {} /\ UY = {} /\ UZ = {}
    <2> HIDE DEF UX, UY, UZ
    <2> QED BY <1>1
<1>3. \A i \in ExcelOnly(s) : X(i) = {}
    <2> HIDE DEF X
    <2> QED BY <1>2
<1>4. \A j \in only : Y(j) = {}
    <2> HIDE DEF Y
    <2> QED BY <1>2
<1>5. \A p \in Matched(s) : Z(p) = {}
    <2> HIDE DEF Z
    <2> QED BY <1>2
<1> QED BY <1>2, <1>3, <1>4, <1>5

LEMMA SomethingIsSaid ==
    ASSUME NEW s
    PROVE  /\ \A kind, row, f, rule, op, value : Write(s, kind, row, f, rule, op, value) # {}
           /\ \A row, f, left, right, over : Mismatch(s, row, f, left, right, over) # {}
           /\ \A j, next : MissingDifferences(s, j, next) # {}
           /\ \A i : ExtraDifferences(s, i) # {}
<1>1. \A kind, row, f, rule, op, value : Write(s, kind, row, f, rule, op, value) # {}
    BY DEF Write
<1>2. \A row, f, left, right, over : Mismatch(s, row, f, left, right, over) # {}
    BY <1>1 DEF Mismatch
<1>3. \A j, next : MissingDifferences(s, j, next) # {}
    BY DEF MissingDifferences
<1>4. \A i : ExtraDifferences(s, i) # {}
    BY DEF ExtraDifferences
<1> QED BY <1>1, <1>2, <1>3, <1>4

LEMMA NothingToSay ==
    ASSUME NEW s \in SheetInputs, Differences(s) = {}
    PROVE  /\ s.columns = Fields
           /\ FormulaKeys(s) = {} /\ Validated(s) = Keyed(s) /\ ExcelRecords(s) = Keyed(s)
           /\ \A i \in Validated(s) : \A f \in Checked(s, i) : FieldDifferences(s, i, f) = {}
           /\ Repeated(s) = {} /\ Conditional(s) = {}
           /\ ExcelOnly(s) = {} /\ StandardOnly(s) = {}
           /\ \A p \in Matched(s) : \A f \in Fields : ComparedDifferences(s, p[1], p[2], f) = {}
<1>1. /\ HeaderDifferences(s) = {} /\ KeyDifferences(s) = {} /\ ValidationDifferences(s) = {}
      /\ \A i \in ExcelOnly(s) : ExtraDifferences(s, i) = {}
      /\ \A j \in StandardOnly(s) : \E next : MissingDifferences(s, j, next) = {}
      /\ \A p \in Matched(s) : MatchedDifferences(s, p[1], p[2]) = {}
    BY DifferencesHave
<1>2. s.columns = Fields
    <2>1. Fields \ s.columns = {}
        BY <1>1 DEF HeaderDifferences
    <2> QED BY <2>1, InputParts
<1>3. /\ FormulaKeys(s) = {} /\ ExcelDuplicates(s) = {}
      /\ \A i \in Seen(s) \ (FormulaKeys(s) \cup Keyed(s)) : s.onEmpty = "skip_row"
    BY <1>1 DEF KeyDifferences
<1>4. Validated(s) = Keyed(s)
    BY <1>3, RecordsAreRows DEF Validated
<1>5. ExcelRecords(s) = Keyed(s)
    BY <1>3 DEF ExcelDuplicates, ExcelRecords
<1>6. /\ \A i \in Validated(s) : \A f \in Checked(s, i) : FieldDifferences(s, i, f) = {}
      /\ Repeated(s) = {} /\ Conditional(s) = {}
    <2> DEFINE F(i) == UNION {FieldDifferences(s, i, f) : f \in Checked(s, i)}
               U == UNION {F(i) : i \in Validated(s)}
               A == {Difference("VALIDATION_ERROR", At(s, p[1]), p[2], "unique") : p \in Repeated(s)}
               B == {Difference("VALIDATION_ERROR", At(s, i), "v", "conditional_required") : i \in Conditional(s)}
    <2>1. ValidationDifferences(s) = U \cup A \cup B
        BY DEF ValidationDifferences
    <2>2. U = {} /\ A = {} /\ B = {}
        <3> HIDE DEF U, A, B
        <3> QED BY <1>1, <2>1
    <2>3. \A i \in Validated(s) : F(i) = {}
        <3> HIDE DEF F
        <3> QED BY <2>2
    <2>4. ASSUME NEW i \in Validated(s), NEW f \in Checked(s, i) PROVE FieldDifferences(s, i, f) = {}
        <3>1. F(i) = {}
            BY <2>3
        <3> QED BY <3>1
    <2> QED BY <2>2, <2>4
<1>7. ExcelOnly(s) = {} /\ StandardOnly(s) = {}
    BY <1>1, SomethingIsSaid
<1>8. ASSUME NEW p \in Matched(s), NEW f \in Fields PROVE ComparedDifferences(s, p[1], p[2], f) = {}
    <2> DEFINE P(g) == FieldPart(s, p[1], p[2], g)
    <2>1. UNION {P(g) : g \in Fields} = {}
        <3>1. MatchedDifferences(s, p[1], p[2]) = UNION {P(g) : g \in Fields}
            BY DEF MatchedDifferences, FieldPart
        <3> HIDE DEF P
        <3> QED BY <1>1, <3>1
    <2>2. P(f) = {}
        <3> HIDE DEF P
        <3> QED BY <2>1
    <2> QED BY <1>2, <2>2 DEF FieldPart
<1> QED BY <1>2, <1>3, <1>4, <1>5, <1>6, <1>7, <1>8

(* A checked cell without a difference obeys the rule ...                  *)
LEMMA CheckedCells ==
    ASSUME NEW s \in SheetInputs, NEW i \in DOMAIN s.rows, NEW f \in Fields,
           FieldDifferences(s, i, f) = {}
    PROVE  LET c == Value(s, i, f) rule == s.rule[f] IN
           /\ Valid(c, rule) /\ c.tag \in {"number", "blank", "formula"}
           /\ IsFormula(c) => rule.formulas = "formula"
           /\ rule.required \/ ~rule.nullable => c # Blank
<1> DEFINE c == Value(s, i, f)
           rule == s.rule[f]
           E == FieldDifferences(s, i, f)
<1>1. CASE IsFormula(c)
    <2>1. rule.formulas = "formula"
        BY <1>1 DEF FieldDifferences
    <2> QED BY <1>1, <2>1 DEF IsFormula, Valid, Blank, Cell
<1>2. CASE ~IsFormula(c) /\ c = Blank /\ ~rule.required /\ rule.nullable
    BY <1>2 DEF Valid, Blank, Cell
<1>3. CASE ~IsFormula(c) /\ ~(c = Blank /\ ~rule.required /\ rule.nullable)
    <2>1. Valid(c, rule)
        BY <1>3 DEF FieldDifferences
    <2>2. ~(c = Blank /\ (rule.required \/ ~rule.nullable))
        BY <1>3, <2>1 DEF FieldDifferences
    <2>3. c.tag \in {"number", "blank"}
        BY <1>3, <2>1 DEF Valid
    <2> QED BY <1>3, <2>1, <2>2, <2>3
<1> QED BY <1>1, <1>2, <1>3

(* ... and a compared one has the standard's value.                        *)
LEMMA ComparedCells ==
    ASSUME NEW s \in SheetInputs, NEW i \in DOMAIN s.rows, NEW j \in DOMAIN s.std, NEW f \in Fields,
           f \in s.std[j].given, ComparedDifferences(s, i, j, f) = {},
           LET c == Value(s, i, f) IN Valid(c, s.rule[f]) /\ (IsFormula(c) => s.rule[f].formulas = "formula")
    PROVE  IF s.rule[f].formulas = "formula"
           THEN s.rows[i].cell[f].tag = s.std[j].cell[f].tag /\ s.rows[i].cell[f].n = s.std[j].cell[f].n
           ELSE Same(Value(s, i, f), s.std[j].cell[f])
<1> DEFINE row   == At(s, i)
           cell  == s.rows[i].cell[f]
           right == s.std[j].cell[f]
           rule  == s.rule[f]
           left  == IF IsFormula(cell) THEN s.rows[i].cached[f] ELSE cell
           text  == Difference("VALUE_MISMATCH", row, f, "formula_text")
           bad   == Difference("INVALID_VALUE", row, f, "standard_parse")
           M     == Mismatch(s, row, f, left, right, IsFormula(cell))
<1>1. CASE rule.formulas = "formula" /\ (IsFormula(cell) \/ IsFormula(right))
    <2>1. cell = right
        BY <1>1 DEF ComparedDifferences
    <2> QED BY <1>1, <2>1
<1>2. CASE ~(rule.formulas = "formula" /\ (IsFormula(cell) \/ IsFormula(right)))
    <2>1. ~(IsFormula(cell) /\ rule.formulas = "reject")
        BY DEF Value
    <2>2. rule.formulas \in {"reject", "formula", "cached_value"}
        BY InputParts DEF ColumnRules
    <2>3. left = Value(s, i, f)
        BY <1>2, <2>1, <2>2 DEF Value
    <2>4. Valid(left, rule)
        BY <2>3
    <2>5. M # {}
        BY SomethingIsSaid
    <2>6. CASE left = Blank /\ right = Blank
        BY <1>2, <2>3, <2>6 DEF Same, IsFormula, Value
    <2>7. CASE ~(left = Blank /\ right = Blank)
        <3> HIDE DEF cell, right, rule, left, M
        <3>1. Valid(right, rule) /\ Same(left, right)
            BY <1>2, <2>1, <2>4, <2>5, <2>7 DEF ComparedDifferences, cell, right, rule, left, M
        <3> QED BY <1>2, <2>2, <2>3, <3>1 DEF Same, Value, cell, right, rule, left
    <2> QED BY <2>6, <2>7
<1> QED BY <1>1, <1>2

(* A key cell that is not checked has no key of its own.                   *)
LEMMA UncheckedCells ==
    ASSUME NEW s \in SheetInputs, Differences(s) = {}, NEW i \in Validated(s), NEW f \in Fields, f \notin Checked(s, i)
    PROVE  /\ Primary(s, f) /\ s.onEmpty = "use_row_number" /\ ExcelKey(s, i).by = "fallback"
           /\ Value(s, i, f) = s.rows[i].cell[f] /\ s.rows[i].cell[f].tag \in {"blank", "word"}
           /\ s.rows[i].cell[f].tag = "blank" => s.rows[i].cell[f] = Blank
<1> DEFINE cell == s.rows[i].cell[f]
           key  == ExcelKey(s, i)
<1>1. /\ s.columns = Fields /\ FormulaKeys(s) = {} /\ Validated(s) = Keyed(s)
    BY NothingToSay
<1>2. Primary(s, f) /\ cell.tag # "number"
    BY <1>1 DEF Checked
<1>3. i \in Keyed(s) /\ i \in Seen(s) /\ i \in DOMAIN s.rows /\ key # NoKey
    BY <1>1, RecordsAreRows DEF Keyed
<1>4. s.mode = "fields" /\ f = "id"
    BY <1>2 DEF Primary
<1>5. ~IsFormula(cell)
    BY <1>1, <1>3, <1>4 DEF FormulaKeys
<1>6. s.rows[i] \in SheetRows
    BY <1>3, InputRows
<1>7. cell \in SheetCells
    BY <1>6, RowCells
<1>8. cell.tag \in {"blank", "word"} /\ (cell.tag = "blank" => cell = Blank)
    <2>1. cell.tag \in {"blank", "word", "number", "formula"} /\ (cell.tag = "blank" => cell = Blank)
        BY <1>7, CellParts
    <2> QED BY <1>2, <1>5, <2>1 DEF IsFormula
<1>9. /\ key \in Keys /\ (key = NoKey <=> key.by = "none") /\ (key.by = "row" <=> s.mode = "row_number")
      /\ key.by = "field" <=> s.mode = "fields" /\ s.rows[i].cell["id"].tag = "number"
      /\ key.by = "fallback" <=> /\ s.mode = "fields" /\ s.rows[i].cell["id"].tag # "number"
                                 /\ s.onEmpty = "use_row_number"
    BY <1>3, ExcelKeyParts
<1>10. key.by \in {"row", "fallback", "field", "none"}
    BY <1>9 DEF Keys
<1>11. key.by = "fallback" /\ s.onEmpty = "use_row_number"
    BY <1>2, <1>3, <1>4, <1>9, <1>10
<1>12. Value(s, i, f) = cell
    BY <1>5 DEF Value
<1> QED BY <1>2, <1>8, <1>11, <1>12

LEMMA PairedRecords ==
    ASSUME NEW s \in SheetInputs, Accepted(s), Differences(s) = {}
    PROVE  /\ \A i \in Validated(s) : \E j \in Kept(s) : <<i, j>> \in Matched(s) /\ Counterparts(s, i) = {j}
           /\ \A j \in Kept(s) : Cardinality({i \in Validated(s) : j \in Counterparts(s, i)}) = 1
<1>1. /\ Validated(s) = Keyed(s) /\ ExcelRecords(s) = Keyed(s)
      /\ ExcelOnly(s) = {} /\ StandardOnly(s) = {}
    BY NothingToSay
<1>2. /\ StandardRecords(s) = Kept(s)
      /\ \A j \in Kept(s) : \A l \in Kept(s) : Tuple(StandardKey(s, j)) = Tuple(StandardKey(s, l)) => j = l
    BY AcceptedKeys
<1>3. \A p \in Matched(s) : /\ p[1] \in ExcelRecords(s) /\ p[2] \in StandardRecords(s)
                            /\ p = <<p[1], p[2]>>
                            /\ Tuple(ExcelKey(s, p[1])) = Tuple(StandardKey(s, p[2]))
    BY MatchesAreUnique
<1>4. ASSUME NEW i \in Validated(s)
      PROVE  \E j \in Kept(s) : <<i, j>> \in Matched(s) /\ Counterparts(s, i) = {j}
    <2>1. PICK p \in Matched(s) : p[1] = i
        BY <1>1 DEF ExcelOnly
    <2>2. p[2] \in Kept(s) /\ <<i, p[2]>> \in Matched(s) /\ Tuple(StandardKey(s, p[2])) = Tuple(ExcelKey(s, i))
        BY <1>2, <1>3, <2>1
    <2>3. Counterparts(s, i) = {p[2]}
        BY <1>2, <2>2 DEF Counterparts
    <2> QED BY <2>2, <2>3
<1>5. ASSUME NEW j \in Kept(s)
      PROVE  Cardinality({i \in Validated(s) : j \in Counterparts(s, i)}) = 1
    <2> DEFINE T == {i \in Validated(s) : j \in Counterparts(s, i)}
    <2>1. PICK p \in Matched(s) : p[2] = j
        BY <1>1, <1>2 DEF StandardOnly
    <2>2. p[1] \in Validated(s) /\ Tuple(StandardKey(s, j)) = Tuple(ExcelKey(s, p[1]))
        BY <1>1, <1>3, <2>1
    <2>3. ASSUME NEW i \in T PROVE i = p[1]
        <3>1. i \in Keyed(s) /\ Tuple(ExcelKey(s, i)) = Tuple(ExcelKey(s, p[1]))
            BY <1>1, <2>2 DEF Counterparts
        <3>2. Twins(s, p[1]) = {p[1]}
            BY <1>3 DEF ExcelRecords
        <3> QED BY <3>1, <3>2 DEF Twins
    <2>4. p[1] \in T
        BY <2>2 DEF Counterparts
    <2>5. T = {p[1]}
        <3> HIDE DEF T
        <3> QED BY <2>3, <2>4
    <2> QED BY <2>5, FS_Singleton
<1> QED BY <1>4, <1>5

AgreesWith(s) ==
    /\ \A i \in Validated(s) : \E j \in Kept(s) :
         /\ Counterparts(s, i) = {j}
         /\ \A f \in Fields : Unread(s, i, f) \/ AgreesOn(s, i, j, f)
         /\ ~LacksValue(s, Value(s, i, "id"), Value(s, i, "v"))
    /\ \A j \in Kept(s) : Cardinality({i \in Validated(s) : j \in Counterparts(s, i)}) = 1

LEMMA CheckedAgree ==
    ASSUME NEW s \in SheetInputs, Accepted(s), Differences(s) = {},
           NEW i \in Validated(s), NEW j \in Kept(s), <<i, j>> \in Matched(s), NEW f \in Checked(s, i)
    PROVE  AgreesOn(s, i, j, f)
<1> DEFINE cell == s.rows[i].cell[f]
           value == Value(s, i, f)
           rule == s.rule[f]
<1>1. f \in Fields /\ i \in DOMAIN s.rows /\ j \in DOMAIN s.std
    <2>1. f \in s.columns /\ s.columns \subseteq Fields
        BY InputParts DEF Checked
    <2> QED BY <2>1, RecordsAreRows DEF Kept
<1>2. /\ FieldDifferences(s, i, f) = {} /\ Repeated(s) = {}
      /\ ComparedDifferences(s, i, j, f) = {}
      /\ s.columns = Fields /\ FormulaKeys(s) = {} /\ Validated(s) = Keyed(s)
    <2>1. \A p \in Matched(s) : \A g \in Fields : ComparedDifferences(s, p[1], p[2], g) = {}
        BY NothingToSay
    <2>2. ComparedDifferences(s, i, j, f) = {}
        BY <1>1, <2>1
    <2> QED BY <1>1, <2>2, NothingToSay
<1>3. /\ Valid(value, rule) /\ value.tag \in {"number", "blank", "formula"}
      /\ IsFormula(value) => rule.formulas = "formula"
      /\ rule.required \/ ~rule.nullable => value # Blank
    BY <1>1, <1>2, CheckedCells
<1>4. f \in s.std[j].given =>
         IF rule.formulas = "formula" THEN cell.tag = s.std[j].cell[f].tag /\ cell.n = s.std[j].cell[f].n
         ELSE Same(value, s.std[j].cell[f])
    BY <1>1, <1>2, <1>3, ComparedCells
<1>5. ASSUME rule.unique, value.tag = "number", NEW l \in Validated(s) \ {i}
      PROVE  ~Same(Value(s, l, f), value)
    <2>1. CASE f \in Checked(s, l)
        <3>1. <<i, f>> \notin Repeated(s)
            BY <1>2
        <3> QED BY <1>1, <1>5, <2>1, <3>1 DEF Repeated
    <2>2. CASE f \notin Checked(s, l)
        <3>1. Value(s, l, f).tag \in {"blank", "word"}
            BY <1>1, <2>2, UncheckedCells
        <3> QED BY <1>5, <3>1 DEF Same
    <2> QED BY <2>1, <2>2
<1> QED BY <1>3, <1>4, <1>5 DEF AgreesOn

LEMMA UncheckedAgree ==
    ASSUME NEW s \in SheetInputs, Accepted(s), Differences(s) = {},
           NEW i \in Validated(s), NEW j \in Kept(s), <<i, j>> \in Matched(s),
           NEW f \in Fields, f \notin Checked(s, i), ~Unread(s, i, f)
    PROVE  AgreesOn(s, i, j, f)
<1> DEFINE cell == s.rows[i].cell[f]
           right == s.std[j].cell[f]
           rule == s.rule[f]
<1>1. /\ Primary(s, f) /\ s.onEmpty = "use_row_number" /\ ExcelKey(s, i).by = "fallback"
      /\ Value(s, i, f) = cell /\ cell.tag \in {"blank", "word"}
      /\ cell.tag = "blank" => cell = Blank
    BY UncheckedCells
<1>2. cell = Blank /\ Value(s, i, f) = Blank
    BY <1>1 DEF Unread
<1>3. i \in DOMAIN s.rows /\ j \in DOMAIN s.std /\ f = "id"
    BY <1>1, RecordsAreRows DEF Kept, Primary
<1>4. StandardKey(s, j).by = "fallback"
    <2>1. Tuple(ExcelKey(s, i)) = Tuple(StandardKey(s, j))
        BY MatchesAreUnique
    <2>2. ExcelKey(s, i) \in Keys /\ StandardKey(s, j) \in Keys
        BY <1>3, ExcelKeyParts, StandardKeyParts
    <2> QED BY <1>1, <2>1, <2>2, TupleParts
<1>5. right.tag # "number"
    BY <1>3, <1>4, StandardKeyParts
<1>6. TypedRight(s, j, f)
    BY DEF Accepted
<1>7. ComparedDifferences(s, i, j, f) = {}
    <2>1. \A p \in Matched(s) : \A g \in Fields : ComparedDifferences(s, p[1], p[2], g) = {}
        BY NothingToSay
    <2> QED BY <2>1
<1>8. f \in s.std[j].given => right.tag = "blank" /\ right = Blank
    <2> SUFFICES ASSUME f \in s.std[j].given PROVE right.tag = "blank" /\ right = Blank
        OBVIOUS
    <2>1. right \in SheetCells
        BY <1>3, InputRows, StandardCells
    <2>2. right.tag \in {"blank", "formula"} /\ (right.tag = "formula" => rule.formulas = "formula")
        BY <1>5, <1>6 DEF TypedRight, Valid, IsFormula
    <2>3. CASE right.tag = "formula"
        <3>1. rule.formulas = "formula" /\ IsFormula(right) /\ cell # right
            BY <1>2, <2>2, <2>3 DEF IsFormula, Blank, Cell
        <3> HIDE DEF cell, right, rule
        <3>2. ComparedDifferences(s, i, j, f) # {}
            BY <3>1 DEF ComparedDifferences, cell, right, rule
        <3> QED BY <1>7, <3>2
    <2>4. CASE right.tag = "blank"
        BY <2>1, <2>4, CellParts
    <2> QED BY <2>2, <2>3, <2>4
<1>9. Blank.tag = "blank" /\ Blank.n = 0
    BY DEF Blank, Cell
<1> HIDE DEF cell, right, rule
<1>10. /\ f \in s.std[j].given => IF rule.formulas = "formula" THEN cell.tag = right.tag /\ cell.n = right.n
                                  ELSE Same(Value(s, i, f), right)
       /\ Value(s, i, f).tag = "blank"
    BY <1>2, <1>8, <1>9 DEF Same
<1> QED BY <1>1, <1>10 DEF AgreesOn, cell, right, rule

LEMMA CleanComparisonAgrees ==
    ASSUME NEW s \in SheetInputs, Accepted(s), Differences(s) = {}
    PROVE  AgreesWith(s)
<1>1. ASSUME NEW i \in Validated(s)
      PROVE  ~LacksValue(s, Value(s, i, "id"), Value(s, i, "v"))
    <2>1. Conditional(s) = {} /\ s.columns = Fields
        BY NothingToSay
    <2>2. "v" \in Checked(s, i)
        BY <2>1 DEF Checked, Primary, Fields
    <2>3. CASE "id" \in Checked(s, i)
        BY <2>1, <2>2, <2>3 DEF Conditional, LacksValue, IsFormula
    <2>4. CASE "id" \notin Checked(s, i)
        <3>1. Value(s, i, "id").tag \in {"blank", "word"}
            BY <2>4, UncheckedCells DEF Fields
        <3> QED BY <3>1 DEF LacksValue
    <2> QED BY <2>3, <2>4
<1>2. ASSUME NEW i \in Validated(s)
      PROVE  \E j \in Kept(s) :
               /\ Counterparts(s, i) = {j}
               /\ \A f \in Fields : Unread(s, i, f) \/ AgreesOn(s, i, j, f)
    <2>1. PICK j \in Kept(s) : <<i, j>> \in Matched(s) /\ Counterparts(s, i) = {j}
        BY PairedRecords
    <2>2. ASSUME NEW f \in Fields, ~Unread(s, i, f) PROVE AgreesOn(s, i, j, f)
        BY <2>1, <2>2, CheckedAgree, UncheckedAgree
    <2> QED BY <2>1, <2>2
<1>3. \A j \in Kept(s) : Cardinality({i \in Validated(s) : j \in Counterparts(s, i)}) = 1
    BY PairedRecords
<1> QED BY <1>1, <1>2, <1>3 DEF AgreesWith

-----------------------------------------------------------------------------
(* The inductive invariant of a comparison: the worksheet is an input that *)
(* StandardDataValidator lets through once it is accepted, and what was    *)
(* found is what a comparison of this very worksheet finds.                *)
InputRule == cmpSheet \in SheetInputs
AcceptedRule == cmpStep \in {"accepted", "compared", "manual_review", "rendered"} => Accepted(cmpSheet)
FoundRule == cmpStep \in {"compared", "manual_review"} => cmpFound = Differences(cmpSheet)
CmpIInv == InputRule /\ AcceptedRule /\ FoundRule

LEMMA CmpInitIInv == CmpInit => CmpIInv
BY ComparisonAssumption DEF CmpInit, CmpIInv, InputRule, AcceptedRule, FoundRule

LEMMA CmpStepIInv == CmpIInv /\ [CmpNext]_cmpVars => CmpIInv'
<1> SUFFICES ASSUME CmpIInv, [CmpNext]_cmpVars PROVE CmpIInv'
    OBVIOUS
<1> USE DEF CmpIInv, InputRule, AcceptedRule, FoundRule
<1>1. CASE Validate
    BY <1>1 DEF Validate
<1>2. CASE Compare
    <2>1. cmpSheet' = cmpSheet /\ cmpStep = "accepted" /\ cmpFound' = Differences(cmpSheet)
        BY <1>2 DEF Compare
    <2> QED BY <2>1
<1>3. CASE CompareFails
    BY <1>3 DEF CompareFails
<1>4. CASE Render
    <2>1. /\ cmpStep = "compared" /\ cmpStep' = "rendered"
          /\ cmpSheet' = Rendered(cmpSheet, cmpFound)
        BY <1>4 DEF Render
    <2>2. Rendered(cmpSheet, cmpFound) \in SheetInputs /\ Accepted(Rendered(cmpSheet, cmpFound))
        BY <2>1, RenderedFits
    <2> QED BY <2>1, <2>2
<1>5. CASE Resubmit
    BY <1>5 DEF Resubmit
<1>6. CASE UNCHANGED cmpVars
    BY <1>6 DEF cmpVars
<1> QED BY <1>1, <1>2, <1>3, <1>4, <1>5, <1>6 DEF CmpNext

LEMMA CmpIInvHolds == CmpSpec => []CmpIInv
<1>1. CmpInit => CmpIInv
    BY CmpInitIInv
<1>2. CmpIInv /\ [CmpNext]_cmpVars => CmpIInv'
    BY CmpStepIInv
<1> QED BY <1>1, <1>2, PTL DEF CmpSpec

(* A report without a difference is the truth: whatever the worksheet, the *)
(* rule and the standard, its rows are the standard's records, cell by     *)
(* cell, but for the key cells that the engine does not look at.           *)
THEOREM CleanReportsAgree == CmpSpec => []CleanReportAgrees
<1>1. CmpIInv => CleanReportAgrees
    <2> SUFFICES ASSUME CmpIInv PROVE CleanReportAgrees
        OBVIOUS
    <2> DEFINE s == cmpSheet
    <2>1. s \in SheetInputs
        BY DEF CmpIInv, InputRule
    <2>2. ASSUME cmpStep = "compared", cmpFound = {} PROVE AgreesWith(s)
        <3>1. Accepted(s) /\ Differences(s) = {}
            BY <2>2 DEF CmpIInv, AcceptedRule, FoundRule
        <3> HIDE DEF s
        <3> QED BY <2>1, <3>1, CleanComparisonAgrees
    <2>3. ASSUME cmpStep = "accepted"
          PROVE  /\ StandardDuplicates(s) = {}
                 /\ DOMAIN s.std \ StandardRecords(s) = {j \in DOMAIN s.std : Skipped(s, j)}
        <3>1. Accepted(s)
            BY <2>3 DEF CmpIInv, AcceptedRule
        <3> HIDE DEF s
        <3> QED BY <2>1, <3>1, AcceptedKeys
    <2> QED BY <2>2, <2>3 DEF CleanReportAgrees, AgreesWith
<1> QED BY <1>1, CmpIInvHolds, PTL

(* No repair loses anything: whatever the differences, the planned writes  *)
(* go to cells of their own and the appended records to rows of their own. *)
THEOREM PlannedRepairsAreSafe == CmpSpec => []RepairsAreSafe
<1>1. CmpIInv => RepairsAreSafe
    <2> SUFFICES ASSUME CmpIInv, cmpStep \in {"compared", "manual_review"}
                 PROVE  SafeRepairs(cmpSheet, cmpFound)
        BY DEF RepairsAreSafe, SafeRepairs
    <2>1. cmpSheet \in SheetInputs /\ Accepted(cmpSheet) /\ cmpFound = Differences(cmpSheet)
        BY DEF CmpIInv, InputRule, AcceptedRule, FoundRule
    <2> QED BY <2>1, DifferencesAreSafe
<1> QED BY <1>1, CmpIInvHolds, PTL

-----------------------------------------------------------------------------
(* WorkbookHeaders: the columns of a worksheet and their fields.            *)

(* And an element has a lower number than those that come after it.        *)
LEMMA Ranks ==
    ASSUME NEW K, IsFiniteSet(K), NEW R,
           \A x \in K : <<x, x>> \notin R,
           \A x \in K : \A y \in K : \A z \in K : <<x, y>> \in R /\ <<y, z>> \in R => <<x, z>> \in R,
           \A x \in K : \A y \in K : x # y => <<x, y>> \in R \/ <<y, x>> \in R
    PROVE  LET Rank(x) == Cardinality(Below(K, R, x)) IN
           /\ \A x, y \in K : <<x, y>> \in R => Rank(x) < Rank(y)
           /\ \A n \in 1 .. Cardinality(K) : \E x \in K : Rank(x) = n - 1
<1> DEFINE Rank(x) == Cardinality(Below(K, R, x))
<1>1. ASSUME NEW x \in K
      PROVE  /\ Rank(x) \in Nat
             /\ IsFiniteSet(Below(K, R, x) \cup {x})
             /\ Cardinality(Below(K, R, x) \cup {x}) = Rank(x) + 1
    <2>1. Below(K, R, x) \subseteq K /\ x \notin Below(K, R, x)
        BY DEF Below
    <2>2. IsFiniteSet(Below(K, R, x))
        BY <2>1, FS_Subset
    <2> QED BY <2>1, <2>2, FS_CardinalityType, FS_AddElement
<1>2. ASSUME NEW x \in K, NEW y \in K, <<x, y>> \in R PROVE Rank(x) < Rank(y)
    <2>1. Below(K, R, x) \cup {x} \subseteq Below(K, R, y)
        BY <1>2 DEF Below
    <2>2. IsFiniteSet(Below(K, R, y))
        BY FS_Subset DEF Below
    <2>3. Cardinality(Below(K, R, x) \cup {x}) <= Cardinality(Below(K, R, y))
        BY <2>1, <2>2, FS_Subset
    <2>4. Rank(x) + 1 <= Rank(y) /\ Rank(x) \in Nat /\ Rank(y) \in Nat
        BY <1>1, <2>3
    <2> HIDE DEF Rank
    <2> QED BY <2>4
<1>3. /\ Cardinality(K) \in Nat
      /\ \A n \in 1 .. Cardinality(K) : \E x \in K : 1 + Rank(x) = n
    BY NumbersOfAnOrder
<1> HIDE DEF Rank
<1>4. \A n \in 1 .. Cardinality(K) : \E x \in K : Rank(x) = n - 1
    <2>1. \A x \in K : Rank(x) \in Nat
        BY <1>1
    <2> QED BY <1>3, <2>1
<1> QED BY <1>2, <1>4 DEF Rank

(* The columns of the rule: each has a place in its order.                 *)
BookFits(b) ==
  /\ Len(b.fields) \in Nat /\ DOMAIN b.fields = 1 .. Len(b.fields)
  /\ DOMAIN b.words = {b.fields[n] : n \in DOMAIN b.fields}
  /\ \A m, n \in DOMAIN b.fields : b.fields[m] = b.fields[n] => m = n
  /\ NoField \notin DOMAIN b.words /\ DOMAIN b.words \cap Nat = {}
  /\ 1 \in DOMAIN b.rows
  /\ \A r \in DOMAIN b.rows : Len(b.rows[r]) \in Nat /\ DOMAIN b.rows[r] = 1 .. Len(b.rows[r])

LEMMA Ordinals ==
    ASSUME NEW b, BookFits(b), NEW f \in DOMAIN b.words
    PROVE  Ordinal(b, f) \in DOMAIN b.fields /\ Ordinal(b, f) \in Nat /\ b.fields[Ordinal(b, f)] = f
<1>1. \E n \in DOMAIN b.fields : b.fields[n] = f
    BY DEF BookFits
<1> QED BY <1>1 DEF Ordinal, BookFits


(* What the mapping of a header row gives: one column for each field.      *)
MappingFits(b, mapped) ==
  /\ Len(mapped) \in Nat /\ DOMAIN mapped = 1 .. Len(mapped)
  /\ Present(mapped) \subseteq DOMAIN b.words
  /\ \A f \in Present(mapped) : \E c \in DOMAIN mapped : ColumnsOf(mapped, f) = {c}

LEMMA ExactFields ==
    ASSUME NEW b, BookFits(b), NEW w, ExactField(b, w) # NoField
    PROVE  ExactField(b, w) \in DOMAIN b.words /\ w \in Words(b, ExactField(b, w))
<1> DEFINE owners == {n \in DOMAIN b.fields : w \in Words(b, b.fields[n])}
<1>1. owners # {} /\ ExactField(b, w) = b.fields[CHOOSE n \in owners : \A o \in owners : n <= o]
    BY DEF ExactField
<1>2. \E n \in owners : \A o \in owners : n <= o
    <2>1. owners \in SUBSET Nat
        BY DEF BookFits
    <2> HIDE DEF owners
    <2> QED BY <1>1, <2>1, LeastOf
<1>3. (CHOOSE n \in owners : \A o \in owners : n <= o) \in owners
    <2> HIDE DEF owners
    <2> QED BY <1>2
<1> QED BY <1>1, <1>3 DEF BookFits

LEMMA RowsAreMapped ==
    ASSUME NEW b, BookFits(b), NEW r \in DOMAIN b.rows
    PROVE  MappingFits(b, [c \in DOMAIN b.rows[r] |-> Mapping(b, b.rows[r], c)])
<1> DEFINE row == b.rows[r]
           first == [d \in DOMAIN row |-> FirstMapping(b, row, d)]
           mapped == [c \in DOMAIN row |-> Mapping(b, row, c)]
<1>1. Len(row) \in Nat /\ DOMAIN row = 1 .. Len(row)
    BY DEF BookFits
<1>2. Len(mapped) = Len(row)
    <2> DEFINE S == {Mapping(b, row, c) : c \in DOMAIN row}
    <2>1. mapped \in [1 .. Len(row) -> S]
        BY <1>1
    <2> HIDE DEF mapped, S, row
    <2> QED BY <1>1, <2>1
<1>3. ASSUME NEW c \in DOMAIN row, mapped[c].status = "matched"
      PROVE  /\ mapped[c] = first[c]
             /\ mapped[c] = [status |-> "matched", field |-> ExactField(b, row[c])]
             /\ ExactField(b, row[c]) # NoField
             /\ \A d \in DOMAIN row \ {c} : first[d] # first[c]
    <2>1. first[c].status = "matched" /\ mapped[c] = first[c]
          /\ \A d \in DOMAIN row \ {c} : first[d] # first[c]
        BY <1>3 DEF Mapping
    <2>2. first[c] = FirstMapping(b, row, c)
        OBVIOUS
    <2>3. /\ FirstMapping(b, row, c) = [status |-> "matched", field |-> ExactField(b, row[c])]
          /\ ExactField(b, row[c]) # NoField
        BY <2>1, <2>2 DEF FirstMapping
    <2> QED BY <2>1, <2>2, <2>3
<1>d. DOMAIN mapped = DOMAIN row
    OBVIOUS
<1> HIDE DEF mapped, first
<1>3a. \A c \in DOMAIN row : mapped[c].status = "matched" =>
         /\ mapped[c].field = ExactField(b, row[c])
         /\ mapped[c] = [status |-> "matched", field |-> ExactField(b, row[c])]
    BY <1>3
<1>4. Present(mapped) \subseteq DOMAIN b.words
    <2> SUFFICES ASSUME NEW c \in DOMAIN row, mapped[c].status = "matched"
                 PROVE  mapped[c].field \in DOMAIN b.words
        BY <1>d DEF Present
    <2>1. ExactField(b, row[c]) # NoField /\ mapped[c].field = ExactField(b, row[c])
        BY <1>3, <1>3a
    <2> QED BY <2>1, ExactFields
<1>5. ASSUME NEW f \in Present(mapped) PROVE \E c \in DOMAIN mapped : ColumnsOf(mapped, f) = {c}
    <2>1. PICK c \in DOMAIN row : mapped[c].status = "matched" /\ mapped[c].field = f
        BY <1>d DEF Present
    <2>2. mapped[c] = [status |-> "matched", field |-> f]
        BY <1>3a, <2>1
    <2>3. ASSUME NEW d \in DOMAIN row, mapped[d] = [status |-> "matched", field |-> f] PROVE d = c
        <3>1. mapped[d].status = "matched"
            BY <2>3
        <3> QED BY <1>3, <2>1, <2>2, <2>3, <3>1
    <2> QED BY <1>d, <2>2, <2>3 DEF ColumnsOf
<1>6. DOMAIN mapped = 1 .. Len(mapped) /\ Len(mapped) \in Nat
    BY <1>1, <1>2, <1>d
<1> QED BY <1>4, <1>5, <1>6 DEF MappingFits, mapped


LEMMA Starts ==
    ASSUME NEW b, NEW mapped, MappingFits(b, mapped), NEW f \in Present(mapped)
    PROVE  /\ DOMAIN Start(mapped) = Present(mapped)
           /\ Start(mapped)[f] \in ColumnsOf(mapped, f)
           /\ Start(mapped)[f] \in 1 .. Len(mapped)
           /\ Start(mapped)[f] = CHOOSE c \in ColumnsOf(mapped, f) : TRUE
<1>1. PICK c \in DOMAIN mapped : ColumnsOf(mapped, f) = {c}
    BY DEF MappingFits
<1>2. Start(mapped)[f] = CHOOSE x \in ColumnsOf(mapped, f) : TRUE
    BY DEF Start
<1>3. (CHOOSE x \in ColumnsOf(mapped, f) : TRUE) = c
    BY <1>1
<1>4. DOMAIN Start(mapped) = Present(mapped)
    BY DEF Start
<1> QED BY <1>1, <1>2, <1>3, <1>4 DEF MappingFits

LEMMA Anchors ==
    ASSUME NEW b, BookFits(b), NEW mapped, MappingFits(b, mapped), NEW f \in DOMAIN b.words
    PROVE  /\ Anchor(b, mapped, f) \in 1 .. Len(mapped) + 1
           /\ Preceding(b, mapped, f) # {} =>
                /\ Predecessor(b, mapped, f) \in Present(mapped)
                /\ Anchor(b, mapped, f) = Start(mapped)[Predecessor(b, mapped, f)] + 1
<1> DEFINE before == Preceding(b, mapped, f)
           last == CHOOSE n \in before : \A o \in before : o <= n
           q == Predecessor(b, mapped, f)
<1>1. CASE before = {}
    BY <1>1 DEF Anchor, MappingFits
<1>2. CASE before # {}
    <2>1. before \in SUBSET (1 .. Ordinal(b, f)) /\ Ordinal(b, f) \in Nat
        BY Ordinals DEF Preceding
    <2>2. \E n \in before : \A o \in before : o <= n
        <3> HIDE DEF before
        <3> QED BY <1>2, <2>1, GreatestOf
    <2>3. last \in before
        <3> HIDE DEF before
        <3> QED BY <2>2
    <2>4. q = b.fields[last]
        BY DEF Predecessor
    <2>5. q \in Present(mapped)
        BY <2>3, <2>4 DEF Preceding
    <2>6. Anchor(b, mapped, f) = 1 + CHOOSE c \in ColumnsOf(mapped, q) : TRUE
        BY <1>2 DEF Anchor
    <2>7. /\ Start(mapped)[q] \in 1 .. Len(mapped)
          /\ Start(mapped)[q] = CHOOSE c \in ColumnsOf(mapped, q) : TRUE
        <3> HIDE DEF q
        <3> QED BY <2>5, Starts
    <2>8. Anchor(b, mapped, f) = Start(mapped)[q] + 1
        <3> HIDE DEF q
        <3> QED BY <2>6, <2>7
    <2>9. Len(mapped) \in Nat
        BY DEF MappingFits
    <2>10. Anchor(b, mapped, f) \in 1 .. Len(mapped) + 1
        <3> HIDE DEF q
        <3> QED BY <2>7, <2>8, <2>9
    <2> QED BY <2>5, <2>8, <2>10
<1> QED BY <1>1, <1>2

(* An insertion is of a column that is not there, and one of its own.      *)
PlannedAs(b, mapped, o) ==
  /\ o.field \in DOMAIN b.words \ Present(mapped)
  /\ o.before = Anchor(b, mapped, o.field)
  /\ o.before \in 1 .. Len(mapped) + 1

LEMMA FiniteImage ==
    ASSUME NEW S, IsFiniteSet(S), NEW g
    PROVE  IsFiniteSet({g[x] : x \in S})
<1> DEFINE T == {g[x] : x \in S}
           h == [x \in S |-> g[x]]
<1>1. h \in [S -> T] /\ \A t \in T : \E s \in S : h[s] = t
    OBVIOUS
<1>2. h \in Surjection(S, T)
    <2> HIDE DEF h, T
    <2> QED BY <1>1 DEF Surjection
<1> HIDE DEF h
<1> QED BY <1>2, FS_Surjection

LEMMA InsertionsFit ==
    ASSUME NEW b, BookFits(b), NEW mapped, MappingFits(b, mapped)
    PROVE  /\ IsFiniteSet(Insertions(b, mapped))
           /\ \A o \in Insertions(b, mapped) : PlannedAs(b, mapped, o)
           /\ \A o, p \in Insertions(b, mapped) : o.field = p.field => o = p
<1> DEFINE ops == Insertions(b, mapped)
           F == IF b.insert THEN Missing(b, mapped) ELSE {}
           Op(f) == [field |-> f, before |-> Anchor(b, mapped, f)]
<1>1. F \subseteq DOMAIN b.words \ Present(mapped)
    BY DEF Missing
<1>2. IsFiniteSet(DOMAIN b.words)
    <2> DEFINE g == [n \in 1 .. Len(b.fields) |-> b.fields[n]]
    <2>1. IsFiniteSet(1 .. Len(b.fields))
        <3>1. 1 \in Int /\ Len(b.fields) \in Int
            BY DEF BookFits
        <3> QED BY <3>1, FS_Interval
    <2>2. DOMAIN b.words = {g[n] : n \in 1 .. Len(b.fields)}
        <3>1. DOMAIN b.words = {b.fields[n] : n \in 1 .. Len(b.fields)}
            BY DEF BookFits
        <3>2. \A n \in 1 .. Len(b.fields) : g[n] = b.fields[n]
            OBVIOUS
        <3> HIDE DEF g
        <3> QED BY <3>1, <3>2
    <2> HIDE DEF g
    <2> QED BY <2>1, <2>2, FiniteImage
<1>3. IsFiniteSet(F)
    <2> HIDE DEF F
    <2> QED BY <1>1, <1>2, FS_Subset
<1>4. ops = {Op(f) : f \in F}
    BY DEF Insertions
<1>5. IsFiniteSet(ops)
    <2> DEFINE g == [f \in F |-> Op(f)]
    <2>1. ops = {g[f] : f \in F}
        BY <1>4
    <2> HIDE DEF g, F, ops
    <2> QED BY <1>3, <2>1, FiniteImage
<1> HIDE DEF ops, F
<1>6. \A o \in ops : o.field \in F /\ o.before = Anchor(b, mapped, o.field) /\ o = Op(o.field)
    BY <1>4
<1>7. \A o \in ops : PlannedAs(b, mapped, o)
    BY <1>1, <1>6, Anchors DEF PlannedAs
<1>8. \A o, p \in ops : o.field = p.field => o = p
    BY <1>6
<1> QED BY <1>5, <1>7, <1>8 DEF ops


(* The insertions form a strict total order: the rightmost first, and at   *)
(* one place the later column of the rule.                                 *)
LEMMA InsertionsOrdered ==
    ASSUME NEW b, BookFits(b), NEW mapped, MappingFits(b, mapped)
    PROVE  LET ops == Insertions(b, mapped) IN
           /\ \A x \in ops : ~InsertedBefore(b, x, x)
           /\ \A x, y, z \in ops : InsertedBefore(b, x, y) /\ InsertedBefore(b, y, z) => InsertedBefore(b, x, z)
           /\ \A x, y \in ops : x = y \/ InsertedBefore(b, x, y) \/ InsertedBefore(b, y, x)
<1> DEFINE ops == Insertions(b, mapped)
           at == [o \in ops |-> o.before]
           ord == [o \in ops |-> Ordinal(b, o.field)]
<1>1. ASSUME NEW o \in ops
      PROVE  at[o] \in Nat /\ ord[o] \in Nat /\ b.fields[ord[o]] = o.field
    <2>1. o.field \in DOMAIN b.words /\ o.before \in 1 .. Len(mapped) + 1
        BY InsertionsFit DEF PlannedAs
    <2>2. Len(mapped) \in Nat
        BY DEF MappingFits
    <2> QED BY <2>1, <2>2, Ordinals
<1>2. \A o, p \in ops : InsertedBefore(b, o, p) <=> at[o] > at[p] \/ (at[o] = at[p] /\ ord[o] > ord[p])
    BY DEF InsertedBefore
<1>3. \A o, p \in ops : o.field = p.field => o = p
    BY InsertionsFit
<1>4. \A o, p \in ops : ord[o] = ord[p] => o = p
    <2> HIDE DEF ops, ord
    <2> QED BY <1>1, <1>3
<1>5. \A o \in ops : at[o] \in Nat /\ ord[o] \in Nat
    BY <1>1
<1> HIDE DEF ops, at, ord
<1>6. \A x \in ops : ~InsertedBefore(b, x, x)
    BY <1>2, <1>5
<1>7. \A x, y, z \in ops : InsertedBefore(b, x, y) /\ InsertedBefore(b, y, z) => InsertedBefore(b, x, z)
    BY <1>2, <1>5
<1>8. \A x, y \in ops : x = y \/ InsertedBefore(b, x, y) \/ InsertedBefore(b, y, x)
    BY <1>2, <1>4, <1>5
<1> QED BY <1>6, <1>7, <1>8 DEF ops

(* A plan is the insertions in that order.                                 *)
PlanFits(b, mapped, plan) ==
  /\ Len(plan) \in Nat /\ DOMAIN plan = 1 .. Len(plan)
  /\ plan \in Seq(Insertions(b, mapped))
  /\ \A n \in 1 .. Len(plan) : PlannedAs(b, mapped, plan[n])
  /\ \A m, n \in 1 .. Len(plan) :
       m < n => InsertedBefore(b, plan[m], plan[n]) /\ plan[m].field # plan[n].field

LEMMA BookPlansFit ==
    ASSUME NEW b, BookFits(b), NEW mapped, MappingFits(b, mapped)
    PROVE  PlanFits(b, mapped, Plan(b, mapped))
<1> DEFINE ops == Insertions(b, mapped)
           R == {x \in ops \X ops : InsertedBefore(b, x[1], x[2])}
           N == Cardinality(ops)
           Rank(o) == Cardinality(Below(ops, R, o))
           plan == Plan(b, mapped)
<1>1. /\ IsFiniteSet(ops)
      /\ \A x \in ops : <<x, x>> \notin R
      /\ \A x \in ops : \A y \in ops : \A z \in ops : <<x, y>> \in R /\ <<y, z>> \in R => <<x, z>> \in R
      /\ \A x \in ops : \A y \in ops : x # y => <<x, y>> \in R \/ <<y, x>> \in R
    <2>1. \A x, y \in ops : <<x, y>> \in R <=> InsertedBefore(b, x, y)
        OBVIOUS
    <2> HIDE DEF R
    <2> QED BY <2>1, InsertionsFit, InsertionsOrdered
<1>2. /\ \A x, y \in ops : <<x, y>> \in R => Rank(x) < Rank(y)
      /\ \A n \in 1 .. N : \E x \in ops : Rank(x) = n - 1
    <2> HIDE DEF ops, R
    <2> QED BY <1>1, Ranks
<1>3. N \in Nat
    BY <1>1, FS_CardinalityType
<1>4. ASSUME NEW o \in ops
      PROVE  Below(ops, R, o) = {p \in ops : InsertedBefore(b, p, o)}
    BY DEF Below
<1>5. plan = [n \in 1 .. N |->
                CHOOSE o \in ops : Cardinality({p \in ops : InsertedBefore(b, p, o)}) = n - 1]
    BY DEF Plan
<1>6. ASSUME NEW n \in 1 .. N PROVE plan[n] \in ops /\ Rank(plan[n]) = n - 1
    <2>1. \A o \in ops : Rank(o) = Cardinality({p \in ops : InsertedBefore(b, p, o)})
        BY <1>4
    <2>2. \E o \in ops : Cardinality({p \in ops : InsertedBefore(b, p, o)}) = n - 1
        <3> HIDE DEF Rank, ops, N
        <3> QED BY <1>2, <2>1
    <2>3. plan[n] = CHOOSE o \in ops : Cardinality({p \in ops : InsertedBefore(b, p, o)}) = n - 1
        <3> HIDE DEF ops, plan, N
        <3> QED BY <1>5
    <2>4. plan[n] \in ops /\ Cardinality({p \in ops : InsertedBefore(b, p, plan[n])}) = n - 1
        <3> HIDE DEF ops, plan, N
        <3> QED BY <2>2, <2>3
    <2> HIDE DEF Rank, ops, N, plan
    <2> QED BY <2>1, <2>4
<1> HIDE DEF Rank, ops, N, plan
<1>7. plan \in [1 .. N -> ops]
    <2> DEFINE e(n) == CHOOSE o \in ops : Cardinality({p \in ops : InsertedBefore(b, p, o)}) = n - 1
    <2>1. plan = [n \in 1 .. N |-> e(n)]
        BY <1>5
    <2> HIDE DEF e
    <2> QED BY <1>6, <2>1
<1>8. plan \in Seq(ops) /\ Len(plan) = N /\ DOMAIN plan = 1 .. N
    BY <1>3, <1>7
<1>9. \A n \in 1 .. N : PlannedAs(b, mapped, plan[n])
    BY <1>6, InsertionsFit DEF ops
<1>10. ASSUME NEW m \in 1 .. N, NEW n \in 1 .. N, m < n
       PROVE  InsertedBefore(b, plan[m], plan[n]) /\ plan[m].field # plan[n].field
    <2>1. plan[m] \in ops /\ plan[n] \in ops /\ Rank(plan[m]) = m - 1 /\ Rank(plan[n]) = n - 1
        BY <1>6
    <2>2. plan[m] # plan[n]
        BY <1>3, <1>10, <2>1
    <2>3. <<plan[n], plan[m]>> \notin R
        <3>1. <<plan[n], plan[m]>> \in R => n - 1 < m - 1
            BY <1>2, <2>1
        <3> QED BY <1>3, <1>10, <3>1
    <2>4. <<plan[m], plan[n]>> \in R
        <3> HIDE DEF R
        <3> QED BY <1>1, <2>1, <2>2, <2>3
    <2>5. InsertedBefore(b, plan[m], plan[n])
        BY <2>4
    <2>6. plan[m].field # plan[n].field
        BY <2>1, <2>2, InsertionsFit DEF ops
    <2> QED BY <2>5, <2>6
<1> QED BY <1>3, <1>8, <1>9, <1>10 DEF PlanFits, plan, ops


(* The places of the fields after each insertion of a plan.                *)
Places(at, mapped, plan) ==
  /\ at[0] = Start(mapped)
  /\ \A n \in 1 .. Len(plan) : at[n] = Moved(at[n - 1], plan[n])

Shifting(g, start, plan, N) ==
  g = [n \in 0 .. N |-> IF n = 0 THEN start ELSE Moved(g[n - 1], plan[n])]

LEMMA ShiftsExist ==
    ASSUME NEW N \in Nat, NEW start, NEW plan
    PROVE  \E g : Shifting(g, start, plan, N)
<1> DEFINE Good(m, h) == /\ DOMAIN h = 0 .. m /\ h = [n \in 0 .. m |-> h[n]]
                         /\ h[0] = start
                         /\ \A n \in 1 .. m : h[n] = Moved(h[n - 1], plan[n])
           T == {m \in 0 .. N : ~\E h : Good(m, h)}
<1>1. T = {}
    <2> SUFFICES ASSUME T # {} PROVE FALSE
        OBVIOUS
    <2>1. PICK m \in T : \A k \in T : m <= k
        <3>1. T \in SUBSET Nat /\ T # {}
            OBVIOUS
        <3> HIDE DEF T
        <3> QED BY <3>1, LeastOf
    <2>2. m \in 0 .. N /\ ~\E h : Good(m, h)
        BY <2>1
    <2>3. CASE m = 0
        <3> DEFINE h == [n \in 0 .. 0 |-> start]
        <3>1. Good(0, h)
            OBVIOUS
        <3> HIDE DEF h, Good
        <3> QED BY <2>2, <2>3, <3>1
    <2>4. CASE m # 0
        <3>1. m - 1 \in 0 .. N /\ m - 1 \notin T
            <4>1. m - 1 \in 0 .. N /\ ~(m <= m - 1)
                BY <2>2, <2>4
            <4> HIDE DEF T
            <4> QED BY <2>1, <4>1
        <3>2. PICK h : Good(m - 1, h)
            BY <3>1
        <3> DEFINE g == [n \in 0 .. m |-> IF n = m THEN Moved(h[m - 1], plan[m]) ELSE h[n]]
        <3>3. DOMAIN g = 0 .. m /\ g = [n \in 0 .. m |-> g[n]]
            OBVIOUS
        <3>4. /\ g[m] = Moved(h[m - 1], plan[m])
              /\ \A n \in 0 .. m - 1 : g[n] = h[n]
            BY <2>2, <2>4
        <3> HIDE DEF g
        <3>5. g[0] = start
            BY <2>2, <2>4, <3>2, <3>4
        <3>6. ASSUME NEW n \in 1 .. m PROVE g[n] = Moved(g[n - 1], plan[n])
            <4>1. g[n - 1] = h[n - 1]
                BY <2>2, <2>4, <3>4
            <4>2. CASE n = m
                BY <3>4, <4>1, <4>2
            <4>3. CASE n # m
                <5>1. n \in 1 .. m - 1 /\ n \in 0 .. m - 1
                    BY <2>2, <4>3
                <5> QED BY <3>2, <3>4, <4>1, <5>1
            <4> QED BY <4>2, <4>3
        <3>7. Good(m, g)
            BY <3>3, <3>5, <3>6
        <3> HIDE DEF Good
        <3> QED BY <2>2, <3>7
    <2> QED BY <2>3, <2>4
<1>2. PICK h : Good(N, h)
    <2>1. N \in 0 .. N
        OBVIOUS
    <2>2. N \notin T
        <3> HIDE DEF T
        <3> QED BY <1>1
    <2> HIDE DEF Good
    <2> QED BY <2>1, <2>2
<1>3. \A n \in 0 .. N : h[n] = IF n = 0 THEN start ELSE Moved(h[n - 1], plan[n])
    <2>1. h[0] = start
        BY <1>2
    <2>2. \A n \in 1 .. N : h[n] = Moved(h[n - 1], plan[n])
        BY <1>2
    <2>3. ASSUME NEW n \in 0 .. N PROVE h[n] = IF n = 0 THEN start ELSE Moved(h[n - 1], plan[n])
        <3>1. CASE n = 0
            BY <2>1, <3>1
        <3>2. CASE n # 0
            <4>1. n \in 1 .. N
                BY <3>2
            <4> QED BY <2>2, <3>2, <4>1
        <3> QED BY <3>1, <3>2
    <2> QED BY <2>3
<1>4. h = [n \in 0 .. N |-> h[n]]
    BY <1>2
<1> HIDE DEF Good
<1>5. h = [n \in 0 .. N |-> IF n = 0 THEN start ELSE Moved(h[n - 1], plan[n])]
    <2> DEFINE e(n) == IF n = 0 THEN start ELSE Moved(h[n - 1], plan[n])
    <2>1. \A n \in 0 .. N : h[n] = e(n)
        BY <1>3
    <2>2. h = [n \in 0 .. N |-> e(n)]
        <3> HIDE DEF e
        <3> QED BY <1>4, <2>1
    <2> QED BY <2>2
<1> QED BY <1>5 DEF Shifting

LEMMA PlacesOf ==
    ASSUME NEW b, NEW mapped, NEW plan, Len(plan) \in Nat
    PROVE  \E at : Places(at, mapped, plan) /\ Final(b, mapped, plan) = at[Len(plan)]
<1> DEFINE N == Len(plan)
           start == Start(mapped)
           at == CHOOSE g : Shifting(g, start, plan, N)
<1>1. Shifting(at, start, plan, N)
    <2>1. \E g : Shifting(g, start, plan, N)
        BY ShiftsExist
    <2> HIDE DEF N, start
    <2> QED BY <2>1
<1>2. Final(b, mapped, plan) = at[N]
    BY DEF Final, Shifting
<1> HIDE DEF at
<1>3. at[0] = start /\ \A n \in 1 .. N : at[n] = Moved(at[n - 1], plan[n])
    <2>1. at = [n \in 0 .. N |-> IF n = 0 THEN start ELSE Moved(at[n - 1], plan[n])]
        BY <1>1 DEF Shifting
    <2>2. N \in Nat
        OBVIOUS
    <2> DEFINE e(n) == IF n = 0 THEN start ELSE Moved(at[n - 1], plan[n])
    <2>3. at = [n \in 0 .. N |-> e(n)]
        BY <2>1
    <2>4. e(0) = start /\ \A n \in 1 .. N : e(n) = Moved(at[n - 1], plan[n])
        OBVIOUS
    <2> HIDE DEF e, N, start
    <2>5. \A n \in 0 .. N : at[n] = e(n)
        BY <2>3
    <2> QED BY <2>2, <2>4, <2>5
<1> QED BY <1>2, <1>3 DEF Places


(* An element put into a sequence: what was at or behind it moves on.      *)
With(s, e, at) == SubSeq(s, 1, at - 1) \o <<e>> \o SubSeq(s, at, Len(s))

Widened(S, s, e, at, t) ==
  /\ t \in Seq(S) /\ Len(t) = Len(s) + 1
  /\ \A p \in 1 .. Len(s) + 1 :
       t[p] = IF p < at THEN s[p] ELSE IF p = at THEN e ELSE s[p - 1]

LEMMA InsertedAt ==
    ASSUME NEW S, NEW s \in Seq(S), NEW e \in S, NEW at \in 1 .. Len(s) + 1
    PROVE  Widened(S, s, e, at, With(s, e, at))
<1> DEFINE N == Len(s)
           left == SubSeq(s, 1, at - 1)
           right == SubSeq(s, at, N)
           front == left \o <<e>>
           t == front \o right
<1>1. N \in Nat /\ at \in Int /\ at - 1 \in Int /\ \A i \in 1 .. N : s[i] \in S
    BY LenProperties, ElementOfSeq
<1>2. left \in Seq(S) /\ Len(left) = at - 1 /\ \A i \in 1 .. at - 1 : left[i] = s[i]
    <2>1. \A i \in 1 .. at - 1 : s[i] \in S
        BY <1>1
    <2>2. /\ left \in Seq(S)
          /\ Len(left) = IF 1 <= at - 1 THEN at - 1 - 1 + 1 ELSE 0
          /\ \A i \in 1 .. at - 1 - 1 + 1 : left[i] = s[1 + i - 1]
        BY <1>1, <2>1, SubSeqProperties
    <2> HIDE DEF left, N
    <2>3. Len(left) = at - 1
        BY <1>1, <2>2
    <2>4. ASSUME NEW i \in 1 .. at - 1 PROVE left[i] = s[i]
        <3>1. i \in 1 .. at - 1 - 1 + 1 /\ 1 + i - 1 = i
            BY <1>1
        <3> QED BY <2>2, <3>1
    <2> QED BY <2>2, <2>3, <2>4
<1>3. right \in Seq(S) /\ Len(right) = N - at + 1 /\ \A i \in 1 .. N - at + 1 : right[i] = s[at + i - 1]
    <2>1. \A i \in at .. N : s[i] \in S
        BY <1>1
    <2>2. /\ right \in Seq(S)
          /\ Len(right) = IF at <= N THEN N - at + 1 ELSE 0
          /\ \A i \in 1 .. N - at + 1 : right[i] = s[at + i - 1]
        BY <1>1, <2>1, SubSeqProperties
    <2> HIDE DEF right
    <2>3. Len(right) = N - at + 1
        BY <1>1, <2>2
    <2> QED BY <2>2, <2>3
<1>4. <<e>> \in Seq(S) /\ Len(<<e>>) = 1 /\ <<e>>[1] = e
    OBVIOUS
<1> DEFINE one == <<e>>
<1> HIDE DEF left, right, N, one
<1>5. /\ front \in Seq(S) /\ Len(front) = at
      /\ \A i \in 1 .. at - 1 : front[i] = s[i]
      /\ front[at] = e
    <2>0. front = left \o one /\ one \in Seq(S) /\ Len(one) = 1 /\ one[1] = e
        BY <1>4 DEF one
    <2>1. /\ front \in Seq(S)
          /\ Len(front) = Len(left) + Len(one)
          /\ \A i \in 1 .. Len(left) + Len(one) :
               front[i] = IF i <= Len(left) THEN left[i] ELSE one[i - Len(left)]
        BY <1>2, <2>0, ConcatProperties
    <2> HIDE DEF front
    <2>2. at \in 1 .. at /\ at \in 1 .. at - 1 + 1 /\ ~(at <= at - 1) /\ at - (at - 1) = 1
        BY <1>1
    <2>3. Len(front) = at /\ front[at] = e
        BY <1>1, <1>2, <2>0, <2>1, <2>2
    <2>4. ASSUME NEW i \in 1 .. at - 1 PROVE front[i] = s[i]
        <3>1. i \in 1 .. at - 1 + 1 /\ i <= at - 1
            BY <1>1
        <3>2. i \in 1 .. Len(left) + Len(one) /\ i <= Len(left)
            BY <1>2, <2>0, <3>1
        <3>3. front[i] = left[i]
            BY <2>1, <3>2
        <3>4. left[i] = s[i]
            BY <1>2
        <3> QED BY <3>3, <3>4
    <2> QED BY <2>1, <2>3, <2>4
<1>6. /\ t \in Seq(S)
      /\ Len(t) = at + (N - at + 1)
      /\ \A i \in 1 .. at + (N - at + 1) :
           t[i] = IF i <= at THEN front[i] ELSE right[i - at]
    <2> HIDE DEF front
    <2>1. front \in Seq(S) /\ right \in Seq(S) /\ Len(front) = at /\ Len(right) = N - at + 1
        BY <1>3, <1>5
    <2>2. /\ t \in Seq(S)
          /\ Len(t) = Len(front) + Len(right)
          /\ \A i \in 1 .. Len(front) + Len(right) :
               t[i] = IF i <= Len(front) THEN front[i] ELSE right[i - Len(front)]
        BY <2>1, ConcatProperties
    <2> HIDE DEF t
    <2> QED BY <2>1, <2>2
<1> HIDE DEF front, t
<1>7. Len(t) = N + 1
    BY <1>1, <1>6
<1>8. ASSUME NEW p \in 1 .. N + 1
      PROVE  t[p] = IF p < at THEN s[p] ELSE IF p = at THEN e ELSE s[p - 1]
    <2>1. p \in 1 .. at + (N - at + 1)
        BY <1>1
    <2>2. CASE p < at
        <3>1. p \in 1 .. at - 1 /\ p <= at
            BY <1>1, <2>2
        <3> QED BY <1>5, <1>6, <2>1, <2>2, <3>1
    <2>3. CASE p = at
        <3>1. p <= at /\ ~(p < at)
            BY <1>1, <2>3
        <3> QED BY <1>5, <1>6, <2>1, <2>3, <3>1
    <2>4. CASE p > at
        <3>1. p - at \in 1 .. N - at + 1 /\ ~(p <= at) /\ ~(p < at) /\ p # at /\ at + (p - at) - 1 = p - 1
            BY <1>1, <2>4
        <3>2. t[p] = right[p - at]
            BY <1>6, <2>1, <3>1
        <3>3. right[p - at] = s[at + (p - at) - 1]
            BY <1>3, <3>1
        <3> QED BY <3>1, <3>2, <3>3
    <2> QED BY <1>1, <2>2, <2>3, <2>4
<1>9. t = With(s, e, at)
    BY DEF t, front, left, right, N, one, With
<1> QED BY <1>6, <1>7, <1>8, <1>9 DEF Widened, N


(* After k insertions: where the fields are,                               *)
PlacesFit(b, mapped, plan, k, pl) ==
  /\ DOMAIN pl = Present(mapped) \cup {plan[n].field : n \in 1 .. k}
  /\ \A f \in DOMAIN pl : pl[f] \in 1 .. Len(mapped) + k
  /\ \A f \in Present(mapped) :
       (\A n \in 1 .. k : plan[n].before > Start(mapped)[f]) => pl[f] = Start(mapped)[f]
  /\ \A f \in DOMAIN pl \ Present(mapped) : pl[f] >= Anchor(b, mapped, f)
  /\ \A f, g \in DOMAIN pl \ Present(mapped) :
       Anchor(b, mapped, f) = Anchor(b, mapped, g) /\ Ordinal(b, f) < Ordinal(b, g) => pl[f] < pl[g]

(* and what the worksheet is: the columns that were there, in their order, *)
(* each field in its place, and none of the former between a new field and *)
(* the one it follows.                                                     *)
GridFits(b, mapped, k, pl, grid) ==
  /\ grid \in Seq(DOMAIN mapped \cup DOMAIN b.words)
  /\ Len(grid) = Len(mapped) + k
  /\ \A c \in DOMAIN mapped : \E p \in 1 .. Len(mapped) + k : grid[p] = c
  /\ \A p, q \in 1 .. Len(mapped) + k :
       p < q /\ grid[p] \in DOMAIN mapped /\ grid[q] \in DOMAIN mapped => grid[p] < grid[q]
  /\ \A f \in DOMAIN pl : grid[pl[f]] = IF f \in Present(mapped) THEN Start(mapped)[f] ELSE f

FollowersFit(b, mapped, k, pl, grid) ==
  \A f \in DOMAIN pl \ Present(mapped) :
     Preceding(b, mapped, f) # {} =>
       /\ pl[Predecessor(b, mapped, f)] < pl[f]
       /\ \A p \in 1 .. Len(mapped) + k :
            pl[Predecessor(b, mapped, f)] < p /\ p < pl[f] => grid[p] \notin DOMAIN mapped

PlacesMoved(b, mapped, plan, k, pl) ==
  LET o == plan[k + 1] next == Moved(pl, o) IN
  /\ PlacesFit(b, mapped, plan, k + 1, next)
  /\ o.field \notin DOMAIN pl
  /\ DOMAIN next = DOMAIN pl \cup {o.field}
  /\ next[o.field] = o.before
  /\ \A f \in DOMAIN pl : next[f] = IF pl[f] >= o.before THEN pl[f] + 1 ELSE pl[f]

LEMMA PlacesMove ==
    ASSUME NEW b, BookFits(b), NEW mapped, MappingFits(b, mapped),
           NEW plan, PlanFits(b, mapped, plan), NEW k \in 0 .. Len(plan) - 1,
           NEW pl, PlacesFit(b, mapped, plan, k, pl)
    PROVE  PlacesMoved(b, mapped, plan, k, pl)
<1> DEFINE L == Len(mapped)
           N == Len(plan)
           o == plan[k + 1]
           e == o.field
           B == o.before
           P == Present(mapped)
           next == Moved(pl, o)
           Anc(f) == Anchor(b, mapped, f)
           Ord(f) == Ordinal(b, f)
           Old == DOMAIN pl \ P
<1>1. L \in Nat /\ N \in Nat /\ k \in Nat /\ k + 1 \in 1 .. N
    BY DEF MappingFits, PlanFits
<1>2. e \in DOMAIN b.words /\ e \notin P /\ B = Anc(e) /\ B \in 1 .. L + 1 /\ B \in Nat
    BY <1>1 DEF PlanFits, PlannedAs
<1>3. \A n \in 1 .. k : /\ n \in 1 .. N /\ n < k + 1
                        /\ InsertedBefore(b, plan[n], o) /\ plan[n].field # e
    <2>1. \A n \in 1 .. k : n \in 1 .. N /\ n < k + 1
        BY <1>1
    <2> QED BY <1>1, <2>1 DEF PlanFits
<1>4. /\ DOMAIN pl = P \cup {plan[n].field : n \in 1 .. k}
      /\ \A f \in DOMAIN pl : pl[f] \in 1 .. L + k
    BY DEF PlacesFit
<1>5. e \notin DOMAIN pl
    BY <1>2, <1>3, <1>4
<1>6. /\ DOMAIN next = DOMAIN pl \cup {e}
      /\ next[e] = B
      /\ \A f \in DOMAIN pl : next[f] = IF pl[f] >= B THEN pl[f] + 1 ELSE pl[f]
    BY <1>5 DEF Moved
<1>7. \A f \in Old : \E n \in 1 .. k : plan[n].field = f
    BY <1>4
<1>8. ASSUME NEW f \in Old
      PROVE  /\ f \in DOMAIN b.words /\ Anc(f) \in Nat /\ Ord(f) \in Nat /\ Anc(f) >= B
             /\ Anc(f) = B => Ord(e) < Ord(f)
    <2>1. PICK n \in 1 .. k : plan[n].field = f
        BY <1>7
    <2>2. PlannedAs(b, mapped, plan[n]) /\ InsertedBefore(b, plan[n], o)
        BY <1>3 DEF PlanFits
    <2>3. f \in DOMAIN b.words /\ plan[n].before = Anc(f) /\ Anc(f) \in 1 .. L + 1
        BY <2>1, <2>2 DEF PlannedAs
    <2>4. Ord(f) \in Nat /\ Ord(e) \in Nat
        BY <1>2, <2>3, Ordinals
    <2>5. Anc(f) > B \/ (Anc(f) = B /\ Ord(f) > Ord(e))
        BY <2>1, <2>2, <2>3 DEF InsertedBefore
    <2>6. Anc(f) \in Nat
        BY <1>1, <2>3
    <2> HIDE DEF Anc, Ord, B
    <2> QED BY <1>2, <2>3, <2>4, <2>5, <2>6
<1>9. \A f \in P : Start(mapped)[f] \in Nat
    <2>1. \A f \in P : Start(mapped)[f] \in 1 .. L
        BY Starts
    <2> QED BY <1>1, <2>1
<1>10. /\ \A f \in P : (\A n \in 1 .. k : plan[n].before > Start(mapped)[f]) => pl[f] = Start(mapped)[f]
       /\ \A f \in Old : pl[f] >= Anc(f)
       /\ \A f, g \in Old : Anc(f) = Anc(g) /\ Ord(f) < Ord(g) => pl[f] < pl[g]
    BY DEF PlacesFit
<1> HIDE DEF L, N, o, e, B, P, next, Anc, Ord
<1>11. \A f \in DOMAIN pl : pl[f] \in Nat /\ pl[f] >= 1
    BY <1>1, <1>4
<1>12. DOMAIN next = P \cup {plan[n].field : n \in 1 .. k + 1}
    <2>1. \A n \in 1 .. k + 1 : n \in 1 .. k \/ n = k + 1
        BY <1>1
    <2>2. \A n \in 1 .. k : n \in 1 .. k + 1
        BY <1>1
    <2>3. {plan[n].field : n \in 1 .. k + 1} = {plan[n].field : n \in 1 .. k} \cup {e}
        BY <1>1, <2>1, <2>2 DEF e, o
    <2> QED BY <1>4, <1>6, <2>3
<1>13. ASSUME NEW f \in DOMAIN next PROVE next[f] \in 1 .. L + (k + 1)
    <2>1. CASE f = e
        BY <1>1, <1>2, <1>6, <2>1
    <2>2. CASE f \in DOMAIN pl
        BY <1>1, <1>2, <1>4, <1>6, <2>2
    <2> QED BY <1>6, <2>1, <2>2
<1>14. ASSUME NEW f \in P, \A n \in 1 .. k + 1 : plan[n].before > Start(mapped)[f]
       PROVE  next[f] = Start(mapped)[f]
    <2>1. \A n \in 1 .. k : n \in 1 .. k + 1
        BY <1>1
    <2>2. pl[f] = Start(mapped)[f]
        BY <1>10, <1>14, <2>1
    <2>3. B > Start(mapped)[f]
        BY <1>1, <1>14 DEF B, o
    <2>4. f \in DOMAIN pl
        BY <1>4
    <2> QED BY <1>2, <1>6, <1>9, <2>2, <2>3, <2>4
<1>15. ASSUME NEW f \in DOMAIN next \ P PROVE next[f] >= Anc(f)
    <2>1. CASE f = e
        BY <1>2, <1>6, <2>1
    <2>2. CASE f \in Old
        BY <1>2, <1>6, <1>8, <1>10, <1>11, <2>2
    <2> QED BY <1>6, <2>1, <2>2
<1>16. ASSUME NEW f \in DOMAIN next \ P, NEW g \in DOMAIN next \ P,
              Anc(f) = Anc(g), Ord(f) < Ord(g)
       PROVE  next[f] < next[g]
    <2>0. Ord(e) \in Nat
        BY <1>2, Ordinals DEF Ord
    <2>1. CASE f = e /\ g = e
        BY <1>16, <2>0, <2>1
    <2>2. CASE f = e /\ g \in Old
        <3>1. pl[g] >= B /\ pl[g] \in Nat
            BY <1>2, <1>8, <1>10, <1>11, <1>16, <2>2
        <3>2. next[g] = pl[g] + 1
            BY <1>2, <1>6, <2>2, <3>1
        <3> QED BY <1>2, <1>6, <2>2, <3>1, <3>2
    <2>3. CASE f \in Old /\ g = e
        <3>1. Anc(f) = B /\ Ord(e) < Ord(f) /\ Ord(f) \in Nat
            BY <1>2, <1>8, <1>16, <2>3
        <3> QED BY <1>16, <2>0, <2>3, <3>1
    <2>4. CASE f \in Old /\ g \in Old
        <3>1. pl[f] < pl[g] /\ pl[f] \in Nat /\ pl[g] \in Nat
            BY <1>10, <1>11, <1>16, <2>4
        <3>2. /\ next[f] = IF pl[f] >= B THEN pl[f] + 1 ELSE pl[f]
              /\ next[g] = IF pl[g] >= B THEN pl[g] + 1 ELSE pl[g]
            BY <1>6, <2>4
        <3> QED BY <1>2, <3>1, <3>2
    <2> QED BY <1>6, <2>1, <2>2, <2>3, <2>4
<1>17. PlacesFit(b, mapped, plan, k + 1, next)
    BY <1>12, <1>13, <1>14, <1>15, <1>16 DEF PlacesFit, P, Anc, Ord, L
<1> QED BY <1>5, <1>6, <1>17 DEF PlacesMoved, next, o, e, B


GridWith(grid, o) ==
  SubSeq(grid, 1, o.before - 1) \o <<o.field>> \o SubSeq(grid, o.before, Len(grid))

LEMMA GridMoves ==
    ASSUME NEW b, BookFits(b), NEW mapped, MappingFits(b, mapped),
           NEW plan, PlanFits(b, mapped, plan), NEW k \in 0 .. Len(plan) - 1,
           NEW pl, PlacesFit(b, mapped, plan, k, pl),
           NEW grid, GridFits(b, mapped, k, pl, grid), FollowersFit(b, mapped, k, pl, grid)
    PROVE  LET next == Moved(pl, plan[k + 1]) new == GridWith(grid, plan[k + 1]) IN
           GridFits(b, mapped, k + 1, next, new) /\ FollowersFit(b, mapped, k + 1, next, new)
<1> DEFINE M == Len(mapped) + k
           C == DOMAIN mapped
           o == plan[k + 1]
           e == o.field
           B == o.before
           P == Present(mapped)
           next == Moved(pl, o)
           new == GridWith(grid, o)
           Up(p) == IF p >= B THEN p + 1 ELSE p
           Down(p) == IF p > B THEN p - 1 ELSE p
           S == C \cup DOMAIN b.words
<1>1. Len(mapped) \in Nat /\ M \in Nat /\ k \in Nat /\ k + 1 \in 1 .. Len(plan) /\ M + 1 = Len(mapped) + (k + 1)
    BY DEF MappingFits, PlanFits
<1>2. /\ e \in DOMAIN b.words /\ e \notin P /\ B = Anchor(b, mapped, e)
      /\ B \in 1 .. Len(mapped) + 1
    BY <1>1 DEF PlanFits, PlannedAs
<1>3. B \in 1 .. M + 1 /\ B \in Nat
    <2> HIDE DEF B
    <2> QED BY <1>1, <1>2
<1>4. e \notin C
    <2>1. C \subseteq Nat
        BY DEF MappingFits
    <2>2. DOMAIN b.words \cap Nat = {}
        BY DEF BookFits
    <2> HIDE DEF e, C
    <2> QED BY <1>2, <2>1, <2>2
<1>5. /\ grid \in Seq(S) /\ Len(grid) = M
      /\ \A c \in C : \E p \in 1 .. M : grid[p] = c
      /\ \A p, q \in 1 .. M : p < q /\ grid[p] \in C /\ grid[q] \in C => grid[p] < grid[q]
      /\ \A f \in DOMAIN pl : grid[pl[f]] = IF f \in P THEN Start(mapped)[f] ELSE f
    <2> HIDE DEF C, P, S, M
    <2>1. grid \in Seq(S) /\ Len(grid) = M
        BY DEF GridFits, C, S, M
    <2>2. \A c \in C : \E p \in 1 .. M : grid[p] = c
        BY DEF GridFits, C, M
    <2>3. \A p, q \in 1 .. M : p < q /\ grid[p] \in C /\ grid[q] \in C => grid[p] < grid[q]
        BY DEF GridFits, C, M
    <2>4. \A f \in DOMAIN pl : grid[pl[f]] = IF f \in P THEN Start(mapped)[f] ELSE f
        BY DEF GridFits, P
    <2> QED BY <2>1, <2>2, <2>3, <2>4
<1>6. /\ new \in Seq(S) /\ Len(new) = M + 1
      /\ \A p \in 1 .. M + 1 : new[p] = IF p < B THEN grid[p] ELSE IF p = B THEN e ELSE grid[p - 1]
    <2>1. e \in S /\ B \in 1 .. Len(grid) + 1
        BY <1>2, <1>3, <1>5
    <2>2. new = With(grid, e, B)
        BY DEF GridWith, With
    <2>3. grid \in Seq(S) /\ Len(grid) = M
        BY <1>5
    <2> HIDE DEF new, S, e, B, M
    <2>4. Widened(S, grid, e, B, new)
        BY <2>1, <2>2, <2>3, InsertedAt
    <2> QED BY <2>3, <2>4 DEF Widened
<1>7. /\ PlacesFit(b, mapped, plan, k + 1, next)
      /\ e \notin DOMAIN pl /\ DOMAIN next = DOMAIN pl \cup {e} /\ next[e] = B
      /\ \A f \in DOMAIN pl : next[f] = Up(pl[f])
    <2>1. PlacesMoved(b, mapped, plan, k, pl)
        BY PlacesMove
    <2> QED BY <2>1 DEF PlacesMoved
<1>8. P \subseteq DOMAIN pl /\ \A f \in DOMAIN pl : pl[f] \in 1 .. M
    BY DEF PlacesFit
<1> HIDE DEF M, C, o, e, B, P, next, new, S
<1>9. ASSUME NEW p \in 1 .. M PROVE Up(p) \in 1 .. M + 1 /\ new[Up(p)] = grid[p]
    <2>1. CASE p >= B
        <3>1. p + 1 \in 1 .. M + 1 /\ ~(p + 1 < B) /\ p + 1 # B /\ p + 1 - 1 = p
            BY <1>1, <1>3, <2>1
        <3>2. new[p + 1] = grid[p + 1 - 1]
            BY <1>6, <3>1
        <3> QED BY <2>1, <3>1, <3>2
    <2>2. CASE p < B
        <3>1. p \in 1 .. M + 1 /\ ~(p >= B) /\ p # B
            BY <1>1, <1>3, <2>2
        <3> QED BY <1>6, <2>2, <3>1
    <2>3. p >= B \/ p < B
        BY <1>1, <1>3
    <2> QED BY <2>1, <2>2, <2>3
<1>10. ASSUME NEW p \in 1 .. M + 1, p # B PROVE Down(p) \in 1 .. M /\ new[p] = grid[Down(p)]
    <2>1. CASE p > B
        <3>1. p - 1 \in 1 .. M /\ ~(p < B)
            BY <1>1, <1>3, <2>1
        <3> QED BY <1>6, <1>10, <2>1, <3>1
    <2>2. CASE p < B
        <3>1. p \in 1 .. M /\ ~(p > B)
            BY <1>1, <1>3, <2>2
        <3> QED BY <1>6, <2>2, <3>1
    <2> QED BY <1>1, <1>3, <1>10, <2>1, <2>2
<1>11. new[B] = e
    <2>1. ~(B < B)
        BY <1>3
    <2> QED BY <1>3, <1>6, <2>1
<1>12. ASSUME NEW c \in C PROVE \E p \in 1 .. M + 1 : new[p] = c
    BY <1>5, <1>9
<1>13. ASSUME NEW p \in 1 .. M + 1, NEW q \in 1 .. M + 1, p < q, new[p] \in C, new[q] \in C
       PROVE  new[p] < new[q]
    <2>1. p # B /\ q # B
        BY <1>4, <1>11, <1>13
    <2>2. /\ Down(p) \in 1 .. M /\ new[p] = grid[Down(p)]
          /\ Down(q) \in 1 .. M /\ new[q] = grid[Down(q)]
        BY <1>10, <2>1
    <2>3. Down(p) < Down(q)
        BY <1>1, <1>3, <1>13, <2>1
    <2> HIDE DEF Down
    <2> QED BY <1>5, <1>13, <2>2, <2>3
<1>14. ASSUME NEW f \in DOMAIN next PROVE new[next[f]] = IF f \in P THEN Start(mapped)[f] ELSE f
    <2>1. CASE f = e
        BY <1>2, <1>7, <1>11, <2>1
    <2>2. CASE f \in DOMAIN pl
        <3>1. new[Up(pl[f])] = grid[pl[f]]
            BY <1>8, <1>9, <2>2
        <3> HIDE DEF Up
        <3> QED BY <1>5, <1>7, <2>2, <3>1
    <2> QED BY <1>7, <2>1, <2>2
<1>15. GridFits(b, mapped, k + 1, next, new)
    BY <1>1, <1>6, <1>12, <1>13, <1>14 DEF GridFits, C, P, S
<1>16. ASSUME NEW f \in DOMAIN next \ P, Preceding(b, mapped, f) # {}
       PROVE  LET q == Predecessor(b, mapped, f) IN
              /\ next[q] < next[f]
              /\ \A p \in 1 .. M + 1 : next[q] < p /\ p < next[f] => new[p] \notin C
    <2> DEFINE q == Predecessor(b, mapped, f)
    <2>0. f \in DOMAIN b.words
        <3>1. CASE f = e
            BY <1>2, <3>1
        <3>2. CASE f \in DOMAIN pl
            <4>1. PICK n \in 1 .. k : f = plan[n].field
                BY <1>16, <3>2 DEF PlacesFit, P
            <4>2. n \in 1 .. Len(plan)
                BY <1>1
            <4> QED BY <4>1, <4>2 DEF PlanFits, PlannedAs
        <3> QED BY <1>7, <3>1, <3>2
    <2>1. q \in P /\ Anchor(b, mapped, f) = Start(mapped)[q] + 1
        BY <1>16, <2>0, Anchors DEF P
    <2>2. q \in DOMAIN pl /\ pl[q] \in 1 .. M /\ next[q] = Up(pl[q])
        BY <1>7, <1>8, <2>1
    <2> HIDE DEF q
    <2>3. CASE f = e
        <3>1. Start(mapped)[q] + 1 = B /\ Start(mapped)[q] \in 1 .. Len(mapped)
            BY <1>2, <2>1, <2>3, Starts DEF P
        <3>2. ASSUME NEW n \in 1 .. k PROVE plan[n].before > Start(mapped)[q]
            <4>1. n \in 1 .. Len(plan) /\ n < k + 1
                BY <1>1
            <4>2. InsertedBefore(b, plan[n], o) /\ PlannedAs(b, mapped, plan[n])
                BY <1>1, <4>1 DEF PlanFits, o
            <4>3. plan[n].before >= B /\ plan[n].before \in 1 .. Len(mapped) + 1
                <5>1. plan[n].before \in 1 .. Len(mapped) + 1
                    BY <4>2 DEF PlannedAs
                <5>2. plan[n].before > B \/ plan[n].before = B
                    BY <4>2 DEF InsertedBefore, B
                <5> DEFINE y == plan[n].before
                <5> HIDE DEF y
                <5>3. y \in 1 .. Len(mapped) + 1 /\ (y > B \/ y = B)
                    BY <5>1, <5>2 DEF y
                <5>4. y >= B
                    BY <1>1, <1>3, <5>3
                <5> QED BY <5>3, <5>4 DEF y
            <4> DEFINE x == plan[n].before
            <4> HIDE DEF x
            <4>4. x >= B /\ x \in 1 .. Len(mapped) + 1
                BY <4>3 DEF x
            <4>5. x > Start(mapped)[q]
                BY <1>1, <1>3, <3>1, <4>4
            <4> QED BY <4>5 DEF x
        <3>3. pl[q] = Start(mapped)[q]
            BY <2>1, <3>2 DEF PlacesFit, P
        <3>4. next[q] = B - 1 /\ next[f] = B
            BY <1>1, <1>3, <1>7, <2>2, <2>3, <3>1, <3>3
        <3> HIDE DEF Up
        <3>5. \A p \in 1 .. M + 1 : ~(B - 1 < p /\ p < B)
            BY <1>1, <1>3
        <3>6. B - 1 < B
            BY <1>3
        <3> QED BY <3>4, <3>5, <3>6 DEF q
    <2>4. CASE f \in DOMAIN pl
        <3>1. /\ pl[q] < pl[f]
              /\ \A p \in 1 .. M : pl[q] < p /\ p < pl[f] => grid[p] \notin C
            BY <1>16, <2>4 DEF FollowersFit, P, q, M, C
        <3>2. next[f] = Up(pl[f]) /\ pl[f] \in 1 .. M
            BY <1>7, <1>8, <2>4
        <3>3. next[q] < next[f]
            BY <1>1, <1>3, <2>2, <3>1, <3>2
        <3>4. ASSUME NEW p \in 1 .. M + 1, next[q] < p, p < next[f] PROVE new[p] \notin C
            <4>1. CASE p = B
                BY <1>4, <1>11, <4>1
            <4>2. CASE p # B
                <5>1. Down(p) \in 1 .. M /\ new[p] = grid[Down(p)]
                    BY <1>10, <4>2
                <5>2. pl[q] < Down(p) /\ Down(p) < pl[f]
                    BY <1>1, <1>3, <2>2, <3>2, <3>4, <4>2
                <5> HIDE DEF Down
                <5> QED BY <3>1, <5>1, <5>2
            <4> QED BY <4>1, <4>2
        <3> QED BY <3>3, <3>4 DEF q
    <2> QED BY <1>7, <2>3, <2>4
<1>17. FollowersFit(b, mapped, k + 1, next, new)
    BY <1>1, <1>16 DEF FollowersFit, P, C
<1> QED BY <1>15, <1>17 DEF next, new, o


Mapped(b, r) == [c \in DOMAIN b.rows[r] |-> Mapping(b, b.rows[r], c)]

LEMMA FirstMappings ==
    ASSUME NEW b, NEW row, NEW c
    PROVE  /\ Doubled(row, row[c]) => FirstMapping(b, row, c) = [status |-> "duplicate", field |-> NoField]
           /\ ~Doubled(row, row[c]) /\ ExactField(b, row[c]) # NoField
                => FirstMapping(b, row, c) = [status |-> "matched", field |-> ExactField(b, row[c])]
<1> DEFINE w == row[c]
           exact == ExactField(b, w)
           twice == Doubled(row, w)
<1>1. FirstMapping(b, row, c) =
        CASE twice -> [status |-> "duplicate", field |-> NoField]
          [] ~twice /\ exact # NoField -> [status |-> "matched", field |-> exact]
          [] ~twice /\ exact = NoField /\ w \in DOMAIN b.like -> [status |-> "ambiguous", field |-> b.like[w]]
          [] OTHER -> [status |-> "extra", field |-> NoField]
    BY DEF FirstMapping
<1>2. twice \in BOOLEAN
    BY DEF Doubled
<1> HIDE DEF twice, exact
<1> QED BY <1>1, <1>2 DEF twice, exact

(* A word of an accepted rule is one column's: both ways of looking it up  *)
(* find that one.                                                          *)
LEMMA WordsAreOwned ==
    ASSUME NEW b, BookFits(b), RuleAccepted(b), NEW w
    PROVE  /\ FieldOf(b, w) = ExactField(b, w)
           /\ \A f \in DOMAIN b.words : w \in Words(b, f) => ExactField(b, w) = f
<1> DEFINE owners == {n \in DOMAIN b.fields : w \in Words(b, b.fields[n])}
<1>1. \A m, n \in owners : m = n
    <2>1. ASSUME NEW m \in owners, NEW n \in owners PROVE m = n
        <3>1. b.fields[m] \in DOMAIN b.words /\ b.fields[n] \in DOMAIN b.words
            BY DEF BookFits
        <3>2. b.fields[m] = b.fields[n]
            BY <3>1 DEF RuleAccepted
        <3> QED BY <3>2 DEF BookFits
    <2> QED BY <2>1
<1>2. owners \subseteq Nat
    BY DEF BookFits
<1>3. FieldOf(b, w) = IF owners = {} THEN NoField ELSE b.fields[CHOOSE n \in owners : \A o \in owners : o <= n]
    BY DEF FieldOf
<1>4. ExactField(b, w) = IF owners = {} THEN NoField ELSE b.fields[CHOOSE n \in owners : \A o \in owners : n <= o]
    BY DEF ExactField
<1>5. ASSUME NEW n \in owners PROVE FieldOf(b, w) = b.fields[n] /\ ExactField(b, w) = b.fields[n]
    <2>0. n \in Nat /\ n <= n
        BY <1>2
    <2> HIDE DEF owners
    <2>1. owners = {n} /\ n <= n
        BY <1>1, <2>0
    <2>2. (CHOOSE x \in owners : \A o \in owners : o <= x) = n
        BY <2>1
    <2>3. (CHOOSE x \in owners : \A o \in owners : x <= o) = n
        BY <2>1
    <2> QED BY <1>3, <1>4, <2>1, <2>2, <2>3
<1>6. FieldOf(b, w) = ExactField(b, w)
    <2>1. CASE owners = {}
        <3> HIDE DEF owners
        <3> QED BY <1>3, <1>4, <2>1
    <2>2. CASE owners # {}
        <3> HIDE DEF owners
        <3> QED BY <1>5, <2>2
    <2> QED BY <2>1, <2>2
<1>7. ASSUME NEW f \in DOMAIN b.words, w \in Words(b, f) PROVE ExactField(b, w) = f
    <2>1. PICK n \in DOMAIN b.fields : b.fields[n] = f
        BY DEF BookFits
    <2>2. n \in owners
        BY <1>7, <2>1
    <2> HIDE DEF owners
    <2> QED BY <1>5, <2>1, <2>2
<1> QED BY <1>6, <1>7

SettledMapping(mapped) == \A c \in DOMAIN mapped : mapped[c].status \notin {"ambiguous", "duplicate"}

LEMMA SettledColumns ==
    ASSUME NEW b, BookFits(b), RuleAccepted(b), NEW r \in DOMAIN b.rows, SettledMapping(Mapped(b, r))
    PROVE  LET row == b.rows[r] mapped == Mapped(b, r) IN
           /\ \A c \in DOMAIN mapped :
                mapped[c].status = "matched" =>
                  LET f == mapped[c].field IN
                  /\ row[c] \in Words(b, f)
                  /\ \A g \in DOMAIN b.words \ {f} : row[c] \notin Words(b, g)
                  /\ \A d \in DOMAIN row \ {c} : row[d] \notin Words(b, f)
           /\ Present(mapped) = Found(b, r)
<1> DEFINE row == b.rows[r]
           mapped == Mapped(b, r)
           first == [d \in DOMAIN row |-> FirstMapping(b, row, d)]
           E(c) == ExactField(b, row[c])
           One(c) == [status |-> "matched", field |-> E(c)]
<1>1. DOMAIN mapped = DOMAIN row
    BY DEF Mapped
<1>4. ASSUME NEW c \in DOMAIN row, first[c].status = "matched" PROVE E(c) # NoField /\ first[c] = One(c)
    <2>1. first[c] = FirstMapping(b, row, c)
        OBVIOUS
    <2> QED BY <1>4, <2>1 DEF FirstMapping
<1>2. ASSUME NEW c \in DOMAIN row
      PROVE  /\ first[c].status = "duplicate" => mapped[c].status = "duplicate"
             /\ first[c].status = "matched" /\ (\E d \in DOMAIN row \ {c} : first[d] = first[c])
                  => mapped[c].status = "duplicate"
             /\ mapped[c].status = "matched" => first[c].status = "matched" /\ mapped[c] = first[c]
             /\ mapped[c].status = "duplicate" \/ mapped[c] = first[c]
    <2>1. mapped[c] = IF first[c].status = "matched" /\ \E d \in DOMAIN row \ {c} : first[d] = first[c]
                      THEN [first[c] EXCEPT !.status = "duplicate"] ELSE first[c]
        BY DEF Mapped, Mapping
    <2>2. first[c].status = "matched" => [first[c] EXCEPT !.status = "duplicate"].status = "duplicate"
        <3> SUFFICES ASSUME first[c].status = "matched"
                     PROVE  [first[c] EXCEPT !.status = "duplicate"].status = "duplicate"
            OBVIOUS
        <3>1. first[c] = One(c)
            BY <1>4
        <3>2. [One(c) EXCEPT !.status = "duplicate"].status = "duplicate"
            OBVIOUS
        <3> HIDE DEF first, One
        <3> QED BY <3>1, <3>2
    <2> HIDE DEF mapped, first
    <2> QED BY <2>1, <2>2
<1>3. ASSUME NEW c \in DOMAIN row
      PROVE  /\ Doubled(row, row[c]) => first[c].status = "duplicate"
             /\ ~Doubled(row, row[c]) /\ E(c) # NoField => first[c] = One(c)
    BY FirstMappings
<1>5. \A c \in DOMAIN row : mapped[c].status # "duplicate"
    BY <1>1 DEF SettledMapping
<1> HIDE DEF mapped, first
<1>6. ASSUME NEW c \in DOMAIN row, E(c) # NoField
      PROVE  /\ first[c] = One(c) /\ mapped[c] = One(c)
             /\ \A d \in DOMAIN row \ {c} : first[d] # One(c)
    <2>1. first[c] = One(c)
        BY <1>2, <1>3, <1>5, <1>6
    <2>2. first[c].status = "matched"
        BY <2>1
    <2>3. mapped[c] = first[c] /\ \A d \in DOMAIN row \ {c} : first[d] # first[c]
        BY <1>2, <1>5, <2>2
    <2> QED BY <2>1, <2>3
<1>7. ASSUME NEW c \in DOMAIN row, mapped[c].status = "matched"
      PROVE  E(c) # NoField /\ mapped[c].field = E(c)
    <2>1. first[c].status = "matched" /\ mapped[c] = first[c]
        BY <1>2, <1>7
    <2>2. E(c) # NoField /\ first[c] = One(c)
        BY <1>4, <2>1
    <2> QED BY <2>1, <2>2
<1>8. ASSUME NEW c \in DOMAIN row, mapped[c].status = "matched"
      PROVE  /\ row[c] \in Words(b, mapped[c].field)
             /\ \A g \in DOMAIN b.words \ {mapped[c].field} : row[c] \notin Words(b, g)
             /\ \A d \in DOMAIN row \ {c} : row[d] \notin Words(b, mapped[c].field)
    <2> DEFINE f == mapped[c].field
    <2>1. E(c) # NoField /\ f = E(c)
        BY <1>7, <1>8
    <2> HIDE DEF f
    <2>2. f \in DOMAIN b.words /\ row[c] \in Words(b, f)
        BY <2>1, ExactFields
    <2>3. ASSUME NEW g \in DOMAIN b.words \ {f} PROVE row[c] \notin Words(b, g)
        BY <2>1, WordsAreOwned
    <2>4. ASSUME NEW d \in DOMAIN row \ {c}, row[d] \in Words(b, f) PROVE FALSE
        <3>1. E(d) = f
            BY <2>2, <2>4, WordsAreOwned
        <3>2. E(d) # NoField
            BY <2>1, <3>1
        <3>3. first[d] = One(d)
            BY <1>6, <3>2
        <3>4. One(d) = One(c)
            BY <2>1, <3>1
        <3>5. first[d] # One(c)
            BY <1>6, <2>1
        <3> QED BY <3>3, <3>4, <3>5
    <2> QED BY <2>2, <2>3, <2>4 DEF f
<1>9. ASSUME NEW f PROVE f \in Present(mapped) <=> f \in Found(b, r)
    <2>1. f \in Present(mapped) <=> \E c \in DOMAIN row : mapped[c].status = "matched" /\ mapped[c].field = f
        BY <1>1 DEF Present
    <2>2. f \in Found(b, r) <=> f # NoField /\ \E c \in DOMAIN row : FieldOf(b, row[c]) = f
        BY DEF Found
    <2>3. \A c \in DOMAIN row : FieldOf(b, row[c]) = E(c)
        BY WordsAreOwned
    <2>4. ASSUME NEW c \in DOMAIN row, mapped[c].status = "matched", mapped[c].field = f
          PROVE  f # NoField /\ E(c) = f
        BY <1>7, <2>4
    <2>5. ASSUME NEW c \in DOMAIN row, E(c) = f, f # NoField
          PROVE  mapped[c].status = "matched" /\ mapped[c].field = f
        <3>1. mapped[c] = One(c)
            BY <1>6, <2>5
        <3> QED BY <2>5, <3>1
    <2> HIDE DEF E
    <2> QED BY <2>1, <2>2, <2>3, <2>4, <2>5
<1>10. Present(mapped) = Found(b, r)
    BY <1>9
<1> QED BY <1>1, <1>8, <1>10 DEF mapped


(***************************************************************************)
(* The inductive invariant: the rule was accepted, the row is one of the   *)
(* worksheet, the mapping is that of the row, and while the columns are    *)
(* inserted the worksheet is what the first insertions of the plan make of *)
(* it, with the rest of the plan to come.                                  *)
(***************************************************************************)
LocatedRule ==
  hdrStep \in {"located", "manual_review", "skipped", "mapped", "rendering", "rendered"} =>
    Cardinality(Matching(hdrBook, hdrBook.named)) = 1 /\ hdrRow \in DOMAIN hdrBook.rows

MappedRule ==
  /\ hdrStep \in {"manual_review", "skipped", "mapped", "rendering", "rendered"} =>
       hdrMapped = Mapped(hdrBook, hdrRow)
  /\ hdrStep = "mapped" => SettledMapping(hdrMapped) /\ hdrBook.key \subseteq Present(hdrMapped)

RenderedAs(b, mapped, plan, k, at, grid) ==
  /\ k \in 0 .. Len(plan) /\ Places(at, mapped, plan)
  /\ PlacesFit(b, mapped, plan, k, at[k])
  /\ GridFits(b, mapped, k, at[k], grid)
  /\ FollowersFit(b, mapped, k, at[k], grid)

RenderRule ==
  hdrStep \in {"rendering", "rendered"} =>
    LET plan == Plan(hdrBook, hdrMapped) IN
    \E k \in 0 .. Len(plan) : \E at :
      /\ RenderedAs(hdrBook, hdrMapped, plan, k, at, hdrGrid)
      /\ hdrFinal = at[Len(plan)]
      /\ hdrPlan = SubSeq(plan, k + 1, Len(plan))
      /\ hdrStep = "rendered" => k = Len(plan)

HdrIInv ==
  /\ hdrBook \in Books
  /\ hdrStep \notin {"received", "refused"} => RuleAccepted(hdrBook)
  /\ LocatedRule /\ MappedRule /\ RenderRule

LEMMA BooksFit ==
    ASSUME NEW b \in Books
    PROVE  BookFits(b)
BY WorkbookHeadersAssumption DEF BookFits

LEMMA Unrendered ==
    ASSUME NEW b, BookFits(b), NEW mapped, MappingFits(b, mapped),
           NEW plan, PlanFits(b, mapped, plan), NEW at, Places(at, mapped, plan)
    PROVE  RenderedAs(b, mapped, plan, 0, at, [c \in DOMAIN mapped |-> c])
<1> DEFINE L == Len(mapped)
           grid == [c \in DOMAIN mapped |-> c]
           S == DOMAIN mapped \cup DOMAIN b.words
           start == Start(mapped)
<1>1. L \in Nat /\ DOMAIN mapped = 1 .. L /\ 0 \in 0 .. Len(plan) /\ L + 0 = L
    BY DEF MappingFits, PlanFits
<1>2. grid \in Seq(S) /\ Len(grid) = L
    <2>1. grid \in [1 .. L -> S]
        BY <1>1
    <2> HIDE DEF grid, S, L
    <2> QED BY <1>1, <2>1
<1>3. at[0] = start /\ DOMAIN start = Present(mapped)
    BY DEF Places, Start
<1>4. \A f \in Present(mapped) : start[f] \in 1 .. L
    BY Starts
<1>5. 1 .. 0 = {}
    OBVIOUS
<1>6. PlacesFit(b, mapped, plan, 0, start)
    <2>1. {plan[n].field : n \in 1 .. 0} = {}
        BY <1>5
    <2> HIDE DEF start, L
    <2> QED BY <1>1, <1>3, <1>4, <2>1 DEF PlacesFit, start, L
<1>7. \A c \in 1 .. L : grid[c] = c
    BY <1>1
<1>8. GridFits(b, mapped, 0, start, grid)
    <2> HIDE DEF grid, start, L
    <2>1. \A p, q \in 1 .. L : p < q => grid[p] < grid[q]
        BY <1>1, <1>7
    <2>2. \A f \in DOMAIN start : grid[start[f]] = start[f]
        BY <1>3, <1>4, <1>7
    <2> QED BY <1>1, <1>2, <1>3, <1>7, <2>1, <2>2 DEF GridFits, L, start, S
<1>9. FollowersFit(b, mapped, 0, start, grid)
    BY <1>3 DEF FollowersFit
<1> HIDE DEF grid, start
<1> QED BY <1>1, <1>3, <1>6, <1>8, <1>9 DEF RenderedAs, grid

LEMMA HdrInitIInv == HdrInit => HdrIInv
BY DEF HdrInit, HdrIInv, LocatedRule, MappedRule, RenderRule

LEMMA AcceptRuleIInv == HdrIInv /\ AcceptRule => HdrIInv'
BY DEF HdrIInv, AcceptRule, LocatedRule, MappedRule, RenderRule

LEMMA LocateIInv == HdrIInv /\ Locate => HdrIInv'
<1> SUFFICES ASSUME HdrIInv, Locate PROVE HdrIInv'
    OBVIOUS
<1> USE DEF Locate
<1>1. hdrStep = "accepted" /\ hdrBook \in Books /\ RuleAccepted(hdrBook) /\ UNCHANGED hdrBook
    BY DEF HdrIInv
<1>2. CASE hdrStep' = "located"
    <2> DEFINE names == Matching(hdrBook, hdrBook.named)
               rows == BestRows(hdrBook)
    <2>1. Cardinality(names) = 1
        BY <1>2
    <2>2. hdrRow' = IF hdrBook.auto THEN CHOOSE r \in rows : TRUE ELSE 1
        BY <1>2
    <2>3. hdrBook.auto => Cardinality(rows) = 1
        BY <1>2
    <2>4. rows \subseteq DOMAIN hdrBook.rows
        BY DEF BestRows, Candidates
    <2>5. 1 \in DOMAIN hdrBook.rows
        BY <1>1, BooksFit DEF BookFits
    <2>6. hdrRow' \in DOMAIN hdrBook.rows
        <3>1. CASE hdrBook.auto
            <4>1. rows # {}
                <5> HIDE DEF rows
                <5> QED BY <2>3, <3>1, FS_EmptySet
            <4> HIDE DEF rows
            <4> QED BY <2>2, <2>4, <3>1, <4>1
        <3>2. CASE ~hdrBook.auto
            BY <2>2, <2>5, <3>2
        <3> QED BY <3>1, <3>2
    <2> QED BY <1>1, <1>2, <2>1, <2>6 DEF HdrIInv, LocatedRule, MappedRule, RenderRule
<1>3. CASE hdrStep' \in {"no_sheet", "no_header"}
    BY <1>1, <1>3 DEF HdrIInv, LocatedRule, MappedRule, RenderRule
<1>4. hdrStep' \in {"no_sheet", "no_header", "located"}
    OBVIOUS
<1> QED BY <1>2, <1>3, <1>4

LEMMA MapColumnsIInv == HdrIInv /\ MapColumns => HdrIInv'
<1> SUFFICES ASSUME HdrIInv, MapColumns PROVE HdrIInv'
    OBVIOUS
<1>1. /\ hdrStep = "located" /\ hdrBook \in Books /\ RuleAccepted(hdrBook)
      /\ UNCHANGED <<hdrBook, hdrRow, hdrPlan, hdrGrid, hdrFinal>>
    BY DEF HdrIInv, MapColumns
<1>2. hdrMapped' = Mapped(hdrBook, hdrRow)
    BY DEF MapColumns, Mapped
<1>3. hdrStep' \in {"manual_review", "skipped", "mapped"}
    BY DEF MapColumns
<1>4. ASSUME hdrStep' = "mapped" PROVE SettledMapping(hdrMapped') /\ hdrBook.key \subseteq Present(hdrMapped')
    BY <1>4 DEF MapColumns, SettledMapping
<1>5. LocatedRule'
    BY <1>1 DEF HdrIInv, LocatedRule
<1>6. MappedRule'
    BY <1>1, <1>2, <1>3, <1>4 DEF MappedRule
<1> QED BY <1>1, <1>3, <1>5, <1>6 DEF HdrIInv, RenderRule

LEMMA PlanColumnsIInv == HdrIInv /\ PlanColumns => HdrIInv'
<1> SUFFICES ASSUME HdrIInv, PlanColumns PROVE HdrIInv'
    OBVIOUS
<1> DEFINE b == hdrBook
           mapped == hdrMapped
           plan == Plan(b, mapped)
<1>1. /\ hdrStep \in {"mapped", "skipped"} /\ b \in Books /\ RuleAccepted(b)
      /\ mapped = Mapped(b, hdrRow) /\ hdrRow \in DOMAIN b.rows
      /\ UNCHANGED <<hdrBook, hdrRow, hdrMapped>>
    BY DEF HdrIInv, PlanColumns, LocatedRule, MappedRule
<1>2. /\ hdrPlan' = plan /\ hdrFinal' = Final(b, mapped, hdrPlan')
      /\ hdrGrid' = [c \in DOMAIN mapped |-> c] /\ hdrStep' = "rendering"
    BY DEF PlanColumns
<1>3. BookFits(b)
    BY <1>1, BooksFit
<1>4. MappingFits(b, mapped)
    <2>1. MappingFits(b, Mapped(b, hdrRow))
        BY <1>1, <1>3, RowsAreMapped DEF Mapped
    <2> QED BY <1>1, <2>1
<1>5. PlanFits(b, mapped, plan)
    <2> HIDE DEF b, mapped
    <2> QED BY <1>3, <1>4, BookPlansFit
<1>6. Len(plan) \in Nat /\ plan \in Seq(Insertions(b, mapped))
    <2> HIDE DEF b, mapped, plan
    <2> QED BY <1>5 DEF PlanFits
<1>7. PICK at : Places(at, mapped, plan) /\ Final(b, mapped, plan) = at[Len(plan)]
    <2> HIDE DEF b, mapped, plan
    <2> QED BY <1>6, PlacesOf
<1>8. RenderedAs(b, mapped, plan, 0, at, [c \in DOMAIN mapped |-> c])
    <2> HIDE DEF b, mapped, plan
    <2> QED BY <1>3, <1>4, <1>5, <1>7, Unrendered
<1>9. plan = SubSeq(plan, 0 + 1, Len(plan)) /\ 0 \in 0 .. Len(plan)
    <2> HIDE DEF b, mapped, plan
    <2>1. plan = SubSeq(plan, 1, Len(plan))
        BY <1>6, SubSeqFull
    <2> QED BY <1>6, <2>1
<1>10. RenderRule'
    <2>1. /\ RenderedAs(b, mapped, plan, 0, at, hdrGrid') /\ hdrFinal' = at[Len(plan)]
          /\ hdrPlan' = SubSeq(plan, 0 + 1, Len(plan)) /\ hdrStep' # "rendered"
        BY <1>2, <1>7, <1>8, <1>9
    <2>2. plan = Plan(hdrBook', hdrMapped') /\ b = hdrBook' /\ mapped = hdrMapped'
        BY <1>1
    <2> HIDE DEF b, mapped, plan
    <2> QED BY <1>9, <2>1, <2>2 DEF RenderRule
<1>11. LocatedRule' /\ MappedRule'
    BY <1>1, <1>2 DEF HdrIInv, LocatedRule, MappedRule
<1> QED BY <1>1, <1>10, <1>11 DEF HdrIInv

LEMMA InsertColumnIInv == HdrIInv /\ InsertColumn => HdrIInv'
<1> SUFFICES ASSUME HdrIInv, InsertColumn PROVE HdrIInv'
    OBVIOUS
<1> DEFINE b == hdrBook
           mapped == hdrMapped
           plan == Plan(b, mapped)
           grid == hdrGrid
<1>1. /\ hdrStep = "rendering" /\ b \in Books /\ RuleAccepted(b) /\ hdrPlan # <<>>
      /\ mapped = Mapped(b, hdrRow) /\ hdrRow \in DOMAIN b.rows
      /\ UNCHANGED <<hdrBook, hdrStep, hdrRow, hdrMapped, hdrFinal>>
    BY DEF HdrIInv, InsertColumn, LocatedRule, MappedRule
<1>2. hdrGrid' = GridWith(grid, Head(hdrPlan)) /\ hdrPlan' = Tail(hdrPlan)
    BY DEF InsertColumn, GridWith
<1>3. BookFits(b)
    BY <1>1, BooksFit
<1>4. MappingFits(b, mapped)
    <2>1. MappingFits(b, Mapped(b, hdrRow))
        BY <1>1, <1>3, RowsAreMapped DEF Mapped
    <2> QED BY <1>1, <2>1
<1>5. PlanFits(b, mapped, plan)
    <2> HIDE DEF b, mapped
    <2> QED BY <1>3, <1>4, BookPlansFit
<1> DEFINE Holds(k, at) == /\ RenderedAs(b, mapped, plan, k, at, grid)
                           /\ hdrFinal = at[Len(plan)]
                           /\ hdrPlan = SubSeq(plan, k + 1, Len(plan))
<1>6. PICK k \in 0 .. Len(plan) : \E at : Holds(k, at)
    BY <1>1 DEF HdrIInv, RenderRule
<1>7. PICK at : Holds(k, at)
    BY <1>6
<1>8. /\ RenderedAs(b, mapped, plan, k, at, grid) /\ hdrFinal = at[Len(plan)]
      /\ hdrPlan = SubSeq(plan, k + 1, Len(plan))
    BY <1>7
<1>9. Len(plan) \in Nat /\ plan \in Seq(Insertions(b, mapped))
    <2> HIDE DEF b, mapped, plan
    <2> QED BY <1>5 DEF PlanFits
<1>m. /\ RenderRule => RenderRule
      /\ plan = Plan(hdrBook', hdrMapped') /\ b = hdrBook' /\ mapped = hdrMapped'
    BY <1>1
<1> HIDE DEF b, mapped, plan, grid
<1>10. k # Len(plan)
    <2>1. k = Len(plan) => hdrPlan = <<>>
        BY <1>8, <1>9, SubSeqEmpty
    <2> QED BY <1>1, <2>1
<1>11. k \in 0 .. Len(plan) - 1 /\ k + 1 \in 1 .. Len(plan) /\ k + 1 \in 0 .. Len(plan) /\ k + 1 - 1 = k
    BY <1>9, <1>10
<1>12. Head(hdrPlan) = plan[k + 1] /\ Tail(hdrPlan) = SubSeq(plan, k + 1 + 1, Len(plan))
    <2>1. Len(plan) \in k + 1 .. Len(plan)
        BY <1>9, <1>11
    <2> QED BY <1>8, <1>9, <1>11, <2>1, HeadTailOfSubSeq
<1>13. /\ Places(at, mapped, plan) /\ PlacesFit(b, mapped, plan, k, at[k])
       /\ GridFits(b, mapped, k, at[k], grid) /\ FollowersFit(b, mapped, k, at[k], grid)
    BY <1>8 DEF RenderedAs
<1>14. at[k + 1] = Moved(at[k], plan[k + 1])
    BY <1>11, <1>13 DEF Places
<1>15. PlacesFit(b, mapped, plan, k + 1, at[k + 1])
    <2>1. PlacesMoved(b, mapped, plan, k, at[k])
        BY <1>3, <1>4, <1>5, <1>11, <1>13, PlacesMove
    <2> QED BY <1>14, <2>1 DEF PlacesMoved
<1>16. GridFits(b, mapped, k + 1, at[k + 1], hdrGrid') /\ FollowersFit(b, mapped, k + 1, at[k + 1], hdrGrid')
    <2> DEFINE pl == at[k]
    <2>1. PlacesFit(b, mapped, plan, k, pl) /\ GridFits(b, mapped, k, pl, grid) /\ FollowersFit(b, mapped, k, pl, grid)
        BY <1>13
    <2>2. hdrGrid' = GridWith(grid, plan[k + 1]) /\ at[k + 1] = Moved(pl, plan[k + 1])
        BY <1>2, <1>12, <1>14
    <2> HIDE DEF pl
    <2>3. LET next == Moved(pl, plan[k + 1]) new == GridWith(grid, plan[k + 1]) IN
          GridFits(b, mapped, k + 1, next, new) /\ FollowersFit(b, mapped, k + 1, next, new)
        BY <1>3, <1>4, <1>5, <1>11, <2>1, GridMoves
    <2> QED BY <2>2, <2>3
<1>17. RenderedAs(b, mapped, plan, k + 1, at, hdrGrid')
    BY <1>11, <1>13, <1>15, <1>16 DEF RenderedAs
<1>18. RenderRule'
    <2>1. /\ hdrFinal' = at[Len(plan)] /\ hdrPlan' = SubSeq(plan, k + 1 + 1, Len(plan))
          /\ hdrStep' # "rendered"
        BY <1>1, <1>2, <1>8, <1>12
    <2> QED BY <1>11, <1>17, <1>m, <2>1 DEF RenderRule
<1>19. LocatedRule' /\ MappedRule'
    BY <1>1 DEF HdrIInv, LocatedRule, MappedRule
<1>20. hdrBook' \in Books /\ RuleAccepted(hdrBook')
    BY <1>1 DEF b
<1> QED BY <1>18, <1>19, <1>20 DEF HdrIInv

LEMMA WriteCellsIInv == HdrIInv /\ WriteCells => HdrIInv'
<1> SUFFICES ASSUME HdrIInv, WriteCells PROVE HdrIInv'
    OBVIOUS
<1> DEFINE b == hdrBook
           mapped == hdrMapped
           plan == Plan(b, mapped)
<1>1. /\ hdrStep = "rendering" /\ hdrStep' = "rendered" /\ b \in Books /\ RuleAccepted(b) /\ hdrPlan = <<>>
      /\ mapped = Mapped(b, hdrRow) /\ hdrRow \in DOMAIN b.rows
      /\ UNCHANGED <<hdrBook, hdrRow, hdrMapped, hdrPlan, hdrGrid, hdrFinal>>
    BY DEF HdrIInv, WriteCells, LocatedRule, MappedRule
<1>2. BookFits(b)
    BY <1>1, BooksFit
<1>3. MappingFits(b, mapped)
    <2>1. MappingFits(b, Mapped(b, hdrRow))
        BY <1>1, <1>2, RowsAreMapped DEF Mapped
    <2> QED BY <1>1, <2>1
<1>4. PlanFits(b, mapped, plan)
    <2> HIDE DEF b, mapped
    <2> QED BY <1>2, <1>3, BookPlansFit
<1> DEFINE Holds(k, at) == /\ RenderedAs(b, mapped, plan, k, at, hdrGrid)
                           /\ hdrFinal = at[Len(plan)]
                           /\ hdrPlan = SubSeq(plan, k + 1, Len(plan))
<1>5. PICK k \in 0 .. Len(plan) : \E at : Holds(k, at)
    BY <1>1 DEF HdrIInv, RenderRule
<1>6. PICK at : Holds(k, at)
    BY <1>5
<1>7. Holds(k, at)
    BY <1>6
<1>m. plan = Plan(hdrBook', hdrMapped') /\ b = hdrBook' /\ mapped = hdrMapped'
    BY <1>1
<1>8. Len(plan) \in Nat /\ plan \in Seq(Insertions(b, mapped))
    <2> HIDE DEF b, mapped, plan
    <2> QED BY <1>4 DEF PlanFits
<1>9. k = Len(plan)
    <2>0. k \in 0 .. Len(plan)
        BY <1>5
    <2> HIDE DEF b, mapped, plan
    <2>1. SubSeq(plan, k + 1, Len(plan)) = <<>>
        BY <1>1, <1>7
    <2>2. \A i \in k + 1 .. Len(plan) : plan[i] \in Insertions(b, mapped)
        BY <1>8, ElementOfSeq
    <2>3. k + 1 \in Int /\ Len(plan) \in Int
        BY <1>8
    <2>4. Len(SubSeq(plan, k + 1, Len(plan))) = IF k + 1 <= Len(plan) THEN Len(plan) - (k + 1) + 1 ELSE 0
        BY <2>2, <2>3, SubSeqProperties
    <2>5. Len(<<>>) = 0
        OBVIOUS
    <2> DEFINE N == Len(plan)
               s == SubSeq(plan, k + 1, N)
               n == Len(s)
    <2>6. n = 0
        <3>1. s = <<>>
            BY <2>1
        <3> QED BY <2>5, <3>1
    <2>7. n = IF k + 1 <= N THEN N - (k + 1) + 1 ELSE 0
        BY <2>4
    <2>8. k \in 0 .. N /\ N \in Nat
        BY <1>8, <2>0
    <2> HIDE DEF n, s, N
    <2>9. k = N
        BY <2>6, <2>7, <2>8
    <2> QED BY <2>9 DEF N
<1>10. RenderRule'
    <2>1. /\ RenderedAs(b, mapped, plan, k, at, hdrGrid') /\ hdrFinal' = at[Len(plan)]
          /\ hdrPlan' = SubSeq(plan, k + 1, Len(plan))
        BY <1>1, <1>7
    <2> HIDE DEF b, mapped, plan, Holds
    <2> QED BY <1>9, <1>m, <2>1 DEF RenderRule
<1>11. LocatedRule' /\ MappedRule'
    BY <1>1 DEF HdrIInv, LocatedRule, MappedRule
<1> QED BY <1>1, <1>10, <1>11 DEF HdrIInv

LEMMA HdrIInvHolds == HdrSpec => []HdrIInv
<1>1. ASSUME HdrIInv, [HdrNext]_hdrVars PROVE HdrIInv'
    <2>1. CASE UNCHANGED hdrVars
        BY <1>1, <2>1 DEF HdrIInv, hdrVars, LocatedRule, MappedRule, RenderRule
    <2>2. CASE HdrNext
        BY <1>1, <2>2, AcceptRuleIInv, LocateIInv, MapColumnsIInv, PlanColumnsIInv, InsertColumnIInv,
           WriteCellsIInv DEF HdrNext
    <2> QED BY <1>1, <2>1, <2>2
<1> QED BY <1>1, HdrInitIInv, PTL DEF HdrSpec


LEMMA UnambiguousColumns == HdrIInv => ColumnsAreUnambiguous
<1> SUFFICES ASSUME HdrIInv, hdrStep = "mapped" PROVE ColumnsAreUnambiguous
    BY DEF ColumnsAreUnambiguous
<1>1. /\ hdrBook \in Books /\ RuleAccepted(hdrBook)
      /\ Cardinality(Matching(hdrBook, hdrBook.named)) = 1 /\ hdrRow \in DOMAIN hdrBook.rows
      /\ hdrMapped = Mapped(hdrBook, hdrRow)
      /\ SettledMapping(hdrMapped) /\ hdrBook.key \subseteq Present(hdrMapped)
    BY DEF HdrIInv, LocatedRule, MappedRule
<1>2. BookFits(hdrBook)
    BY <1>1, BooksFit
<1>3. Matching(hdrBook, hdrBook.named) \cap Matching(hdrBook, hdrBook.others) = {}
    BY <1>1 DEF Matching, RuleAccepted
<1> DEFINE row == hdrBook.rows[hdrRow]
<1>4. /\ \A c \in DOMAIN hdrMapped :
           hdrMapped[c].status = "matched" =>
             LET f == hdrMapped[c].field IN
             /\ row[c] \in Words(hdrBook, f)
             /\ \A g \in DOMAIN hdrBook.words \ {f} : row[c] \notin Words(hdrBook, g)
             /\ \A d \in DOMAIN row \ {c} : row[d] \notin Words(hdrBook, f)
      /\ Present(hdrMapped) = Found(hdrBook, hdrRow)
    <2>1. SettledMapping(Mapped(hdrBook, hdrRow))
        BY <1>1
    <2> QED BY <1>1, <1>2, <2>1, SettledColumns
<1> QED BY <1>1, <1>3, <1>4 DEF ColumnsAreUnambiguous

(* The columns that were there are still there, each once.                 *)
Remaining(L, N, grid) ==
  /\ \A c \in 1 .. L : \E p \in 1 .. N : grid[p] = c
  /\ \A p, q \in 1 .. N : p < q /\ grid[p] \in 1 .. L /\ grid[q] \in 1 .. L => grid[p] < grid[q]

LEMMA ColumnsRemain ==
    ASSUME NEW L \in Nat, NEW N \in Nat, NEW grid, Remaining(L, N, grid)
    PROVE  Cardinality({p \in 1 .. N : grid[p] \in 1 .. L}) = L
<1> DEFINE old == {p \in 1 .. N : grid[p] \in 1 .. L}
           I == 1 .. L
           h == [p \in old |-> grid[p]]
<1>1. IsFiniteSet(old)
    <2>1. old \subseteq 1 .. N /\ 1 \in Int /\ N \in Int
        OBVIOUS
    <2> HIDE DEF old
    <2> QED BY <2>1, FS_Interval, FS_Subset
<1>2. ASSUME NEW p \in old, NEW q \in old, grid[p] = grid[q] PROVE p = q
    <2>1. p \in Nat /\ q \in Nat /\ grid[p] \in Nat /\ grid[q] \in Nat
        OBVIOUS
    <2>2. p < q => grid[p] < grid[q]
        BY DEF Remaining
    <2>3. q < p => grid[q] < grid[p]
        BY DEF Remaining
    <2> QED BY <1>2, <2>1, <2>2, <2>3
<1>3. h \in [old -> I]
    OBVIOUS
<1>4. h \in Injection(old, I)
    <2> HIDE DEF old, I
    <2> QED BY <1>2, <1>3 DEF Injection, IsInjective
<1>5. h \in Surjection(old, I)
    <2>1. \A c \in I : \E p \in old : h[p] = c
        BY DEF Remaining
    <2> HIDE DEF old, I, h
    <2> QED BY <1>3, <2>1 DEF Surjection
<1>6. Cardinality(I) = L
    <2>1. 1 \in Int /\ L \in Int
        OBVIOUS
    <2>2. Cardinality(1 .. L) = IF 1 > L THEN 0 ELSE L - 1 + 1
        BY <2>1, FS_Interval
    <2> QED BY <2>2
<1> HIDE DEF old, I, h
<1>7. Cardinality(old) = Cardinality(I)
    BY <1>1, <1>4, <1>5, FS_Surjection
<1> QED BY <1>6, <1>7 DEF old

LEMMA ColumnsInPlace == HdrIInv => ColumnsLandInPlace
<1> SUFFICES ASSUME HdrIInv, hdrStep = "rendered" PROVE ColumnsLandInPlace
    BY DEF ColumnsLandInPlace
<1> DEFINE b == hdrBook
           mapped == hdrMapped
           plan == Plan(b, mapped)
           grid == hdrGrid
           final == hdrFinal
           L == Len(mapped)
           K == Len(plan)
           Holds(k, at) == /\ RenderedAs(b, mapped, plan, k, at, grid)
                           /\ final = at[K]
                           /\ k = K
<1>1. /\ b \in Books /\ RuleAccepted(b) /\ hdrRow \in DOMAIN b.rows /\ mapped = Mapped(b, hdrRow)
    BY DEF HdrIInv, LocatedRule, MappedRule
<1>2. BookFits(b)
    BY <1>1, BooksFit
<1>3. MappingFits(b, mapped)
    <2>1. MappingFits(b, Mapped(b, hdrRow))
        BY <1>1, <1>2, RowsAreMapped DEF Mapped
    <2> QED BY <1>1, <2>1
<1>4. PlanFits(b, mapped, plan)
    <2> HIDE DEF b, mapped
    <2> QED BY <1>2, <1>3, BookPlansFit
<1>5. L \in Nat /\ K \in Nat /\ DOMAIN mapped = 1 .. L
    <2> HIDE DEF b, mapped, plan
    <2> QED BY <1>3, <1>4 DEF MappingFits, PlanFits, L, K
<1>6. PICK k \in 0 .. Len(plan) : \E at : Holds(k, at)
    BY DEF HdrIInv, RenderRule
<1>7. PICK at : Holds(k, at)
    BY <1>6
<1>8. /\ PlacesFit(b, mapped, plan, K, final) /\ GridFits(b, mapped, K, final, grid)
      /\ FollowersFit(b, mapped, K, final, grid)
    <2>1. RenderedAs(b, mapped, plan, k, at, grid) /\ final = at[K] /\ k = K
        BY <1>7
    <2> HIDE DEF b, mapped, plan, grid, final, K
    <2> QED BY <2>1 DEF RenderedAs
<1> DEFINE old == {c \in DOMAIN grid : grid[c] \in DOMAIN mapped}
           P == Present(mapped)
           Q(f) == Predecessor(b, mapped, f)
           follows(f) == Preceding(b, mapped, f) # {}
<1>m. ColumnsLandInPlace <=>
        /\ \A f \in DOMAIN final : IF f \in P THEN grid[final[f]] \in ColumnsOf(mapped, f) ELSE grid[final[f]] = f
        /\ \A c, d \in old : c < d => grid[c] < grid[d]
        /\ Cardinality(old) = L
        /\ \A f \in DOMAIN final \ P, g \in DOMAIN final :
             (g \notin P /\ Anchor(b, mapped, f) = Anchor(b, mapped, g)
                /\ Ordinal(b, f) < Ordinal(b, g)) => final[f] < final[g]
        /\ \A f \in DOMAIN final \ P :
             follows(f) => final[f] > final[Q(f)] /\ old \cap (final[Q(f)] + 1)..(final[f] - 1) = {}
    BY DEF ColumnsLandInPlace
<1> HIDE DEF b, mapped, plan, grid, final, L, K, Holds, Q, follows
<1>9. /\ DOMAIN grid = 1 .. L + K
      /\ \A c \in 1 .. L : \E p \in 1 .. L + K : grid[p] = c
      /\ \A p, q \in 1 .. L + K : p < q /\ grid[p] \in 1 .. L /\ grid[q] \in 1 .. L => grid[p] < grid[q]
      /\ \A f \in DOMAIN final : grid[final[f]] = IF f \in P THEN Start(mapped)[f] ELSE f
    <2>1. /\ Len(mapped) = L /\ grid \in Seq(DOMAIN mapped \cup DOMAIN b.words) /\ Len(grid) = L + K
        BY <1>8 DEF GridFits, L
    <2>2. DOMAIN grid = 1 .. Len(grid)
        BY <2>1, LenProperties
    <2> QED BY <1>5, <1>8, <2>1, <2>2 DEF GridFits
<1>10. \A f \in DOMAIN final : IF f \in P THEN grid[final[f]] \in ColumnsOf(mapped, f) ELSE grid[final[f]] = f
    <2> HIDE DEF P
    <2>1. \A f \in P : Start(mapped)[f] \in ColumnsOf(mapped, f)
        BY <1>3, Starts DEF P
    <2> QED BY <1>9, <2>1
<1>11. \A c, d \in old : c < d => grid[c] < grid[d]
    BY <1>5, <1>9
<1>12. Cardinality(old) = L
    <2>1. old = {p \in 1 .. L + K : grid[p] \in 1 .. L}
        BY <1>5, <1>9
    <2>2. L + K \in Nat
        BY <1>5
    <2> DEFINE N == L + K
    <2> HIDE DEF old, N
    <2>3. N \in Nat
        BY <2>2 DEF N
    <2>4. Remaining(L, N, grid)
        BY <1>9 DEF N, Remaining
    <2>5. Cardinality({p \in 1 .. N : grid[p] \in 1 .. L}) = L
        BY <1>5, <2>3, <2>4, ColumnsRemain
    <2> QED BY <2>1, <2>5 DEF N
<1>13. ASSUME NEW f \in DOMAIN final \ P, NEW g \in DOMAIN final, g \notin P,
              Anchor(b, mapped, f) = Anchor(b, mapped, g), Ordinal(b, f) < Ordinal(b, g)
       PROVE  final[f] < final[g]
    BY <1>8, <1>13 DEF PlacesFit
<1>14. ASSUME NEW f \in DOMAIN final \ P, follows(f)
       PROVE  final[f] > final[Q(f)] /\ old \cap (final[Q(f)] + 1)..(final[f] - 1) = {}
    <2>1. /\ final[Q(f)] < final[f]
          /\ \A p \in 1 .. L + K : final[Q(f)] < p /\ p < final[f] => grid[p] \notin DOMAIN mapped
        BY <1>8, <1>14 DEF FollowersFit, Q, follows, L
    <2>2. Q(f) \in P /\ P \subseteq DOMAIN final
        <3>1. f \in DOMAIN b.words
            <4>1. f \in {plan[n].field : n \in 1 .. K}
                BY <1>8, <1>14 DEF PlacesFit
            <4>2. \A n \in 1 .. K : plan[n].field \in DOMAIN b.words
                BY <1>4 DEF PlanFits, PlannedAs, K
            <4> QED BY <4>1, <4>2
        <3>2. Q(f) \in P
            BY <1>2, <1>3, <1>14, <3>1, Anchors DEF Q, follows
        <3> QED BY <1>8, <3>2 DEF PlacesFit
    <2>3. final[f] \in Nat /\ final[Q(f)] \in Nat
        <3>1. final[f] \in 1 .. L + K /\ final[Q(f)] \in 1 .. L + K
            BY <1>8, <2>2 DEF PlacesFit, L
        <3> QED BY <1>5, <3>1
    <2>4. ASSUME NEW p \in old, p \in (final[Q(f)] + 1)..(final[f] - 1) PROVE FALSE
        <3>1. p \in 1 .. L + K /\ grid[p] \in DOMAIN mapped /\ p \in Nat
            BY <1>5, <1>9
        <3>2. final[Q(f)] < p /\ p < final[f]
            BY <2>3, <2>4, <3>1
        <3> QED BY <2>1, <3>1, <3>2
    <2>5. final[f] > final[Q(f)]
        BY <2>1, <2>3
    <2> HIDE DEF old
    <2> QED BY <2>4, <2>5
<1> HIDE DEF old, P
<1> QED BY <1>m, <1>10, <1>11, <1>12, <1>13, <1>14

(* Every worksheet whose records are compared, and every one that got the  *)
(* columns it lacked, has for each field of its rule one column, whatever  *)
(* the rule, the header rows and the worksheets are: the header of a       *)
(* mapped column is a word of its field alone, and the values the manifest *)
(* writes by the final columns arrive in the columns of their fields, each *)
(* new column behind its predecessor in the rule                           *)
(* (workbook.map_headers, service._manifest and the renderer's             *)
(* InsertColumn).                                                          *)
THEOREM ColumnsOfTheirFields == HdrSpec => []ColumnsKeepTheirFields
<1>1. HdrIInv => ColumnsKeepTheirFields
    BY UnambiguousColumns, ColumnsInPlace DEF ColumnsKeepTheirFields
<1> QED BY <1>1, HdrIInvHolds, PTL

-----------------------------------------------------------------------------
(* Rendering: the references and the comments of a rendered worksheet.    *)

(* A reference whose columns in a grid are those of another among K.       *)
Recorded(ref) ==
  ref = [id |-> ref.id, kind |-> ref.kind, from |-> ref.from, to |-> ref.to,
         top |-> ref.top, bottom |-> ref.bottom, names |-> ref.names]

FollowsIn(K, grid, was, ref) ==
  /\ ref.id = was.id /\ ref.kind = was.kind /\ ref.top = was.top
  /\ IF ref.kind \in {"table", "filter", "split"}
     THEN \A c \in 1 .. Len(grid) : grid[c] \in K => (c \in ref.from .. ref.to <=> grid[c] \in was.from .. was.to)
     ELSE grid[ref.from] = was.from /\ grid[ref.to] = was.to

Fits(K, grid, was, ref) ==
  /\ Recorded(ref)
  /\ ref.from \in 1 .. Len(grid) /\ ref.to \in 1 .. Len(grid) /\ ref.from <= ref.to
  /\ FollowsIn(K, grid, was, ref)

(* What an insertion makes of the columns of a reference.                  *)
LEMMA ShiftedColumns ==
    ASSUME NEW ref, Recorded(ref), NEW t, NEW title,
           NEW new, new = ShiftedRef(ref, t, title)
    PROVE  /\ Recorded(new) /\ new.id = ref.id /\ new.kind = ref.kind /\ new.top = ref.top
           /\ IF Stretches(ref, t) THEN new.from = ref.from /\ new.to = ref.to + 1
              ELSE new.from = Shifted(ref.from, t) /\ new.to = Shifted(ref.to, t)
<1> DEFINE names == SubSeq(ref.names, 1, t - ref.from) \o <<NewName(ref, title)>>
                      \o SubSeq(ref.names, t - ref.from + 1, Len(ref.names))
           Of(from, to, ns) == [id |-> ref.id, kind |-> ref.kind, from |-> from, to |-> to,
                                top |-> ref.top, bottom |-> ref.bottom, names |-> ns]
<1>1. ref = Of(ref.from, ref.to, ref.names)
    BY DEF Recorded
<1>2. CASE ~Stretches(ref, t)
    <2>1. new = [ref EXCEPT !.from = Shifted(ref.from, t), !.to = Shifted(ref.to, t)]
        BY <1>2 DEF ShiftedRef
    <2>2. new = Of(Shifted(ref.from, t), Shifted(ref.to, t), ref.names)
        BY <1>1, <2>1
    <2> QED BY <1>2, <2>2 DEF Recorded
<1>3. CASE Stretches(ref, t) /\ ref.kind # "table"
    <2>1. new = [ref EXCEPT !.to = ref.to + 1]
        BY <1>3 DEF ShiftedRef
    <2>2. new = Of(ref.from, ref.to + 1, ref.names)
        BY <1>1, <2>1
    <2> QED BY <1>3, <2>2 DEF Recorded
<1>4. CASE Stretches(ref, t) /\ ref.kind = "table"
    <2>1. new = [ref EXCEPT !.to = ref.to + 1, !.names = names]
        BY <1>4 DEF ShiftedRef
    <2> HIDE DEF names
    <2>2. new = Of(ref.from, ref.to + 1, names)
        BY <1>1, <2>1
    <2> QED BY <1>4, <2>2 DEF Recorded
<1> QED BY <1>2, <1>3, <1>4

(* However a reference lies to an inserted column, it keeps its columns.   *)
LEMMA ShiftedReferences ==
    ASSUME NEW S, NEW grid \in Seq(S), NEW t \in 1 .. Len(grid) + 1, NEW f, NEW wide, Widened(S, grid, f, t, wide),
           NEW K, f \notin K, NEW was, NEW ref, Fits(K, grid, was, ref), NEW title,
           NEW new, new = ShiftedRef(ref, t, title)
    PROVE  Fits(K, wide, was, new)
<1> DEFINE N == Len(grid)
           M == Len(wide)
<1>1. /\ Recorded(new) /\ new.id = ref.id /\ new.kind = ref.kind /\ new.top = ref.top
      /\ IF Stretches(ref, t) THEN new.from = ref.from /\ new.to = ref.to + 1
         ELSE new.from = Shifted(ref.from, t) /\ new.to = Shifted(ref.to, t)
    BY ShiftedColumns DEF Fits
<1> DEFINE x == ref.from
           y == ref.to
           x1 == new.from
           y1 == new.to
<1>2. N \in Nat /\ M = N + 1 /\ x \in 1 .. N /\ y \in 1 .. N /\ x <= y /\ t \in 1 .. N + 1
    BY LenProperties DEF Fits, Widened
<1>3. \A p \in 1 .. N + 1 : wide[p] = IF p < t THEN grid[p] ELSE IF p = t THEN f ELSE grid[p - 1]
    BY DEF Widened
<1>4. CASE ref.kind \in {"table", "filter", "split"}
    <2>1. Stretches(ref, t) => t \in x .. y + 1
        BY <1>2, <1>4 DEF Stretches
    <2>2. ~Stretches(ref, t) => t < x \/ t > y \/ t = x
        BY <1>2, <1>4 DEF Stretches
    <2>3. Stretches(ref, t) \/ t < x \/ t > y
        BY <1>2, <1>4 DEF Stretches
    <2>4. x1 \in 1 .. M /\ y1 \in 1 .. M /\ x1 <= y1
        <3> HIDE DEF N, M
        <3> QED BY <1>1, <1>2, <2>1, <2>3 DEF Shifted
    <2>9. \/ x1 = x /\ y1 = y + 1 /\ t \in x .. y + 1
          \/ x1 = x + 1 /\ y1 = y + 1 /\ t < x
          \/ x1 = x /\ y1 = y /\ t > y
        <3> HIDE DEF N, M
        <3> QED BY <1>1, <1>2, <2>1, <2>3 DEF Shifted
    <2>5. ASSUME NEW c \in 1 .. N, c < t PROVE c \in x1 .. y1 <=> c \in x .. y
        <3> HIDE DEF N, M, x, y, x1, y1
        <3> QED BY <1>2, <2>5, <2>9
    <2>6. ASSUME NEW c \in 1 .. N, c >= t PROVE c + 1 \in x1 .. y1 <=> c \in x .. y
        <3> HIDE DEF N, M, x, y, x1, y1
        <3> QED BY <1>2, <2>6, <2>9
    <2>7. \A c \in 1 .. N : grid[c] \in K => (c \in x .. y <=> grid[c] \in was.from .. was.to)
        BY <1>4 DEF Fits, FollowsIn
    <2>8. ASSUME NEW c \in 1 .. M, wide[c] \in K PROVE c \in x1 .. y1 <=> wide[c] \in was.from .. was.to
        <3> HIDE DEF N, M, x, y, x1, y1
        <3>1. CASE c < t
            BY <1>2, <1>3, <2>5, <2>7, <2>8, <3>1
        <3>2. CASE c > t
            <4>1. c - 1 \in 1 .. N /\ c - 1 >= t /\ (c - 1) + 1 = c
                BY <1>2, <3>2
            <4>2. wide[c] = grid[c - 1]
                BY <1>2, <1>3, <3>2
            <4> QED BY <2>6, <2>7, <2>8, <4>1, <4>2
        <3>3. c # t
            BY <1>2, <1>3, <2>8
        <3> QED BY <1>2, <3>1, <3>2, <3>3
    <2> QED BY <1>1, <1>4, <2>4, <2>8 DEF Fits, FollowsIn
<1>5. CASE ref.kind \notin {"table", "filter", "split"}
    <2>1. Stretches(ref, t) <=> t \in x + 1 .. y
        BY <1>2, <1>5 DEF Stretches
    <2>2. x1 = Shifted(x, t) /\ y1 = Shifted(y, t)
        <3> HIDE DEF N, M
        <3> QED BY <1>1, <1>2, <2>1 DEF Shifted
    <2>3. x1 \in 1 .. M /\ y1 \in 1 .. M /\ x1 <= y1
        <3> HIDE DEF N, M
        <3> QED BY <1>2, <2>2 DEF Shifted
    <2>4. ASSUME NEW c \in 1 .. N PROVE wide[Shifted(c, t)] = grid[c]
        <3> HIDE DEF N
        <3>1. CASE c < t
            BY <1>2, <1>3, <3>1 DEF Shifted
        <3>2. CASE c >= t
            <4>1. Shifted(c, t) = c + 1 /\ c + 1 \in 1 .. N + 1 /\ c + 1 > t /\ c + 1 # t /\ (c + 1) - 1 = c
                BY <1>2, <3>2 DEF Shifted
            <4>2. ~(c + 1 < t)
                BY <1>2, <3>2
            <4> QED BY <1>3, <4>1, <4>2
        <3> QED BY <1>2, <3>1, <3>2
    <2>5. wide[x1] = grid[x] /\ wide[y1] = grid[y]
        BY <1>2, <2>2, <2>4
    <2> QED BY <1>1, <1>5, <2>3, <2>5 DEF Fits, FollowsIn
<1> QED BY <1>4, <1>5

(* The columns of the worksheet as it was read, and those it can get.      *)
HeadersOf(g) == g.book.rows[1]
ColumnsAndFields(g) == DOMAIN HeadersOf(g) \cup DOMAIN g.book.words

(* The comments of the upload are in a grid where their columns are.       *)
Keeps(g, grid, notes) ==
  \A p \in DOMAIN g.notes : \E c \in 1 .. Len(grid) :
    grid[c] = p[1] /\ <<c, p[2]>> \in DOMAIN notes /\ notes[<<c, p[2]>>].own = g.notes[p].own

AllFit(g, grid, refs) == \A was \in g.refs : \E ref \in refs : Fits(DOMAIN HeadersOf(g), grid, was, ref)

GridRule ==
  /\ rndGrid \in Seq(ColumnsAndFields(rndInput))
  /\ Len(rndGrid) >= Len(HeadersOf(rndInput))

RndIInv ==
  /\ rndInput \in Renderings
  /\ rndLeft \subseteq OperationsOf(rndInput)
  /\ GridRule
  /\ AllFit(rndInput, rndGrid, rndRefs)
  /\ Keeps(rndInput, rndGrid, rndNotes)

(* A header row has columns; no field is one.                              *)
LEMMA RenderedHeaders ==
    ASSUME NEW g \in Renderings
    PROVE  /\ BookFits(g.book)
           /\ Len(HeadersOf(g)) \in Nat /\ DOMAIN HeadersOf(g) = 1 .. Len(HeadersOf(g))
           /\ DOMAIN HeadersOf(g) \cap DOMAIN g.book.words = {}
<1>1. BookFits(g.book)
    BY RenderingAssumption, BooksFit
<1>2. /\ 1 \in DOMAIN g.book.rows /\ DOMAIN g.book.words \cap Nat = {}
      /\ \A r \in DOMAIN g.book.rows : Len(g.book.rows[r]) \in Nat /\ DOMAIN g.book.rows[r] = 1 .. Len(g.book.rows[r])
    BY <1>1 DEF BookFits
<1>3. Len(HeadersOf(g)) \in Nat /\ DOMAIN HeadersOf(g) = 1 .. Len(HeadersOf(g))
    BY <1>2 DEF HeadersOf
<1> QED BY <1>1, <1>2, <1>3

(* What an insertion of the manifest is of, and where.                     *)
LEMMA InsertionsOfManifest ==
    ASSUME NEW g \in Renderings, NEW o \in OperationsOf(g), o.type = "insert_column"
    PROVE  /\ o.column \in 1 .. Len(HeadersOf(g)) + 1
           /\ o.field \in DOMAIN g.book.words
<1> DEFINE mapped == MappedOf(g)
           plan == PlanOf(g)
<1>1. MappingFits(g.book, mapped) /\ Len(mapped) = Len(HeadersOf(g))
    <2>1. 1 \in DOMAIN g.book.rows
        BY RenderedHeaders DEF BookFits
    <2>2. MappingFits(g.book, mapped)
        BY <2>1, RenderedHeaders, RowsAreMapped DEF MappedOf
    <2>3. DOMAIN mapped = 1 .. Len(HeadersOf(g)) /\ Len(HeadersOf(g)) \in Nat
        BY RenderedHeaders DEF MappedOf, HeadersOf
    <2>4. DOMAIN mapped = 1 .. Len(mapped) /\ Len(mapped) \in Nat
        BY <2>2 DEF MappingFits
    <2> HIDE DEF mapped
    <2>5. Len(mapped) = Len(HeadersOf(g))
        <3> DEFINE M == Len(mapped)
                   L == Len(HeadersOf(g))
        <3>1. M \in Nat /\ L \in Nat /\ 1 .. M = 1 .. L
            BY <2>3, <2>4
        <3> HIDE DEF M, L
        <3>2. M = L
            BY <3>1
        <3> QED BY <3>2 DEF M, L
    <2> QED BY <2>2, <2>5
<1>2. PlanFits(g.book, mapped, plan)
    <2> HIDE DEF mapped
    <2>1. PlanFits(g.book, mapped, Plan(g.book, mapped))
        BY <1>1, RenderedHeaders, BookPlansFit
    <2> QED BY <2>1 DEF PlanOf, mapped
<1>3. o \in InsertOps(g)
    BY DEF OperationsOf, SheetOps, Marks, RepairOps, Operation
<1>4. PICK n \in DOMAIN plan : o = Operation("insert_column", n, plan[n].before, HeaderRow, plan[n].field, {"inserted"})
    BY <1>3 DEF InsertOps
<1>5. o.column = plan[n].before /\ o.field = plan[n].field
    BY <1>4 DEF Operation
<1>6. PlannedAs(g.book, mapped, plan[n])
    <2> HIDE DEF mapped, plan
    <2> QED BY <1>2, <1>4 DEF PlanFits
<1>7. plan[n].field \in DOMAIN g.book.words /\ plan[n].before \in 1 .. Len(mapped) + 1
    <2> HIDE DEF mapped, plan
    <2> QED BY <1>6 DEF PlannedAs
<1> HIDE DEF mapped, plan
<1> QED BY <1>1, <1>5, <1>7

(* A comment that is added to keeps the text of its user.                  *)
LEMMA NotedKeeps ==
    ASSUME NEW g, NEW grid, NEW notes, Keeps(g, grid, notes), NEW at, NEW texts
    PROVE  Keeps(g, grid, Noted(notes, at, texts))
<1>1. \A q \in DOMAIN notes : q \in DOMAIN Noted(notes, at, texts) /\ Noted(notes, at, texts)[q].own = notes[q].own
    BY DEF Noted
<1> QED BY <1>1 DEF Keeps

(* The comments move with their columns.                                   *)
LEMMA MovedKeeps ==
    ASSUME NEW g, NEW S, NEW grid \in Seq(S), NEW t \in 1 .. Len(grid) + 1, NEW f, NEW wide, Widened(S, grid, f, t, wide),
           NEW notes, Keeps(g, grid, notes),
           NEW moved, moved = {<<Shifted(p[1], t), p[2]>> : p \in DOMAIN notes}
    PROVE  Keeps(g, wide, [p \in moved |-> notes[<<Unshifted(p[1], t), p[2]>>]])
<1> DEFINE N == Len(grid)
           new == [p \in moved |-> notes[<<Unshifted(p[1], t), p[2]>>]]
<1>1. N \in Nat /\ Len(wide) = N + 1 /\ t \in 1 .. N + 1
    BY LenProperties DEF Widened
<1>2. \A p \in 1 .. N + 1 : wide[p] = IF p < t THEN grid[p] ELSE IF p = t THEN f ELSE grid[p - 1]
    BY DEF Widened
<1>3. ASSUME NEW p \in DOMAIN g.notes
      PROVE  \E c \in 1 .. Len(wide) :
               wide[c] = p[1] /\ <<c, p[2]>> \in DOMAIN new /\ new[<<c, p[2]>>].own = g.notes[p].own
    <2>1. PICK c \in 1 .. N : grid[c] = p[1] /\ <<c, p[2]>> \in DOMAIN notes /\ notes[<<c, p[2]>>].own = g.notes[p].own
        BY DEF Keeps
    <2> DEFINE d == Shifted(c, t)
    <2> HIDE DEF N
    <2>2. d \in 1 .. N + 1 /\ Unshifted(d, t) = c /\ (c < t => d = c /\ d < t) /\ (c >= t => d = c + 1 /\ d > t)
        BY <1>1, <2>1 DEF Shifted, Unshifted
    <2>3. wide[d] = grid[c]
        <3> HIDE DEF d
        <3>1. CASE c < t
            BY <1>1, <1>2, <2>2, <3>1
        <3>2. CASE c >= t
            <4>1. ~(d < t) /\ d # t /\ d - 1 = c
                BY <1>1, <2>1, <2>2, <3>2
            <4> QED BY <1>2, <2>2, <4>1
        <3> QED BY <1>1, <2>1, <3>1, <3>2
    <2>4. <<d, p[2]>> \in moved
        <3> DEFINE q == <<c, p[2]>>
        <3>1. q \in DOMAIN notes /\ q[1] = c /\ q[2] = p[2]
            BY <2>1
        <3> HIDE DEF q
        <3> QED BY <3>1
    <2>5. new[<<d, p[2]>>] = notes[<<c, p[2]>>]
        <3> HIDE DEF d
        <3> QED BY <2>2, <2>4
    <2> HIDE DEF d, new
    <2> QED BY <1>1, <2>1, <2>2, <2>3, <2>4, <2>5 DEF new
<1> HIDE DEF new
<1> QED BY <1>3 DEF Keeps, new

(* Names and the last row of a reference are not its columns.              *)
LEMMA SameColumns ==
    ASSUME NEW K, NEW grid, NEW was, NEW ref, Fits(K, grid, was, ref), NEW new,
           \/ \E column, row, value : new = Renamed(ref, column, row, value)
           \/ \E row : new = Extended(ref, row)
    PROVE  Fits(K, grid, was, new)
<1> DEFINE Of(bottom, names) == [id |-> ref.id, kind |-> ref.kind, from |-> ref.from, to |-> ref.to,
                                 top |-> ref.top, bottom |-> bottom, names |-> names]
<1>1. ref = Of(ref.bottom, ref.names)
    BY DEF Fits, Recorded
<1>2. \E bottom, names : new = Of(bottom, names)
    <2>1. ASSUME NEW column, NEW row, NEW value, new = Renamed(ref, column, row, value)
          PROVE  \E bottom, names : new = Of(bottom, names)
        <3> DEFINE names == [ref.names EXCEPT ![column - ref.from + 1] = value]
        <3>1. new = ref \/ new = [ref EXCEPT !.names = names]
            BY <2>1 DEF Renamed
        <3> HIDE DEF names
        <3>2. new = ref \/ new = Of(ref.bottom, names)
            BY <1>1, <3>1
        <3> QED BY <1>1, <3>2
    <2>2. ASSUME NEW row, new = Extended(ref, row)
          PROVE  \E bottom, names : new = Of(bottom, names)
        <3>1. new = ref \/ new = [ref EXCEPT !.bottom = row]
            BY <2>2 DEF Extended
        <3>2. new = ref \/ new = Of(row, ref.names)
            BY <1>1, <3>1
        <3> QED BY <1>1, <3>2
    <2> QED BY <2>1, <2>2
<1>3. PICK bottom, names : new = Of(bottom, names)
    BY <1>2
<1>4. /\ Recorded(new) /\ new.id = ref.id /\ new.kind = ref.kind /\ new.from = ref.from
      /\ new.to = ref.to /\ new.top = ref.top
    BY <1>3 DEF Recorded
<1> QED BY <1>4 DEF Fits, FollowsIn

LEMMA RndInitIInv == RndInit => RndIInv
<1> SUFFICES ASSUME RndInit PROVE RndIInv
    OBVIOUS
<1> DEFINE g == rndInput
           L == Len(HeadersOf(g))
<1>1. /\ g \in Renderings /\ rndLeft = {} /\ rndNotes = g.notes /\ rndRefs = g.refs
      /\ rndGrid = [c \in DOMAIN HeadersOf(g) |-> c]
    BY DEF RndInit, HeadersOf
<1>2. L \in Nat /\ DOMAIN HeadersOf(g) = 1 .. L
    BY <1>1, RenderedHeaders
<1>3. /\ \A p \in DOMAIN g.notes : p[1] \in 1 .. L /\ p = <<p[1], p[2]>>
      /\ \A ref \in g.refs : Recorded(ref) /\ ref.from \in 1 .. L /\ ref.to \in 1 .. L /\ ref.from <= ref.to
    <2>1. /\ \A p \in DOMAIN g.notes : p[1] \in DOMAIN HeadersOf(g) /\ p = <<p[1], p[2]>>
          /\ \A ref \in g.refs : /\ Recorded(ref) /\ ref.from \in DOMAIN HeadersOf(g)
                                 /\ ref.to \in DOMAIN HeadersOf(g) /\ ref.from <= ref.to
        BY <1>1, RenderingAssumption DEF HeadersOf, Recorded
    <2> HIDE DEF g, L
    <2> QED BY <1>2, <2>1
<1> HIDE DEF g, L
<1>4. rndGrid \in [1 .. L -> ColumnsAndFields(g)] /\ \A c \in 1 .. L : rndGrid[c] = c
    BY <1>1, <1>2 DEF ColumnsAndFields
<1>5. rndGrid \in Seq(ColumnsAndFields(g)) /\ Len(rndGrid) = L
    BY <1>2, <1>4
<1>6. GridRule
    BY <1>2, <1>5 DEF GridRule, g, L
<1>7. AllFit(g, rndGrid, rndRefs)
    <2>1. ASSUME NEW was \in g.refs PROVE Fits(DOMAIN HeadersOf(g), rndGrid, was, was)
        <3>1. Recorded(was) /\ was.from \in 1 .. L /\ was.to \in 1 .. L /\ was.from <= was.to
            BY <1>3
        <3>2. FollowsIn(DOMAIN HeadersOf(g), rndGrid, was, was)
            BY <1>4, <1>5, <3>1 DEF FollowsIn
        <3> QED BY <1>5, <3>1, <3>2 DEF Fits
    <2> QED BY <1>1, <2>1 DEF AllFit
<1>8. Keeps(g, rndGrid, rndNotes)
    <2>1. ASSUME NEW p \in DOMAIN g.notes
          PROVE  \E c \in 1 .. Len(rndGrid) :
                   /\ rndGrid[c] = p[1] /\ <<c, p[2]>> \in DOMAIN rndNotes
                   /\ rndNotes[<<c, p[2]>>].own = g.notes[p].own
        <3>1. p[1] \in 1 .. L /\ p = <<p[1], p[2]>>
            BY <1>3
        <3> DEFINE c == p[1]
        <3>2. c \in 1 .. Len(rndGrid) /\ rndGrid[c] = p[1] /\ <<c, p[2]>> = p
            BY <1>4, <1>5, <3>1
        <3> HIDE DEF c
        <3> QED BY <1>1, <3>2
    <2> QED BY <2>1 DEF Keeps
<1> QED BY <1>1, <1>6, <1>7, <1>8 DEF RndIInv, g

(* What none of the invariant is about.                                    *)
LEMMA RndSame ==
    ASSUME RndIInv, UNCHANGED <<rndInput, rndGrid, rndNotes, rndRefs>>, rndLeft' \subseteq OperationsOf(rndInput)
    PROVE  RndIInv'
BY DEF RndIInv, GridRule

(* A comment of an operation.                                              *)
LEMMA RndNote ==
    ASSUME RndIInv, NEW o, NoteIt(o), UNCHANGED <<rndInput, rndGrid>>, rndLeft' \subseteq OperationsOf(rndInput),
           AllFit(rndInput, rndGrid, rndRefs')
    PROVE  RndIInv'
<1>1. Keeps(rndInput, rndGrid, rndNotes')
    BY NotedKeeps DEF RndIInv, NoteIt
<1> QED BY <1>1 DEF RndIInv, GridRule

LEMMA ApplySetCellIInv == \A o : RndIInv /\ ApplySetCell(o) => RndIInv'
<1> SUFFICES ASSUME RndIInv, NEW o, ApplySetCell(o) PROVE RndIInv'
    OBVIOUS
<1> DEFINE value == IF o.row = HeaderRow THEN Title(rndInput, o.field) ELSE "repaired"
<1>1. /\ rndRefs' = {Renamed(ref, o.column, o.row, value) : ref \in rndRefs} /\ NoteIt(o)
      /\ UNCHANGED <<rndInput, rndGrid>> /\ rndLeft' \subseteq OperationsOf(rndInput)
    BY DEF ApplySetCell, CarryOut, RndIInv
<1> HIDE DEF value
<1>2. AllFit(rndInput, rndGrid, rndRefs')
    <2>1. ASSUME NEW was \in rndInput.refs
          PROVE  \E new \in rndRefs' : Fits(DOMAIN HeadersOf(rndInput), rndGrid, was, new)
        <3>1. PICK ref \in rndRefs : Fits(DOMAIN HeadersOf(rndInput), rndGrid, was, ref)
            BY DEF RndIInv, AllFit
        <3> DEFINE new == Renamed(ref, o.column, o.row, value)
        <3>2. Fits(DOMAIN HeadersOf(rndInput), rndGrid, was, new)
            <4>1. \E column, row, v : new = Renamed(ref, column, row, v)
                OBVIOUS
            <4> HIDE DEF new
            <4> QED BY <3>1, <4>1, SameColumns
        <3>3. new \in rndRefs'
            BY <1>1
        <3> QED BY <3>2, <3>3
    <2> QED BY <2>1 DEF AllFit
<1> QED BY <1>1, <1>2, RndNote

LEMMA AppendRowIInv == \A o : RndIInv /\ AppendRow(o) => RndIInv'
<1> SUFFICES ASSUME RndIInv, NEW o, AppendRow(o) PROVE RndIInv'
    OBVIOUS
<1>1. /\ rndRefs' = {Extended(ref, o.row) : ref \in rndRefs} /\ NoteIt(o)
      /\ UNCHANGED <<rndInput, rndGrid>> /\ rndLeft' \subseteq OperationsOf(rndInput)
    BY DEF AppendRow, CarryOut, RndIInv
<1>2. AllFit(rndInput, rndGrid, rndRefs')
    <2>1. ASSUME NEW was \in rndInput.refs
          PROVE  \E new \in rndRefs' : Fits(DOMAIN HeadersOf(rndInput), rndGrid, was, new)
        <3>1. PICK ref \in rndRefs : Fits(DOMAIN HeadersOf(rndInput), rndGrid, was, ref)
            BY DEF RndIInv, AllFit
        <3> DEFINE new == Extended(ref, o.row)
        <3>2. Fits(DOMAIN HeadersOf(rndInput), rndGrid, was, new)
            <4>1. \E row : new = Extended(ref, row)
                OBVIOUS
            <4> HIDE DEF new
            <4> QED BY <3>1, <4>1, SameColumns
        <3>3. new \in rndRefs'
            BY <1>1
        <3> QED BY <3>2, <3>3
    <2> QED BY <2>1 DEF AllFit
<1> QED BY <1>1, <1>2, RndNote

(* Cells, comments and references are moved each by its own rule, and each *)
(* stays with the columns it was in.                                       *)
LEMMA InsertBeforeIInv == \A o \in rndLeft : RndIInv /\ InsertBefore(o) => RndIInv'
<1> SUFFICES ASSUME RndIInv, NEW o \in rndLeft, InsertBefore(o) PROVE RndIInv'
    OBVIOUS
<1> DEFINE g == rndInput
           K == DOMAIN HeadersOf(g)
           S == ColumnsAndFields(g)
           t == o.column
           title == Title(g, o.field)
           moved == {<<Shifted(p[1], t), p[2]>> : p \in DOMAIN rndNotes}
           notes == [p \in moved |-> rndNotes[<<Unshifted(p[1], t), p[2]>>]]
<1>1. /\ g \in Renderings /\ o \in OperationsOf(g) /\ o.type = "insert_column"
      /\ rndLeft' \subseteq OperationsOf(g) /\ rndInput' = g
      /\ rndGrid' = With(rndGrid, o.field, t)
      /\ rndRefs' = {ShiftedRef(ref, t, title) : ref \in rndRefs}
      /\ rndNotes' = Noted(notes, <<t, HeaderRow>>, o.texts)
    BY DEF InsertBefore, CarryOut, RndIInv, With
<1>2. rndGrid \in Seq(S) /\ Len(rndGrid) >= Len(HeadersOf(g)) /\ AllFit(g, rndGrid, rndRefs) /\ Keeps(g, rndGrid, rndNotes)
    BY DEF RndIInv, GridRule
<1> HIDE DEF g
<1>3. /\ t \in 1 .. Len(HeadersOf(g)) + 1 /\ o.field \in DOMAIN g.book.words
      /\ Len(HeadersOf(g)) \in Nat /\ K \cap DOMAIN g.book.words = {}
    BY <1>1, InsertionsOfManifest, RenderedHeaders
<1>4. t \in 1 .. Len(rndGrid) + 1 /\ o.field \in S /\ o.field \notin K
    <2>1. Len(rndGrid) \in Nat
        BY <1>2, LenProperties
    <2>2. o.field \in S /\ o.field \notin K
        BY <1>3 DEF ColumnsAndFields
    <2> HIDE DEF t, S, K
    <2> QED BY <1>2, <1>3, <2>1, <2>2
<1>5. Widened(S, rndGrid, o.field, t, rndGrid')
    <2> HIDE DEF t, S
    <2> QED BY <1>1, <1>2, <1>4, InsertedAt
<1>6. rndGrid' \in Seq(S) /\ Len(rndGrid') >= Len(HeadersOf(g))
    <2>1. Len(rndGrid) \in Nat
        BY <1>2, LenProperties
    <2>2. rndGrid' \in Seq(S) /\ Len(rndGrid') = Len(rndGrid) + 1
        BY <1>5 DEF Widened
    <2> HIDE DEF S
    <2> QED BY <1>2, <1>3, <2>1, <2>2
<1>7. AllFit(g, rndGrid', rndRefs')
    <2>1. ASSUME NEW was \in g.refs PROVE \E new \in rndRefs' : Fits(K, rndGrid', was, new)
        <3>1. PICK ref \in rndRefs : Fits(K, rndGrid, was, ref)
            BY <1>2 DEF AllFit
        <3> DEFINE new == ShiftedRef(ref, t, title)
        <3>2. new \in rndRefs'
            BY <1>1
        <3>3. Fits(K, rndGrid', was, new)
            <4>1. new = ShiftedRef(ref, t, title)
                OBVIOUS
            <4> HIDE DEF new, t, S, K, title
            <4> QED BY <1>2, <1>4, <1>5, <3>1, <4>1, ShiftedReferences
        <3> HIDE DEF new
        <3> QED BY <3>2, <3>3
    <2> QED BY <2>1 DEF AllFit
<1>8. Keeps(g, rndGrid', rndNotes')
    <2>1. Keeps(g, rndGrid', notes)
        <3>1. moved = {<<Shifted(p[1], t), p[2]>> : p \in DOMAIN rndNotes}
            OBVIOUS
        <3> HIDE DEF moved, t, S
        <3> QED BY <1>2, <1>4, <1>5, <3>1, MovedKeeps
    <2> HIDE DEF notes
    <2> QED BY <1>1, <2>1, NotedKeeps
<1> QED BY <1>1, <1>6, <1>7, <1>8 DEF RndIInv, GridRule

LEMMA RndNextIInv == RndIInv /\ [RndNext]_rndVars => RndIInv'
<1> SUFFICES ASSUME RndIInv, [RndNext]_rndVars PROVE RndIInv'
    OBVIOUS
<1>1. rndInput \in Renderings /\ rndLeft \subseteq OperationsOf(rndInput) /\ AllFit(rndInput, rndGrid, rndRefs)
    BY DEF RndIInv
<1>2. CASE WriteManifest
    BY <1>2, RndSame DEF WriteManifest
<1>3. CASE FinishResult
    BY <1>1, <1>3, RndSame DEF FinishResult
<1>4. ASSUME NEW o \in rndLeft, FailOperation(o) PROVE RndIInv'
    BY <1>1, <1>4, RndSame DEF FailOperation
<1>5. ASSUME NEW o \in rndLeft, ApplyMark(o) PROVE RndIInv'
    BY <1>1, <1>5, RndNote DEF ApplyMark, CarryOut
<1>6. ASSUME NEW o \in rndLeft, ApplyNumberFormat(o) PROVE RndIInv'
    BY <1>1, <1>6, RndNote DEF ApplyNumberFormat, CarryOut
<1>7. ASSUME NEW o \in rndLeft, AddSheets(o) PROVE RndIInv'
    BY <1>1, <1>7, RndSame DEF AddSheets, CarryOut
<1>8. CASE UNCHANGED rndVars
    BY <1>1, <1>8, RndSame DEF rndVars
<1> QED BY <1>2, <1>3, <1>4, <1>5, <1>6, <1>7, <1>8, ApplySetCellIInv, AppendRowIInv, InsertBeforeIInv DEF RndNext

(* Whatever the columns, the references and the comments of a worksheet,   *)
(* and wherever its missing columns are inserted: a reference keeps its    *)
(* columns and a comment its cell.                                         *)
THEOREM NothingTornApart == RndSpec => []NothingIsTornApart
<1>1. RndIInv => NothingIsTornApart
    <2> SUFFICES ASSUME RndIInv PROVE NothingIsTornApart
        OBVIOUS
    <2>1. DOMAIN rndGrid = 1 .. Len(rndGrid)
        BY LenProperties DEF RndIInv, GridRule
    <2>2. ASSUME NEW was \in rndInput.refs PROVE \E ref \in rndRefs : Follows(was, ref)
        <3>1. PICK ref \in rndRefs : Fits(DOMAIN HeadersOf(rndInput), rndGrid, was, ref)
            BY DEF RndIInv, AllFit
        <3>2. Follows(was, ref)
            BY <2>1, <3>1 DEF Fits, FollowsIn, Follows, WasThere, HeadersOf
        <3> QED BY <3>2
    <2>3. ASSUME NEW p \in DOMAIN rndInput.notes
          PROVE  \E c \in DOMAIN rndGrid :
                   /\ rndGrid[c] = p[1] /\ <<c, p[2]>> \in DOMAIN rndNotes
                   /\ rndNotes[<<c, p[2]>>].own = rndInput.notes[p].own
        BY <2>1 DEF RndIInv, Keeps
    <2> QED BY <2>2, <2>3 DEF NothingIsTornApart
<1> QED BY <1>1, RndInitIInv, RndNextIInv, PTL DEF RndSpec

-----------------------------------------------------------------------------
(* ProductTables: the tables of a run, and the answers of the next.         *)

(* A row is only given a category, and an alias only a field, that exists. *)
GoodAlias(given, fields) == \A w \in DOMAIN given.alias : given.alias[w] \in fields
GoodAnswers(a) ==
    /\ \A n \in DOMAIN a.over : a.over[n] \in Categories
    /\ \A g \in Categories : GoodAlias(a.given[g], TableFields(g))

(* Reviews are of rows, or of columns of a table: one of each at most.     *)
ReviewsFit(supply, plans, reviews) ==
    /\ DOMAIN plans \subseteq Categories
    /\ \A r \in reviews :
          \/ /\ r.kind = "category" /\ r.category = NoCategory
             /\ r.at \in DOMAIN supply.rows /\ r.candidates \subseteq Categories
          \/ /\ r.kind \in {"field_mapping", "duplicate_header"}
             /\ r.category \in DOMAIN plans /\ r.at \in DOMAIN supply.headers
             /\ r.kind = plans[r.category][r.at].status
             /\ r.candidates \subseteq TableFields(r.category)
             /\ r.kind = "duplicate_header" => r.candidates = {}
    /\ \A r, s \in reviews : r.category = s.category /\ r.at = s.at => r = s

(* Columns that are alike but for their spelling are not treated apart.    *)
SpelledAlike(h, plans) ==
    \A g \in DOMAIN plans : \A c, d \in DOMAIN h :
        plans[g][c].status = "accepted" /\ Token[h[c]] = Token[h[d]]
        => plans[g][d].status # "field_mapping" /\ \E f : plans[g][c].fields = {f}

FittingRows(supply, a, fixed) ==
    [n \in DOMAIN supply.rows |->
       IF n \in DOMAIN a.over THEN Settled(a.over[n])
       ELSE Resolution(CellOf(supply.rows[n], fixed, IdField), CellOf(supply.rows[n], fixed, NameField))]
FittingPlans(supply, a, rows) ==
    [g \in Grouped(rows) |-> MapHeaders(supply.headers, TableFields(g), a.given[g])]
FittingReviews(rows, plans) == RowReviews(rows) \cup FieldReviews(plans)
FittingIssues(supply, rows, plans) == CellIssues(supply, rows, plans) \cup SkuIssues(supply, rows, plans)

PlannedSteps == {"planned", "filled", "manual_review", "completed"}
EarlySteps   == {"received", "mapped", "resolved", "fetched"}

(* The worksheet of a run stays the one that was sent in.                  *)
SupplyRule  == tabSupply \in Supplies /\ tabRun \in Nat
(* Only active categories and fields of their tables are ever decided on.  *)
AnswersRule == GoodAnswers(tabAnswers)

(* The rows, the tables and the reviews of a run follow from its answers.  *)
ResultRule ==
    /\ tabStep \in {"resolved", "fetched"} \cup PlannedSteps => tabRows = FittingRows(tabSupply, tabAnswers, tabFixed)
    /\ tabStep \in PlannedSteps => /\ tabPlans = FittingPlans(tabSupply, tabAnswers, tabRows)
                                   /\ tabReviews = FittingReviews(tabRows, tabPlans)
    /\ tabStep = "filled" => tabIssues = FittingIssues(tabSupply, tabRows, tabPlans)
    /\ tabStep = "completed" =>
          /\ tabReviews = {} /\ \A i \in FittingIssues(tabSupply, tabRows, tabPlans) : i.kind \notin Blocking
          /\ tabIssues = FittingIssues(tabSupply, tabRows, tabPlans) \cup RecordIssues(tabSupply, tabRows, tabPlans)

(* The reviews are of the rows and tables at hand, and stay so until the   *)
(* next revision has planned its own.                                      *)
ReviewRule   == ReviewsFit(tabSupply, tabPlans, tabReviews)
(* No other spelling of a column that has its field is asked about.        *)
SpellingRule == SpelledAlike(tabSupply.headers, tabPlans)

(* Until a revision has planned its tables, the reviews, the tables and    *)
(* the decisions are those that it was made from.                          *)
DecidedRule ==
    /\ tabStep = "review_resolved" \/ (tabStep \in EarlySteps /\ tabRun > 1)
          => tabDecided \in Decisions(tabReviews)
    /\ tabStep \in EarlySteps /\ tabRun > 1 => tabAnswers = AnswersOf(tabSupply.headers, tabDecided)

TableIInv == /\ SupplyRule /\ AnswersRule /\ ResultRule /\ ReviewRule
             /\ SpellingRule /\ DecidedRule

-----------------------------------------------------------------------------
LEMMA NoCategoryIsNone == NoCategory \notin Categories
BY ProductTablesAssumption

LEMMA OneOf ==
    ASSUME NEW S, IsFiniteSet(S), Cardinality(S) = 1
    PROVE  \E x : S = {x}
BY FS_Singleton

(* What a row resolves to, by its id and its name.                         *)
LEMMA ResolutionFits ==
    ASSUME NEW id, NEW name
    PROVE  LET x == Resolution(id, name) IN
           /\ x.category \in Categories \cup {NoCategory} /\ x.candidates \subseteq Categories
           /\ x.category # NoCategory => id \in {Absent, x.category} /\ Owners(name) \subseteq {x.category}
<1> DEFINE own == Owners(name)
<1>1. own \subseteq Categories /\ AlikeOwners(name) \subseteq Categories
    BY DEF Owners, AlikeOwners
<1>2. ASSUME NEW gs \in SUBSET Categories
      PROVE  Asked(gs).category = NoCategory /\ Asked(gs).candidates \subseteq Categories
    BY DEF Asked
<1>3. ASSUME NEW g \in Categories
      PROVE  Settled(g).category = g /\ Settled(g).candidates = {}
    BY DEF Settled
<1>4. CASE id \in Categories
    <2>1. CASE own \in {{}, {id}}
        BY <1>3, <1>4, <2>1 DEF Resolution
    <2>2. CASE own \notin {{}, {id}}
        BY <1>1, <1>2, <1>4, <2>2 DEF Resolution
    <2> QED BY <2>1, <2>2
<1>5. CASE id \notin Categories /\ (name = Absent \/ id # Absent)
    BY <1>1, <1>2, <1>5 DEF Resolution
<1>6. CASE id \notin Categories /\ name # Absent /\ id = Absent
    <2>1. CASE Cardinality(own) = 1
        <3>1. IsFiniteSet(own)
            BY <1>1, FS_Subset, ProductTablesAssumption
        <3>2. PICK g : own = {g}
            BY <2>1, <3>1, OneOf
        <3>3. (CHOOSE x \in own : TRUE) = g /\ g \in Categories
            BY <1>1, <3>2
        <3>4. Resolution(id, name) = Settled(g)
            BY <1>6, <2>1, <3>3 DEF Resolution
        <3> QED BY <1>3, <1>6, <3>2, <3>3, <3>4
    <2>2. CASE Cardinality(own) # 1
        BY <1>1, <1>2, <1>6, <2>2 DEF Resolution
    <2> QED BY <2>1, <2>2
<1> QED BY <1>4, <1>5, <1>6

-----------------------------------------------------------------------------
(* What map_product_headers makes of a column.                             *)
LEMMA ClaimantsFit ==
    ASSUME NEW h, NEW fields, IsFiniteSet(fields), NEW given, GoodAlias(given, fields), NEW c
    PROVE  /\ Claimants(h, fields, given, c) \subseteq fields
           /\ Suggested(h, fields, given, c) \subseteq fields
           /\ IsFiniteSet(Claimants(h, fields, given, c))
<1>1. /\ Claimants(h, fields, given, c) \subseteq fields
      /\ Suggested(h, fields, given, c) \subseteq fields
    BY DEF Claimants, Suggested, GoodAlias
<1>2. IsFiniteSet(Claimants(h, fields, given, c))
    BY <1>1, FS_Subset
<1> QED BY <1>1, <1>2

LEMMA HeaderCases ==
    ASSUME NEW h, NEW fields, IsFiniteSet(fields), NEW given, GoodAlias(given, fields), NEW c
    PROVE  LET own  == Claimants(h, fields, given, c)
               like == Suggested(h, fields, given, c)
               x    == MapHeader(h, fields, given, c) IN
           /\ x.status \in {"accepted", "duplicate_header", "field_mapping", "unmapped"}
           /\ x.fields \subseteq fields
           /\ x.status \in {"accepted", "duplicate_header"} => x.fields = own /\ \E f \in fields : own = {f}
           /\ x.status = "accepted" <=> Cardinality(own) = 1 /\ ~Earlier(h, fields, given, c)
           /\ x.status = "field_mapping" => Cardinality(own) # 1
           /\ x.status = "unmapped" <=> Cardinality(own) # 1 /\ own = {} /\ like = {}
<1> DEFINE own  == Claimants(h, fields, given, c)
           like == Suggested(h, fields, given, c)
           x    == MapHeader(h, fields, given, c)
<1>1. own \subseteq fields /\ like \subseteq fields /\ IsFiniteSet(own)
    BY ClaimantsFit
<1>2. CASE Cardinality(own) = 1
    <2>1. x = [status |-> IF Earlier(h, fields, given, c) THEN "duplicate_header" ELSE "accepted", fields |-> own]
        BY <1>2 DEF MapHeader
    <2>2. \E f \in fields : own = {f}
        BY <1>1, <1>2, OneOf
    <2> QED BY <1>1, <1>2, <2>1, <2>2
<1>3. CASE Cardinality(own) # 1 /\ own \cup like # {}
    <2>1. x = [status |-> "field_mapping", fields |-> IF own # {} THEN own ELSE like]
        BY <1>3 DEF MapHeader
    <2> QED BY <1>1, <1>3, <2>1
<1>4. CASE Cardinality(own) # 1 /\ own \cup like = {}
    <2>1. x = [status |-> "unmapped", fields |-> {}]
        BY <1>4 DEF MapHeader
    <2> QED BY <1>4, <2>1
<1> QED BY <1>2, <1>3, <1>4

(* The first column of a field has it, and no other.                       *)
LEMMA OneColumnEach ==
    ASSUME NEW n \in Nat, NEW h, DOMAIN h = 1 .. n, NEW fields, IsFiniteSet(fields),
           NEW given, GoodAlias(given, fields), NEW f
    PROVE  Cardinality(ColumnsOfField(MapHeaders(h, fields, given), f)) <= 1
<1> DEFINE plan == MapHeaders(h, fields, given)
           at   == ColumnsOfField(plan, f)
<1>1. ASSUME NEW c \in at
      PROVE  /\ c \in 1 .. n /\ Claimants(h, fields, given, c) = {f}
             /\ ~Earlier(h, fields, given, c)
    <2>1. /\ c \in 1 .. n /\ plan[c] = MapHeader(h, fields, given, c)
          /\ plan[c].status = "accepted" /\ plan[c].fields = {f}
        BY DEF ColumnsOfField, MapHeaders
    <2> QED BY <2>1, HeaderCases
<1>2. ASSUME NEW c \in at, NEW d \in at PROVE ~(d < c)
    <2>1. c \in 1 .. n /\ d \in 1 .. n /\ ~(d \in 1 .. c - 1)
        BY <1>1 DEF Earlier
    <2> QED BY <2>1
<1>3. \A c, d \in at : c = d
    BY <1>1, <1>2
<1>4. CASE at = {}
    BY <1>4, FS_EmptySet
<1>5. CASE at # {}
    <2>1. PICK c : at = {c}
        BY <1>3, <1>5
    <2>2. Cardinality({c}) = 1
        BY FS_Singleton
    <2> QED BY <2>1, <2>2
<1> QED BY <1>4, <1>5


-----------------------------------------------------------------------------
(* The rows of a run.                                                      *)
GoodRows(supply, rows) ==
    /\ DOMAIN rows = DOMAIN supply.rows
    /\ \A n \in DOMAIN rows : /\ rows[n].category \in Categories \cup {NoCategory}
                              /\ rows[n].candidates \subseteq Categories

LEMMA RowsFit ==
    ASSUME NEW supply, NEW a, GoodAnswers(a), NEW fixed
    PROVE  GoodRows(supply, FittingRows(supply, a, fixed))
<1> DEFINE rows == FittingRows(supply, a, fixed)
<1>1. DOMAIN rows = DOMAIN supply.rows
    BY DEF FittingRows
<1>2. ASSUME NEW n \in DOMAIN rows
      PROVE  /\ rows[n].category \in Categories \cup {NoCategory}
             /\ rows[n].candidates \subseteq Categories
    <2>1. CASE n \in DOMAIN a.over
        <3>1. rows[n] = Settled(a.over[n]) /\ a.over[n] \in Categories
            BY <1>1, <1>2, <2>1 DEF FittingRows, GoodAnswers
        <3> QED BY <3>1 DEF Settled
    <2>2. CASE n \notin DOMAIN a.over
        <3> DEFINE id   == CellOf(supply.rows[n], fixed, IdField)
                   name == CellOf(supply.rows[n], fixed, NameField)
        <3>1. rows[n] = Resolution(id, name)
            BY <1>1, <1>2, <2>2 DEF FittingRows
        <3> HIDE DEF id, name, rows
        <3> QED BY <3>1, ResolutionFits
    <2> QED BY <2>1, <2>2
<1> QED BY <1>1, <1>2 DEF GoodRows

LEMMA GroupedFit ==
    ASSUME NEW supply, NEW rows, GoodRows(supply, rows)
    PROVE  Grouped(rows) \subseteq Categories
BY DEF Grouped, GoodRows

(* The tables of a run.                                                    *)
LEMMA PlansFit ==
    ASSUME NEW supply \in Supplies, NEW a, GoodAnswers(a), NEW rows, GoodRows(supply, rows), NEW g,
           g \in DOMAIN FittingPlans(supply, a, rows)
    PROVE  LET plan == FittingPlans(supply, a, rows)[g] IN
           /\ g \in Categories /\ IsFiniteSet(TableFields(g)) /\ GoodAlias(a.given[g], TableFields(g))
           /\ plan = MapHeaders(supply.headers, TableFields(g), a.given[g])
           /\ DOMAIN plan = DOMAIN supply.headers
           /\ \A c \in DOMAIN plan : plan[c] = MapHeader(supply.headers, TableFields(g), a.given[g], c)
           /\ \E n \in Nat : DOMAIN supply.headers = 1 .. n
<1>1. g \in Grouped(rows) /\ g \in Categories
    BY GroupedFit DEF FittingPlans
<1>2. IsFiniteSet(TableFields(g)) /\ GoodAlias(a.given[g], TableFields(g))
    BY <1>1, ProductTablesAssumption DEF TableFields, GoodAnswers
<1>3. FittingPlans(supply, a, rows)[g] = MapHeaders(supply.headers, TableFields(g), a.given[g])
    BY <1>1 DEF FittingPlans
<1>4. \E n \in Nat : DOMAIN supply.headers = 1 .. n
    BY ProductTablesAssumption
<1> QED BY <1>1, <1>2, <1>3, <1>4 DEF MapHeaders

LEMMA FittingReviewsFit ==
    ASSUME NEW supply \in Supplies, NEW a, GoodAnswers(a), NEW rows, GoodRows(supply, rows)
    PROVE  LET plans == FittingPlans(supply, a, rows) IN
           ReviewsFit(supply, plans, FittingReviews(rows, plans))
<1> DEFINE plans   == FittingPlans(supply, a, rows)
           reviews == FittingReviews(rows, plans)
<1>1. DOMAIN plans = Grouped(rows) /\ DOMAIN plans \subseteq Categories
    BY GroupedFit DEF FittingPlans
<1>2. ASSUME NEW r \in reviews
      PROVE  \/ /\ r.kind = "category" /\ r.category = NoCategory
                /\ r.at \in DOMAIN supply.rows /\ r.candidates \subseteq Categories
                /\ r = Review("category", NoCategory, r.at, rows[r.at].candidates)
             \/ /\ r.kind \in {"field_mapping", "duplicate_header"}
                /\ r.category \in DOMAIN plans /\ r.at \in DOMAIN supply.headers
                /\ r.kind = plans[r.category][r.at].status
                /\ r.candidates \subseteq TableFields(r.category)
                /\ r.kind = "duplicate_header" => r.candidates = {}
                /\ r = Review(plans[r.category][r.at].status, r.category, r.at,
                              IF plans[r.category][r.at].status = "duplicate_header" THEN {}
                              ELSE plans[r.category][r.at].fields)
    <2>1. CASE r \in RowReviews(rows)
        <3>1. PICK n \in RowsOf(rows, NoCategory) : r = Review("category", NoCategory, n, rows[n].candidates)
            BY <2>1 DEF RowReviews
        <3>2. r.kind = "category" /\ r.category = NoCategory /\ r.at = n /\ r.candidates = rows[n].candidates
            BY <3>1 DEF Review
        <3>3. n \in DOMAIN supply.rows /\ rows[n].candidates \subseteq Categories
            BY DEF RowsOf, GoodRows
        <3> QED BY <3>1, <3>2, <3>3
    <2>2. CASE r \in FieldReviews(plans)
        <3> HIDE DEF plans
        <3>1. PICK g \in DOMAIN plans : \E c \in DOMAIN plans[g] :
                  /\ plans[g][c].status \in {"field_mapping", "duplicate_header"}
                  /\ r = Review(plans[g][c].status, g, c,
                                IF plans[g][c].status = "duplicate_header" THEN {} ELSE plans[g][c].fields)
            BY <2>2 DEF FieldReviews
        <3>2. PICK c \in DOMAIN plans[g] :
                  /\ plans[g][c].status \in {"field_mapping", "duplicate_header"}
                  /\ r = Review(plans[g][c].status, g, c,
                                IF plans[g][c].status = "duplicate_header" THEN {} ELSE plans[g][c].fields)
            BY <3>1
        <3>3. /\ r.kind = plans[g][c].status /\ r.category = g /\ r.at = c
              /\ r.candidates = IF plans[g][c].status = "duplicate_header" THEN {} ELSE plans[g][c].fields
            BY <3>2 DEF Review
        <3>4. /\ DOMAIN plans[g] = DOMAIN supply.headers
              /\ IsFiniteSet(TableFields(g)) /\ GoodAlias(a.given[g], TableFields(g))
              /\ plans[g][c] = MapHeader(supply.headers, TableFields(g), a.given[g], c)
            BY PlansFit DEF plans
        <3>5. plans[g][c].fields \subseteq TableFields(g)
            BY <3>4, HeaderCases
        <3> QED BY <3>2, <3>3, <3>4, <3>5
    <2> QED BY <2>1, <2>2 DEF FittingReviews
<1>3. ASSUME NEW r \in reviews, NEW s \in reviews, r.category = s.category, r.at = s.at
      PROVE  r = s
    <2> HIDE DEF plans, reviews
    <2>1. NoCategory \notin DOMAIN plans
        BY <1>1, NoCategoryIsNone
    <2>2. CASE r.category = NoCategory
        BY <1>2, <1>3, <2>1, <2>2
    <2>3. CASE r.category # NoCategory
        BY <1>2, <1>3, <2>3
    <2> QED BY <2>2, <2>3
<1> HIDE DEF plans, reviews
<1>4. ReviewsFit(supply, plans, reviews)
    BY <1>1, <1>2, <1>3 DEF ReviewsFit
<1> QED BY <1>4 DEF plans, reviews

LEMMA FittingPlansSpelled ==
    ASSUME NEW supply \in Supplies, NEW a, GoodAnswers(a), NEW rows, GoodRows(supply, rows)
    PROVE  SpelledAlike(supply.headers, FittingPlans(supply, a, rows))
<1> DEFINE plans == FittingPlans(supply, a, rows)
           h     == supply.headers
<1> SUFFICES ASSUME NEW g \in DOMAIN plans, NEW c \in DOMAIN h, NEW d \in DOMAIN h,
                    plans[g][c].status = "accepted", Token[h[c]] = Token[h[d]]
             PROVE  plans[g][d].status # "field_mapping" /\ \E f : plans[g][c].fields = {f}
    BY DEF SpelledAlike
<1> DEFINE fields == TableFields(g)
           given  == a.given[g]
<1>1. /\ IsFiniteSet(fields) /\ GoodAlias(given, fields)
      /\ plans[g][c] = MapHeader(h, fields, given, c) /\ plans[g][d] = MapHeader(h, fields, given, d)
    BY PlansFit
<1> HIDE DEF plans, fields, given, h
<1>2. /\ Cardinality(Claimants(h, fields, given, c)) = 1
      /\ \E f : plans[g][c].fields = {f}
    BY <1>1, HeaderCases
<1>3. c \notin given.extra
    BY <1>2, FS_EmptySet DEF Claimants
<1>4. CASE d \in given.extra
    <2>1. Claimants(h, fields, given, d) = {} /\ Suggested(h, fields, given, d) = {}
        BY <1>4 DEF Claimants, Suggested
    <2>2. Cardinality(Claimants(h, fields, given, d)) # 1
        BY <2>1, FS_EmptySet
    <2>3. MapHeader(h, fields, given, d).status = "unmapped"
        BY <2>1, <2>2, <1>1, HeaderCases
    <2> QED BY <1>1, <1>2, <2>3
<1>5. CASE d \notin given.extra
    <2>1. Claimants(h, fields, given, d) = Claimants(h, fields, given, c)
        BY <1>3, <1>5 DEF Claimants
    <2>2. Cardinality(Claimants(h, fields, given, d)) = 1
        BY <1>2, <2>1
    <2>3. MapHeader(h, fields, given, d).status # "field_mapping"
        BY <1>1, <2>2, HeaderCases
    <2> QED BY <1>1, <1>2, <2>3
<1> QED BY <1>4, <1>5

-----------------------------------------------------------------------------
(* What a revision is given is what was decided.                           *)
LEMMA LastOnExists ==
    ASSUME NEW n \in Nat, NEW h, NEW reviews, \A r \in reviews : r.at \in 1 .. n,
           NEW w \in {h[r.at] : r \in reviews}
    PROVE  LastOn(h, reviews, w) \in reviews /\ h[LastOn(h, reviews, w).at] = w
<1> DEFINE T == {r.at : r \in {r \in reviews : h[r.at] = w}}
<1>1. T \in SUBSET (1 .. n) /\ T # {}
    OBVIOUS
<1>2. PICK x \in T : \A y \in T : y <= x
    BY <1>1, GreatestOf
<1>3. \E r \in reviews : h[r.at] = w /\ \A s \in reviews : h[s.at] = w => s.at <= r.at
    BY <1>2
<1> QED BY <1>3 DEF LastOn

LEMMA MappedFit ==
    ASSUME NEW supply \in Supplies, NEW plans, NEW reviews, ReviewsFit(supply, plans, reviews),
           NEW decided \in Decisions(reviews), NEW g \in Categories,
           NEW w \in DOMAIN AnswersOf(supply.headers, decided).given[g].alias
    PROVE  LET r == LastOn(supply.headers, MappedIn(decided, g), w) IN
           /\ r \in MappedIn(decided, g) /\ supply.headers[r.at] = w
           /\ AnswersOf(supply.headers, decided).given[g].alias[w] = decided[r]
<1> DEFINE h == supply.headers
           M == MappedIn(decided, g)
<1>1. DOMAIN decided = reviews
    BY DEF Decisions
<1>2. PICK n \in Nat : DOMAIN h = 1 .. n
    BY ProductTablesAssumption
<1>3. \A r \in M : r.at \in 1 .. n
    BY <1>1, <1>2 DEF MappedIn, ReviewsFit
<1>4. AnswersOf(h, decided).given[g].alias = [v \in {h[r.at] : r \in M} |-> decided[LastOn(h, M, v)]]
    BY DEF AnswersOf
<1> HIDE DEF M, h
<1>5. w \in {h[r.at] : r \in M} /\ AnswersOf(h, decided).given[g].alias[w] = decided[LastOn(h, M, w)]
    BY <1>4 DEF h
<1>6. LastOn(h, M, w) \in M /\ h[LastOn(h, M, w).at] = w
    BY <1>3, <1>5, LastOnExists
<1> QED BY <1>5, <1>6 DEF M, h

LEMMA DecisionFits ==
    ASSUME NEW supply, NEW plans, NEW reviews, ReviewsFit(supply, plans, reviews),
           NEW decided \in Decisions(reviews), NEW r \in reviews
    PROVE  /\ DOMAIN decided = reviews
           /\ r.kind = "category" => decided[r] \in Categories
           /\ r.kind # "category" /\ decided[r] # "keep_extra" =>
                r.kind = "field_mapping" /\ decided[r] \in TableFields(r.category)
<1>1. DOMAIN decided = reviews /\ decided[r] \in Verdicts(r)
    BY DEF Decisions
<1>2. CASE r.kind = "category"
    <2>1. decided[r] \in r.candidates
        BY <1>1, <1>2 DEF Verdicts
    <2>2. r.candidates \subseteq Categories
        BY <1>2 DEF ReviewsFit
    <2> QED BY <1>1, <1>2, <2>1, <2>2
<1>3. CASE r.kind # "category"
    <2>1. decided[r] \in r.candidates \cup {"keep_extra"}
        BY <1>1, <1>3 DEF Verdicts
    <2>2. /\ r.kind \in {"field_mapping", "duplicate_header"}
          /\ r.candidates \subseteq TableFields(r.category)
          /\ r.kind = "duplicate_header" => r.candidates = {}
        BY <1>3 DEF ReviewsFit
    <2> QED BY <1>1, <1>3, <2>1, <2>2
<1> QED BY <1>2, <1>3

LEMMA OverFits ==
    ASSUME NEW supply, NEW plans, NEW reviews, ReviewsFit(supply, plans, reviews),
           NEW decided \in Decisions(reviews), NEW h
    PROVE  /\ DOMAIN AnswersOf(h, decided).over = {r.at : r \in RowVerdicts(decided)}
           /\ \A r \in RowVerdicts(decided) : AnswersOf(h, decided).over[r.at] = decided[r]
<1> DEFINE R == RowVerdicts(decided)
<1>1. AnswersOf(h, decided).over = [n \in {r.at : r \in R} |-> decided[CHOOSE r \in R : r.at = n]]
    BY DEF AnswersOf
<1>2. \A r \in R : r \in reviews /\ r.category = NoCategory
    BY DEF RowVerdicts, Decisions, ReviewsFit
<1>3. \A r, s \in R : r.at = s.at => r = s
    BY <1>2 DEF ReviewsFit
<1> HIDE DEF R
<1>4. ASSUME NEW r \in R PROVE (CHOOSE s \in R : s.at = r.at) = r
    BY <1>3
<1>5. \A r \in R : AnswersOf(h, decided).over[r.at] = decided[r]
    BY <1>1, <1>4
<1> QED BY <1>1, <1>5 DEF R

LEMMA AnswersAreGood ==
    ASSUME NEW supply \in Supplies, NEW plans, NEW reviews, ReviewsFit(supply, plans, reviews),
           NEW decided \in Decisions(reviews)
    PROVE  GoodAnswers(AnswersOf(supply.headers, decided))
<1> DEFINE a == AnswersOf(supply.headers, decided)
<1>1. ASSUME NEW n \in DOMAIN a.over PROVE a.over[n] \in Categories
    <2>1. PICK r \in RowVerdicts(decided) : r.at = n
        BY <1>1, OverFits
    <2>2. a.over[n] = decided[r] /\ r \in reviews /\ r.kind = "category"
        BY <2>1, OverFits DEF RowVerdicts, Decisions
    <2> QED BY <2>2, DecisionFits
<1>2. ASSUME NEW g \in Categories, NEW w \in DOMAIN a.given[g].alias
      PROVE  a.given[g].alias[w] \in TableFields(g)
    <2>1. PICK r \in MappedIn(decided, g) : a.given[g].alias[w] = decided[r]
        BY MappedFit
    <2>2. r \in reviews /\ r.kind = "field_mapping" /\ r.category = g /\ decided[r] # "keep_extra"
        BY DEF MappedIn, Decisions
    <2> QED BY <2>1, <2>2, DecisionFits
<1> QED BY <1>1, <1>2 DEF GoodAnswers, GoodAlias

-----------------------------------------------------------------------------
LEMMA TableInit == TabInit => TableIInv
<1> SUFFICES ASSUME TabInit PROVE TableIInv
    OBVIOUS
<1>1. SupplyRule
    BY DEF TabInit, SupplyRule
<1>2. AnswersRule
    BY DEF TabInit, AnswersRule, NoAnswers, NothingGiven, GoodAnswers, GoodAlias
<1>3. ResultRule
    BY DEF TabInit, ResultRule, PlannedSteps
<1>4. ReviewRule /\ SpellingRule
    BY DEF TabInit, ReviewRule, SpellingRule, ReviewsFit, SpelledAlike
<1>5. DecidedRule
    BY DEF TabInit, DecidedRule, EarlySteps
<1> QED BY <1>1, <1>2, <1>3, <1>4, <1>5 DEF TableIInv

(* What a step leaves alone.                                               *)
LEMMA SupplyStays ==
    ASSUME SupplyRule, UNCHANGED <<tabSupply, tabRun>> PROVE SupplyRule'
BY DEF SupplyRule
LEMMA AnswersStay ==
    ASSUME AnswersRule, UNCHANGED tabAnswers PROVE AnswersRule'
BY DEF AnswersRule
LEMMA ReviewsStay ==
    ASSUME ReviewRule, SpellingRule, UNCHANGED <<tabSupply, tabPlans, tabReviews>>
    PROVE  ReviewRule' /\ SpellingRule'
BY DEF ReviewRule, SpellingRule

LEMMA TableStep == TableIInv /\ [TabNext]_tabVars => TableIInv'
<1> SUFFICES ASSUME TableIInv, [TabNext]_tabVars PROVE TableIInv'
    OBVIOUS
<1> USE DEF TableIInv
<1>1. CASE MapFixed
    <2> USE <1>1 DEF MapFixed, TabInput
    <2>1. ResultRule'
        BY DEF ResultRule, PlannedSteps
    <2>2. DecidedRule'
        BY DEF DecidedRule, EarlySteps
    <2> QED BY <2>1, <2>2, SupplyStays, AnswersStay, ReviewsStay
<1>2. CASE ResolveCategories
    <2> USE <1>2 DEF ResolveCategories, TabInput
    <2>1. ResultRule'
        BY DEF ResultRule, PlannedSteps, FittingRows
    <2>2. DecidedRule'
        BY DEF DecidedRule, EarlySteps
    <2> QED BY <2>1, <2>2, SupplyStays, AnswersStay, ReviewsStay
<1>3. CASE FetchSchemas
    <2> USE <1>3 DEF FetchSchemas, TabInput
    <2>1. tabStep' \in {"fetched", "no_schema"}
        OBVIOUS
    <2>2. ResultRule'
        BY <2>1 DEF ResultRule, PlannedSteps
    <2>3. DecidedRule'
        BY <2>1 DEF DecidedRule, EarlySteps
    <2> QED BY <2>2, <2>3, SupplyStays, AnswersStay, ReviewsStay
<1>4. CASE PlanTables
    <2> USE <1>4 DEF PlanTables, TabInput
    <2>1. CASE tabStep' = "failed"
        <3>1. UNCHANGED <<tabPlans, tabReviews>>
            BY <2>1
        <3>2. ResultRule'
            BY <2>1 DEF ResultRule, PlannedSteps
        <3>3. DecidedRule'
            BY <2>1 DEF DecidedRule, EarlySteps
        <3> QED BY <3>1, <3>2, <3>3, SupplyStays, AnswersStay, ReviewsStay
    <2>2. CASE tabStep' # "failed"
        <3>1. /\ tabStep' = "planned" /\ tabRows' = tabRows
              /\ tabSupply' = tabSupply /\ tabAnswers' = tabAnswers /\ tabFixed' = tabFixed
              /\ tabPlans' = FittingPlans(tabSupply, tabAnswers, tabRows)
              /\ tabReviews' = FittingReviews(tabRows, tabPlans')
            BY <2>2 DEF FittingPlans, FittingReviews
        <3>2. tabRows = FittingRows(tabSupply, tabAnswers, tabFixed)
            BY DEF ResultRule
        <3>3. GoodRows(tabSupply, tabRows) /\ tabSupply \in Supplies /\ GoodAnswers(tabAnswers)
            BY <3>2, RowsFit DEF SupplyRule, AnswersRule
        <3>4. ResultRule'
            BY <3>1, <3>2 DEF ResultRule, PlannedSteps
        <3>5. ReviewsFit(tabSupply, tabPlans', tabReviews') /\ SpelledAlike(tabSupply.headers, tabPlans')
            BY <3>1, <3>3, FittingReviewsFit, FittingPlansSpelled
        <3>6. ReviewRule' /\ SpellingRule'
            BY <3>1, <3>5 DEF ReviewRule, SpellingRule
        <3>7. DecidedRule'
            BY <3>1 DEF DecidedRule, EarlySteps
        <3> QED BY <3>4, <3>6, <3>7, SupplyStays, AnswersStay
    <2> QED BY <2>1, <2>2
<1>5. CASE FillTables
    <2> USE <1>5 DEF FillTables, TabInput
    <2>1. ResultRule'
        BY DEF ResultRule, PlannedSteps, FittingIssues
    <2>2. DecidedRule'
        BY DEF DecidedRule, EarlySteps
    <2> QED BY <2>1, <2>2, SupplyStays, AnswersStay, ReviewsStay
<1>6. CASE CheckRecords
    <2> USE <1>6 DEF CheckRecords, TabInput
    <2>1. tabStep' \in {"manual_review", "completed"}
        OBVIOUS
    <2>2. ResultRule'
        BY <2>1 DEF ResultRule, PlannedSteps
    <2>3. DecidedRule'
        BY <2>1 DEF DecidedRule, EarlySteps
    <2> QED BY <2>2, <2>3, SupplyStays, AnswersStay, ReviewsStay
<1>7. CASE Decide
    <2> USE <1>7 DEF Decide, TabInput
    <2>1. ResultRule'
        BY DEF ResultRule, PlannedSteps
    <2>2. DecidedRule'
        BY DEF DecidedRule, EarlySteps
    <2> QED BY <2>1, <2>2, SupplyStays, AnswersStay, ReviewsStay
<1>8. CASE Reject
    <2> USE <1>8 DEF Reject, TabInput
    <2>1. ResultRule'
        BY DEF ResultRule, PlannedSteps
    <2>2. DecidedRule'
        BY DEF DecidedRule, EarlySteps
    <2> QED BY <2>1, <2>2, SupplyStays, AnswersStay, ReviewsStay
<1>9. CASE Revise
    <2> USE <1>9 DEF Revise
    <2>1. tabDecided \in Decisions(tabReviews)
        BY DEF DecidedRule
    <2>2. tabAnswers' = AnswersOf(tabSupply.headers, tabDecided)
        BY DEF ReviseAnswers
    <2>3. AnswersRule'
        BY <2>1, <2>2, AnswersAreGood DEF AnswersRule, SupplyRule, ReviewRule
    <2>4. SupplyRule'
        BY DEF SupplyRule
    <2>5. ResultRule'
        BY DEF ResultRule, PlannedSteps
    <2>6. DecidedRule'
        BY <2>1, <2>2 DEF DecidedRule, EarlySteps
    <2> QED BY <2>3, <2>4, <2>5, <2>6, ReviewsStay
<1>10. CASE UNCHANGED tabVars
    <2> USE <1>10 DEF tabVars
    <2>1. ResultRule'
        BY DEF ResultRule
    <2>2. DecidedRule'
        BY DEF DecidedRule
    <2> QED BY <2>1, <2>2, SupplyStays, AnswersStay, ReviewsStay
<1> QED BY <1>1, <1>2, <1>3, <1>4, <1>5, <1>6, <1>7, <1>8, <1>9, <1>10 DEF TabNext

LEMMA TableInvariant == TabSpec => []TableIInv
<1>1. TabInit => TableIInv
    BY TableInit
<1>2. TableIInv /\ [TabNext]_tabVars => TableIInv'
    BY TableStep
<1> QED BY <1>1, <1>2, PTL DEF TabSpec

-----------------------------------------------------------------------------
(* The rows and tables of a run are complete by what its steps make them.  *)
LEMMA NothingDroppedNow == TableIInv => NothingIsDropped
<1> SUFFICES ASSUME TableIInv, Reviewed PROVE NothingIsDropped
    BY DEF NothingIsDropped
<1>1. /\ tabSupply \in Supplies /\ GoodAnswers(tabAnswers)
      /\ tabRows = FittingRows(tabSupply, tabAnswers, tabFixed)
      /\ tabPlans = FittingPlans(tabSupply, tabAnswers, tabRows)
      /\ tabReviews = FittingReviews(tabRows, tabPlans)
    BY DEF TableIInv, Reviewed, SupplyRule, AnswersRule, ResultRule, PlannedSteps
<1>2. GoodRows(tabSupply, tabRows)
    BY <1>1, RowsFit
<1>3. DOMAIN tabPlans = Grouped(tabRows) /\ NoCategory \notin DOMAIN tabPlans
    BY <1>1 DEF FittingPlans, Grouped
<1>4. ASSUME NEW n \in DOMAIN tabSupply.rows
      PROVE  (n \in Placed(tabRows) /\ tabRows[n].category \in DOMAIN tabPlans)
                # (\E r \in tabReviews : r.kind = "category" /\ r.at = n)
    <2>1. n \in DOMAIN tabRows
        BY <1>2 DEF GoodRows
    <2>2. CASE tabRows[n].category = NoCategory
        <3>1. n \notin Placed(tabRows)
            BY <2>2 DEF Placed
        <3> DEFINE r == Review("category", NoCategory, n, tabRows[n].candidates)
        <3>2. r \in RowReviews(tabRows)
            BY <2>1, <2>2 DEF RowReviews, RowsOf
        <3>3. r \in tabReviews /\ r.kind = "category" /\ r.at = n
            BY <1>1, <3>2 DEF FittingReviews, Review
        <3> QED BY <3>1, <3>3
    <2>3. CASE tabRows[n].category # NoCategory
        <3>1. n \in Placed(tabRows) /\ tabRows[n].category \in DOMAIN tabPlans
            BY <1>3, <2>1, <2>3 DEF Placed, Grouped
        <3>2. ASSUME NEW r \in tabReviews, r.kind = "category" PROVE r.at # n
            <4>1. CASE r \in RowReviews(tabRows)
                BY <2>3, <4>1 DEF RowReviews, RowsOf, Review
            <4>2. CASE r \in FieldReviews(tabPlans)
                BY <3>2, <4>2 DEF FieldReviews, Review
            <4> QED BY <1>1, <4>1, <4>2 DEF FittingReviews
        <3> QED BY <3>1, <3>2
    <2> QED BY <2>2, <2>3
<1>5. ASSUME NEW g \in DOMAIN tabPlans
      PROVE  LET plan == tabPlans[g] h == tabSupply.headers given == tabAnswers.given[g] IN
             /\ \A f \in TableFields(g) : Cardinality(ColumnsOfField(plan, f)) <= 1
             /\ \A c \in DOMAIN h :
                  \/ \E r \in tabReviews : r.category = g /\ r.at = c
                  \/ \E f \in TableFields(g) :
                       /\ c \in ColumnsOfField(plan, f)
                       /\ \/ Token[h[c]] \in TokensOf[f]
                          \/ \E w \in DOMAIN given.alias : Token[w] = Token[h[c]] /\ given.alias[w] = f
                  \/ c \in given.extra
                  \/ \A f \in TableFields(g) : \A t \in TokensOf[f] : t # Token[h[c]] /\ <<Token[h[c]], t>> \notin Alike
    <2> DEFINE plan == tabPlans[g]
               h == tabSupply.headers
               given == tabAnswers.given[g]
               fields == TableFields(g)
    <2>1. /\ IsFiniteSet(fields) /\ GoodAlias(given, fields)
          /\ plan = MapHeaders(h, fields, given) /\ DOMAIN plan = DOMAIN h
          /\ \A c \in DOMAIN plan : plan[c] = MapHeader(h, fields, given, c)
          /\ \E n \in Nat : DOMAIN h = 1 .. n
        BY <1>1, <1>2, PlansFit
    <2>2. \A f \in fields : Cardinality(ColumnsOfField(plan, f)) <= 1
        BY <2>1, OneColumnEach
    <2>3. ASSUME NEW c \in DOMAIN h
          PROVE  \/ \E r \in tabReviews : r.category = g /\ r.at = c
                 \/ \E f \in fields :
                       /\ c \in ColumnsOfField(plan, f)
                       /\ \/ Token[h[c]] \in TokensOf[f]
                          \/ \E w \in DOMAIN given.alias : Token[w] = Token[h[c]] /\ given.alias[w] = f
                 \/ c \in given.extra
                 \/ \A f \in fields : \A t \in TokensOf[f] : t # Token[h[c]] /\ <<Token[h[c]], t>> \notin Alike
        <3>1. CASE plan[c].status \in {"field_mapping", "duplicate_header"}
            <4> DEFINE r == Review(plan[c].status, g, c, IF plan[c].status = "duplicate_header" THEN {} ELSE plan[c].fields)
            <4>1. r \in FieldReviews(tabPlans)
                BY <2>1, <3>1 DEF FieldReviews
            <4>2. r \in tabReviews /\ r.category = g /\ r.at = c
                BY <1>1, <4>1 DEF FittingReviews, Review
            <4> QED BY <4>2
        <3> DEFINE own  == Claimants(h, fields, given, c)
                   like == Suggested(h, fields, given, c)
                   told == {given.alias[w] : w \in {w \in DOMAIN given.alias : Token[w] = Token[h[c]]}}
        <3>2. IsFiniteSet(fields) /\ GoodAlias(given, fields) /\ plan[c] = MapHeader(h, fields, given, c)
            BY <2>1
        <3> HIDE DEF plan, h, given, fields
        <3>3. CASE plan[c].status = "accepted"
            <4>1. plan[c].fields = own /\ \E f \in fields : own = {f}
                BY <3>2, <3>3, HeaderCases
            <4>2. PICK f \in fields : own = {f}
                BY <4>1
            <4>3. c \in ColumnsOfField(plan, f)
                BY <2>1, <3>3, <4>1, <4>2 DEF ColumnsOfField
            <4>4. CASE told # {}
                <5>1. f \in told
                    BY <4>2, <4>4 DEF Claimants
                <5>2. PICK w \in DOMAIN given.alias : Token[w] = Token[h[c]] /\ given.alias[w] = f
                    BY <5>1
                <5> QED BY <4>3, <5>2
            <4>5. CASE told = {}
                <5>1. Token[h[c]] \in TokensOf[f]
                    BY <4>2, <4>5 DEF Claimants
                <5> QED BY <4>3, <5>1
            <4> QED BY <4>4, <4>5
        <3>4. CASE plan[c].status = "unmapped" /\ c \notin given.extra
            <4>1. own = {} /\ like = {}
                BY <3>2, <3>4, HeaderCases
            <4>2. told = {}
                BY <3>4, <4>1 DEF Claimants
            <4>3. {f \in fields : Token[h[c]] \in TokensOf[f]} = {}
                BY <3>4, <4>1, <4>2 DEF Claimants
            <4>4. {f \in fields : \E t \in TokensOf[f] : <<Token[h[c]], t>> \in Alike} = {}
                BY <3>4, <4>1 DEF Suggested
            <4>5. ASSUME NEW f \in fields, NEW t \in TokensOf[f]
                  PROVE  t # Token[h[c]] /\ <<Token[h[c]], t>> \notin Alike
                BY <4>3, <4>4
            <4> QED BY <4>5
        <3>5. plan[c].status \in {"accepted", "duplicate_header", "field_mapping", "unmapped"}
            BY <3>2, HeaderCases
        <3> QED BY <3>1, <3>3, <3>4, <3>5
    <2> HIDE DEF plan, h, given, fields
    <2>4. /\ \A f \in fields : Cardinality(ColumnsOfField(plan, f)) <= 1
          /\ \A c \in DOMAIN h :
                 \/ \E r \in tabReviews : r.category = g /\ r.at = c
                 \/ \E f \in fields :
                       /\ c \in ColumnsOfField(plan, f)
                       /\ \/ Token[h[c]] \in TokensOf[f]
                          \/ \E w \in DOMAIN given.alias : Token[w] = Token[h[c]] /\ given.alias[w] = f
                 \/ c \in given.extra
                 \/ \A f \in fields : \A t \in TokensOf[f] : t # Token[h[c]] /\ <<Token[h[c]], t>> \notin Alike
        BY <2>2, <2>3
    <2> QED BY <2>4 DEF plan, h, given, fields
<1> QED BY <1>4, <1>5 DEF NothingIsDropped

(* For every worksheet, catalog and rule, and any number of revisions: a   *)
(* row is in one table or asked about, a field takes one column, and a     *)
(* column of a known name is taken, asked about or kept by a person        *)
(* (map_product_headers, resolve_categories, _category_review).            *)
THEOREM RowsAndColumnsAreKept == TabSpec => []NothingIsDropped
BY TableInvariant, NothingDroppedNow, PTL

-----------------------------------------------------------------------------
(* With no review every row has a category, and what a cell or a pair of   *)
(* cells may do wrong is an issue of that kind.                            *)
LEMMA CompletedSettledNow == TableIInv => CompletedIsSettled
<1> SUFFICES ASSUME TableIInv, tabStep = "completed" PROVE CompletedIsSettled
    BY DEF CompletedIsSettled
<1> DEFINE Of(n, f) == CellOf(tabSupply.rows[n], tabPlans[tabRows[n].category], f)
<1>1. /\ tabSupply \in Supplies /\ GoodAnswers(tabAnswers)
      /\ tabRows = FittingRows(tabSupply, tabAnswers, tabFixed)
      /\ tabReviews = FittingReviews(tabRows, tabPlans) /\ tabReviews = {}
      /\ \A i \in FittingIssues(tabSupply, tabRows, tabPlans) : i.kind \notin Blocking
      /\ tabIssues = FittingIssues(tabSupply, tabRows, tabPlans) \cup RecordIssues(tabSupply, tabRows, tabPlans)
    BY DEF TableIInv, SupplyRule, AnswersRule, ResultRule, PlannedSteps
<1>2. GoodRows(tabSupply, tabRows)
    BY <1>1, RowsFit
<1>3. \A n \in DOMAIN tabRows : tabRows[n].category # NoCategory
    BY <1>1 DEF FittingReviews, RowReviews, RowsOf
<1>4. ASSUME NEW n \in DOMAIN tabSupply.rows
      PROVE  LET id == CellOf(tabSupply.rows[n], tabFixed, IdField) g == tabRows[n].category IN
             \/ n \in DOMAIN tabAnswers.over
             \/ /\ g \in Categories /\ id \in {Absent, g}
                /\ Owners(CellOf(tabSupply.rows[n], tabFixed, NameField)) \subseteq {g}
    <2> DEFINE id   == CellOf(tabSupply.rows[n], tabFixed, IdField)
               name == CellOf(tabSupply.rows[n], tabFixed, NameField)
    <2>1. n \in DOMAIN tabRows /\ tabRows[n].category \in Categories
        BY <1>2, <1>3 DEF GoodRows
    <2>2. CASE n \notin DOMAIN tabAnswers.over
        <3>1. tabRows[n] = Resolution(id, name)
            BY <1>1, <2>2 DEF FittingRows
        <3> HIDE DEF id, name
        <3>2. id \in {Absent, tabRows[n].category} /\ Owners(name) \subseteq {tabRows[n].category}
            BY <1>3, <2>1, <3>1, ResolutionFits
        <3> QED BY <2>1, <3>2 DEF id, name
    <2> QED BY <2>2
<1>5. ASSUME NEW x \in TableCells(tabRows)
      PROVE  /\ x = <<x[1], x[2]>> /\ x[1] \in Placed(tabRows)
             /\ \A k \in CellIssueKinds(Of(x[1], x[2]), x[2]) :
                   Issue(k, x[1], tabRows[x[1]].category, x[2]) \in FittingIssues(tabSupply, tabRows, tabPlans)
    <2>1. x = <<x[1], x[2]>> /\ x[1] \in Placed(tabRows)
        BY DEF TableCells
    <2>2. ASSUME NEW k \in CellIssueKinds(Of(x[1], x[2]), x[2])
          PROVE  Issue(k, x[1], tabRows[x[1]].category, x[2]) \in FittingIssues(tabSupply, tabRows, tabPlans)
        <3> DEFINE ofCell(z) == {Issue(j, z[1], tabRows[z[1]].category, z[2]) :
                                   j \in CellIssueKinds(Of(z[1], z[2]), z[2])}
        <3>1. Issue(k, x[1], tabRows[x[1]].category, x[2]) \in ofCell(x)
            OBVIOUS
        <3>2. CellIssues(tabSupply, tabRows, tabPlans) = UNION {ofCell(z) : z \in TableCells(tabRows)}
            BY DEF CellIssues
        <3> HIDE DEF ofCell
        <3> QED BY <3>1, <3>2 DEF FittingIssues
    <2> QED BY <2>1, <2>2
<1>6. \A k, n, g, f : Issue(k, n, g, f).kind = k
    BY DEF Issue
<1>7. ASSUME NEW x \in TableCells(tabRows), Of(x[1], x[2]) \in Unsafe PROVE x[2] \in Specifications
    <2> DEFINE v == Of(x[1], x[2])
    <2>1. v # Absent /\ v \notin Unreadable
        BY <1>7, ProductTablesAssumption
    <2> HIDE DEF v
    <2>2. SUFFICES ASSUME x[2] \notin Specifications PROVE FALSE
        OBVIOUS
    <2>3. v \in Unsafe
        BY <1>7 DEF v
    <2>4. "excel_write_unsafe" \in CellIssueKinds(v, x[2])
        BY <2>1, <2>2, <2>3 DEF CellIssueKinds
    <2> QED BY <1>1, <1>5, <1>6, <2>4 DEF Blocking, v
<1>8. ASSUME NEW n \in Placed(tabRows) PROVE ~(Combinations(tabSupply, tabRows, tabPlans, n) > MaxSku)
    <2>1. SUFFICES ASSUME Combinations(tabSupply, tabRows, tabPlans, n) > MaxSku PROVE FALSE
        OBVIOUS
    <2>2. Issue("sku_combination_limit", n, tabRows[n].category, KeyField) \in FittingIssues(tabSupply, tabRows, tabPlans)
        BY <2>1 DEF FittingIssues, SkuIssues
    <2> QED BY <1>1, <1>6, <2>2 DEF Blocking
<1>9. ASSUME tabIssues = {}, NEW x \in TableCells(tabRows), NEW y \in TableCells(tabRows)
      PROVE  /\ x[2] \in Required => Of(x[1], x[2]) # Absent
             /\ Of(x[1], x[2]) \notin Unreadable
             /\ (/\ x # y /\ x[2] = y[2] /\ x[2] \in Unique \cup {KeyField}
                 /\ x[2] \in FixedFields \/ tabRows[x[1]].category = tabRows[y[1]].category)
                => Of(x[1], x[2]) # Of(y[1], y[2]) \/ Of(x[1], x[2]) = Absent
    <2> HIDE DEF Of
    <2>1. \A z \in TableCells(tabRows) : CellIssueKinds(Of(z[1], z[2]), z[2]) = {}
        BY <1>1, <1>5, <1>9
    <2>2. x[2] \in Required => Of(x[1], x[2]) # Absent
        BY <2>1 DEF CellIssueKinds
    <2>3. \A z \in TableCells(tabRows) : Of(z[1], z[2]) \notin Unreadable
        <3>1. \A z \in TableCells(tabRows) : Of(z[1], z[2]) \in Unreadable => Of(z[1], z[2]) # Absent
            BY ProductTablesAssumption
        <3> QED BY <2>1, <3>1 DEF CellIssueKinds
    <2>4. ASSUME x # y, x[2] = y[2], x[2] \in Unique \cup {KeyField},
                 x[2] \in FixedFields \/ tabRows[x[1]].category = tabRows[y[1]].category,
                 Of(x[1], x[2]) = Of(y[1], y[2]), Of(x[1], x[2]) # Absent
          PROVE  FALSE
        <3> DEFINE f == x[2]
                   n == x[1]
                   m == y[1]
        <3>1. x = <<n, f>> /\ y = <<m, f>> /\ n # m /\ n \in Placed(tabRows) /\ m \in Placed(tabRows)
            BY <1>5, <2>4
        <3> DEFINE valued == {z \in TableCells(tabRows) : Of(z[1], z[2]) \notin Unreadable \cup {Absent}}
        <3>2. x \in valued /\ y \in valued
            BY <2>3, <2>4
        <3>3. Peers(f, tabRows[n].category, tabRows[m].category)
            BY <2>4 DEF Peers
        <3>4. /\ m \in Placed(tabRows) \ {n} /\ Peers(f, tabRows[n].category, tabRows[m].category)
              /\ <<m, f>> \in valued /\ Of(m, f) = Of(n, f)
            BY <2>4, <3>1, <3>2, <3>3
        <3>5. x[2] \in Unique \cup {KeyField}
            BY <2>4
        <3> DEFINE Twin(k, u) == \E l \in Placed(tabRows) \ {k} :
                                   /\ Peers(u, tabRows[k].category, tabRows[l].category)
                                   /\ <<l, u>> \in valued /\ Of(l, u) = Of(k, u)
                   twins == {z \in valued : z[2] \in Unique \cup {KeyField} /\ Twin(z[1], z[2])}
                   listed == {Issue(IF z[2] = KeyField THEN "duplicate_primary_key" ELSE "unique_value",
                                    z[1], tabRows[z[1]].category, z[2]) : z \in twins}
        <3>6. Twin(n, f)
            BY <3>4
        <3>7. x \in twins
            BY <3>2, <3>5, <3>6
        <3>8. listed \subseteq RecordIssues(tabSupply, tabRows, tabPlans)
            BY DEF RecordIssues, Of
        <3> HIDE DEF twins
        <3>9. listed # {}
            BY <3>7
        <3> QED BY <1>1, <1>9, <3>8, <3>9
    <2> QED BY <2>2, <2>3, <2>4
<1> QED BY <1>4, <1>7, <1>8, <1>9 DEF CompletedIsSettled

(* For every worksheet, catalog and rule: a run that is completed without  *)
(* a review has no conflict of id and name, nothing that Excel cannot      *)
(* hold, and what it does not list as an issue is not one (normalize,      *)
(* _record_quality_issues).                                                *)
THEOREM CompletedTablesAreSettled == TabSpec => []CompletedIsSettled
BY TableInvariant, CompletedSettledNow, PTL

-----------------------------------------------------------------------------
(* A column that was kept as it is, or mapped, is that in the next run.    *)
LEMMA KeptIsUnmapped ==
    ASSUME NEW h, NEW fields, IsFiniteSet(fields), NEW given, GoodAlias(given, fields),
           NEW c \in given.extra, NEW x, x = MapHeader(h, fields, given, c)
    PROVE  x.status = "unmapped"
<1>1. Claimants(h, fields, given, c) = {} /\ Suggested(h, fields, given, c) = {}
    BY DEF Claimants, Suggested
<1>2. Cardinality(Claimants(h, fields, given, c)) # 1
    BY <1>1, FS_EmptySet
<1> QED BY <1>1, <1>2, HeaderCases

LEMMA ClaimedIsTaken ==
    ASSUME NEW h, NEW fields, NEW given, NEW c, Cardinality(Claimants(h, fields, given, c)) = 1
    PROVE  /\ MapHeader(h, fields, given, c).fields = Claimants(h, fields, given, c)
           /\ MapHeader(h, fields, given, c).status \in {"accepted", "duplicate_header"}
<1>1. MapHeader(h, fields, given, c) =
        [status |-> IF Earlier(h, fields, given, c) THEN "duplicate_header" ELSE "accepted",
         fields |-> Claimants(h, fields, given, c)]
    BY DEF MapHeader
<1> QED BY <1>1

LEMMA KeptFit ==
    ASSUME NEW h, NEW decided, NEW g \in Categories
    PROVE  AnswersOf(h, decided).given[g].extra = {r.at : r \in KeptExtra(decided, g)}
BY DEF AnswersOf

(* One decision on a header is followed, if no other is on the same one.   *)
LEMMA MappedIsTaken ==
    ASSUME NEW supply \in Supplies, NEW plans, NEW reviews, ReviewsFit(supply, plans, reviews),
           NEW decided \in Decisions(reviews), NEW g \in Categories, NEW r \in MappedIn(decided, g),
           \A s \in MappedIn(decided, g) :
              Token[supply.headers[s.at]] = Token[supply.headers[r.at]] => decided[s] = decided[r],
           NEW fields
    PROVE  Claimants(supply.headers, fields, AnswersOf(supply.headers, decided).given[g], r.at) = {decided[r]}
<1> DEFINE h     == supply.headers
           given == AnswersOf(supply.headers, decided).given[g]
           named == {w \in DOMAIN given.alias : Token[w] = Token[h[r.at]]}
           told  == {given.alias[w] : w \in named}
<1>1. r \in reviews /\ r.category = g /\ decided[r] # "keep_extra" /\ DOMAIN decided = reviews
    BY DEF MappedIn, Decisions
<1>2. r.at \notin given.extra
    <2>1. SUFFICES ASSUME NEW s \in KeptExtra(decided, g), s.at = r.at PROVE FALSE
        BY KeptFit
    <2>2. s \in reviews /\ s.category = g /\ decided[s] = "keep_extra"
        BY <1>1, <2>1 DEF KeptExtra
    <2>3. s = r
        BY <1>1, <2>1, <2>2 DEF ReviewsFit
    <2> QED BY <1>1, <2>2, <2>3
<1>3. h[r.at] \in DOMAIN given.alias
    BY DEF AnswersOf
<1>4. ASSUME NEW w \in named PROVE given.alias[w] = decided[r]
    <2>1. PICK s \in MappedIn(decided, g) : h[s.at] = w /\ given.alias[w] = decided[s]
        BY MappedFit
    <2>2. Token[h[s.at]] = Token[h[r.at]]
        BY <2>1
    <2> QED BY <2>1, <2>2
<1> HIDE DEF given, h
<1>5. told = {decided[r]}
    BY <1>3, <1>4
<1>6. Claimants(h, fields, given, r.at) = {decided[r]}
    BY <1>2, <1>5 DEF Claimants
<1> QED BY <1>6 DEF h, given

(* The fields a header is the name of. *)
ByName(h, fields, c) == {f \in fields : Token[h[c]] \in TokensOf[f]}

(* The fields a column that was accepted claims are those it is the name of. *)
NamedAreTaken(h, plans, decided) ==
    \A g \in DOMAIN plans, c \in DOMAIN h : plans[g][c].status = "accepted" =>
        \A fields : Claimants(h, fields, AnswersOf(h, decided).given[g], c) = ByName(h, fields, c)

(* A column that has its field by its name is not told about.              *)
LEMMA NamedIsTaken ==
    ASSUME NEW supply \in Supplies, NEW plans, NEW reviews, ReviewsFit(supply, plans, reviews),
           SpelledAlike(supply.headers, plans), NEW decided \in Decisions(reviews)
    PROVE  NamedAreTaken(supply.headers, plans, decided)
<1> SUFFICES ASSUME NEW g \in DOMAIN plans, NEW c \in DOMAIN supply.headers,
                    plans[g][c].status = "accepted", NEW fields
             PROVE  Claimants(supply.headers, fields, AnswersOf(supply.headers, decided).given[g], c)
                      = ByName(supply.headers, fields, c)
    BY DEF NamedAreTaken
<1> DEFINE h     == supply.headers
           given == AnswersOf(supply.headers, decided).given[g]
           told  == {given.alias[w] : w \in {w \in DOMAIN given.alias : Token[w] = Token[h[c]]}}
<1>1. g \in Categories /\ DOMAIN decided = reviews
    BY DEF ReviewsFit, Decisions
<1>2. \A r \in reviews : r.category = g => /\ r.kind = plans[g][r.at].status /\ r.at \in DOMAIN h
                                           /\ r.kind # "accepted"
    BY <1>1, NoCategoryIsNone DEF ReviewsFit
<1>3. c \notin given.extra
    <2>1. SUFFICES ASSUME NEW s \in KeptExtra(decided, g), s.at = c PROVE FALSE
        BY <1>1, KeptFit
    <2>2. s \in reviews /\ s.category = g
        BY <1>1 DEF KeptExtra
    <2> QED BY <1>2, <2>1, <2>2
<1>4. ASSUME NEW w \in DOMAIN given.alias PROVE Token[w] # Token[h[c]]
    <2>1. PICK s \in MappedIn(decided, g) : h[s.at] = w
        BY <1>1, MappedFit
    <2>2. s \in reviews /\ s.category = g /\ s.kind = "field_mapping"
        BY <1>1 DEF MappedIn
    <2>3. plans[g][s.at].status = "field_mapping" /\ s.at \in DOMAIN h
        BY <1>2, <2>2
    <2> QED BY <2>1, <2>3 DEF SpelledAlike
<1> HIDE DEF given, h
<1>5. told = {}
    BY <1>4
<1>6. Claimants(h, fields, given, c) = ByName(h, fields, c)
    BY <1>3, <1>5 DEF Claimants, ByName
<1> QED BY <1>6 DEF h, given

(* The body of AnswersAreFollowed.                                         *)
Followed ==
    tabStep = "fetched" /\ tabStep' = "planned" /\ tabRun > 1 =>
       /\ \A r \in tabReviews :
            LET plan == tabPlans'[r.category] d == tabDecided[r] IN
            IF r.kind = "category" THEN tabRows[r.at].category = d
            ELSE r.category \in DOMAIN tabPlans' =>
                   IF d = "keep_extra" THEN plan[r.at].status = "unmapped"
                   ELSE Undisputed(r, tabDecided) =>
                          plan[r.at].fields = {d} /\ plan[r.at].status \in {"accepted", "duplicate_header"}
       /\ \A g \in DOMAIN tabPlans \cap DOMAIN tabPlans', c \in DOMAIN tabSupply.headers :
            (/\ tabPlans[g][c].status = "accepted"
             /\ tabPlans[g][c].fields = {f \in TableFields(g) : Token[tabSupply.headers[c]] \in TokensOf[f]}) =>
               /\ tabPlans'[g][c].fields = tabPlans[g][c].fields
               /\ tabPlans'[g][c].status \in {"accepted", "duplicate_header"}

LEMMA FollowedStep == TableIInv /\ [TabNext]_tabVars => [Followed]_tabVars
<1> SUFFICES ASSUME TableIInv, TabNext, tabStep = "fetched", tabStep' = "planned", tabRun > 1
             PROVE  Followed
    BY DEF Followed
<1>1. PlanTables
    BY DEF TabNext, MapFixed, ResolveCategories, FetchSchemas, FillTables, CheckRecords, Decide, Reject, Revise
<1> DEFINE h == tabSupply.headers
           a == tabAnswers
<1>2. /\ tabSupply \in Supplies /\ GoodAnswers(a) /\ tabDecided \in Decisions(tabReviews)
      /\ a = AnswersOf(h, tabDecided)
      /\ tabRows = FittingRows(tabSupply, a, tabFixed)
      /\ ReviewsFit(tabSupply, tabPlans, tabReviews) /\ SpelledAlike(h, tabPlans)
    BY DEF TableIInv, SupplyRule, AnswersRule, DecidedRule, ResultRule, ReviewRule, SpellingRule, EarlySteps
<1>3. tabPlans' = FittingPlans(tabSupply, a, tabRows)
    BY <1>1 DEF PlanTables, FittingPlans
<1>4. GoodRows(tabSupply, tabRows)
    BY <1>2, RowsFit
<1>5. DOMAIN tabDecided = tabReviews
    BY <1>2 DEF Decisions
<1>6. ASSUME NEW g \in DOMAIN tabPlans', NEW c \in DOMAIN h
      PROVE  /\ g \in Categories /\ IsFiniteSet(TableFields(g)) /\ GoodAlias(a.given[g], TableFields(g))
             /\ tabPlans'[g][c] = MapHeader(h, TableFields(g), a.given[g], c)
    BY <1>2, <1>3, <1>4, PlansFit
<1>7. ASSUME NEW r \in tabReviews, r.kind = "category"
      PROVE  tabRows[r.at].category = tabDecided[r]
    <2>1. r \in RowVerdicts(tabDecided)
        BY <1>5, <1>7 DEF RowVerdicts
    <2>2. r.at \in DOMAIN a.over /\ a.over[r.at] = tabDecided[r]
        BY <1>2, <2>1, OverFits
    <2>3. r.at \in DOMAIN tabSupply.rows
        BY <1>2, <1>7 DEF ReviewsFit
    <2>4. tabRows[r.at] = Settled(tabDecided[r])
        BY <1>2, <2>2, <2>3 DEF FittingRows
    <2> QED BY <2>4 DEF Settled
<1>8. ASSUME NEW r \in tabReviews, r.kind # "category", r.category \in DOMAIN tabPlans'
      PROVE  IF tabDecided[r] = "keep_extra" THEN tabPlans'[r.category][r.at].status = "unmapped"
             ELSE Undisputed(r, tabDecided) =>
                    /\ tabPlans'[r.category][r.at].fields = {tabDecided[r]}
                    /\ tabPlans'[r.category][r.at].status \in {"accepted", "duplicate_header"}
    <2> DEFINE g == r.category
               c == r.at
    <2>1. c \in DOMAIN h
        BY <1>2, <1>8 DEF ReviewsFit
    <2>2. /\ g \in Categories /\ IsFiniteSet(TableFields(g)) /\ GoodAlias(a.given[g], TableFields(g))
          /\ tabPlans'[g][c] = MapHeader(h, TableFields(g), a.given[g], c)
        BY <1>6, <1>8, <2>1
    <2>3. CASE tabDecided[r] = "keep_extra"
        <3>1. r \in KeptExtra(tabDecided, g)
            BY <1>5, <2>3 DEF KeptExtra
        <3>2. AnswersOf(h, tabDecided).given[g].extra = {s.at : s \in KeptExtra(tabDecided, g)}
            BY <2>2, KeptFit
        <3>3. c \in a.given[g].extra
            BY <1>2, <3>1, <3>2
        <3> HIDE DEF g, c, h, a
        <3>4. tabPlans'[g][c].status = "unmapped"
            BY <2>2, <3>3, KeptIsUnmapped
        <3> QED BY <2>3, <3>4 DEF g, c
    <2>4. CASE tabDecided[r] # "keep_extra" /\ Undisputed(r, tabDecided)
        <3>1. r \in MappedIn(tabDecided, g)
            BY <1>2, <1>5, <1>8, <2>4, DecisionFits DEF MappedIn
        <3>2. \A s \in MappedIn(tabDecided, g) : Token[h[s.at]] = Token[h[r.at]] => tabDecided[s] = tabDecided[r]
            BY <2>4 DEF MappedIn, Undisputed
        <3> DEFINE F == TableFields(g)
        <3> HIDE DEF F
        <3>3. \A k : Claimants(h, k, AnswersOf(h, tabDecided).given[g], c) = {tabDecided[r]}
            BY <1>2, <2>2, <3>1, <3>2, MappedIsTaken, SMTT(30)
        <3>4. Claimants(h, F, a.given[g], c) = {tabDecided[r]} /\ tabPlans'[g][c] = MapHeader(h, F, a.given[g], c)
            BY <1>2, <2>2, <3>3 DEF F
        <3> HIDE DEF g, c, h, a
        <3>5. Cardinality(Claimants(h, F, a.given[g], c)) = 1
            BY <3>4, FS_Singleton
        <3>6. tabPlans'[g][c].fields = {tabDecided[r]} /\ tabPlans'[g][c].status \in {"accepted", "duplicate_header"}
            BY <3>4, <3>5, ClaimedIsTaken
        <3> QED BY <2>4, <3>6 DEF g, c
    <2> QED BY <2>3, <2>4
<1>9. NamedAreTaken(h, tabPlans, tabDecided)
    BY <1>2, NamedIsTaken
<1>10. ASSUME NEW g \in DOMAIN tabPlans, g \in DOMAIN tabPlans', NEW c \in DOMAIN h,
             tabPlans[g][c].status = "accepted",
             tabPlans[g][c].fields = {f \in TableFields(g) : Token[h[c]] \in TokensOf[f]}
      PROVE  /\ tabPlans'[g][c].fields = tabPlans[g][c].fields
             /\ tabPlans'[g][c].status \in {"accepted", "duplicate_header"}
    <2>1. PICK f : tabPlans[g][c].fields = {f}
        BY <1>2, <1>10 DEF SpelledAlike
    <2> DEFINE F == TableFields(g)
    <2>2. ByName(h, F, c) = {f}
        BY <1>10, <2>1 DEF ByName
    <2>3. tabPlans'[g][c] = MapHeader(h, F, a.given[g], c)
        BY <1>6, <1>10
    <2> HIDE DEF F
    <2>4. Claimants(h, F, AnswersOf(h, tabDecided).given[g], c) = ByName(h, F, c)
        BY <1>10, <1>9 DEF NamedAreTaken
    <2>5. Claimants(h, F, a.given[g], c) = {f}
        BY <1>2, <2>2, <2>4
    <2> HIDE DEF h, a
    <2>6. Cardinality(Claimants(h, F, a.given[g], c)) = 1
        BY <2>5, FS_Singleton
    <2>7. tabPlans'[g][c].fields = {f} /\ tabPlans'[g][c].status \in {"accepted", "duplicate_header"}
        BY <2>3, <2>5, <2>6, ClaimedIsTaken
    <2> QED BY <2>1, <2>7
<1> QED BY <1>7, <1>8, <1>10 DEF Followed

(* For any sequence of revisions and decisions: each revision does with a  *)
(* row and a column what was decided of it, and leaves those alone that    *)
(* nobody decided on (rerun_after_reviews, map_product_headers).           *)
THEOREM RevisionsFollowAnswers == TabSpec => AnswersAreFollowed
<1>1. TableIInv /\ [TabNext]_tabVars => [Followed]_tabVars
    BY FollowedStep
<1>2. [][Followed]_tabVars => AnswersAreFollowed
    BY DEF Followed, AnswersAreFollowed
<1> QED BY <1>1, <1>2, TableInvariant, PTL DEF TabSpec

=============================================================================
