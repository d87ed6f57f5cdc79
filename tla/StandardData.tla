---------------------------- MODULE StandardData ----------------------------
(***************************************************************************)
(* The standard records of one comparison, on their way from an upload or  *)
(* from a managed HTTP source to the comparison.  They are loaded or       *)
(* fetched page by page, their fields are given the names of the columns,  *)
(* they are validated, written to a snapshot with its digest, and read     *)
(* back: only what was read back is compared.                              *)
(*                                                                         *)
(* A row as supplied is a sequence of fields, [key, value]; a row of the   *)
(* comparison is a function from columns to the values as supplied.  That  *)
(* long tables are spilled to a file of their own changes no row and is    *)
(* left out; so is the number of bytes: any answer may be one too long.    *)
(***************************************************************************)
EXTENDS Integers, Sequences, FiniteSets, FiniteSetsExt

CONSTANTS
    Supplies,       \* what a run can be given, see Supply below
    RawRows,        \* the rows that can be in it: sequences of fields
    Values,         \* what a field can hold
    SheetKeys,      \* the keys of its parts
    Sheets,         \* the sheets of the rules
    ColumnsOf,      \* sheet -> its columns, the row number field among them
    KeyColumns,     \* sheet -> its primary key, a set of columns
    KeyAction,      \* sheet -> "report_invalid", "skip_row", "use_row_number"
    NeededSheets,   \* the sheets that must be supplied
    UploadKeys,     \* sheet -> the keys an upload knows it by: id and name
    SourceKeys,     \* sheet -> those of a fetched workbook, aliases as well
    HeaderOf,       \* raw field name -> the same as a normalized header
    Rank,           \* column -> header -> its place among name, title, aliases, 0: none
    Meaning,        \* column -> value -> what it means, Empty or Invalid
    Needed,         \* the columns that must have a value
    Unique,         \* the columns whose values must differ
    Single,         \* row number fields: two representations always conflict
    CrossRules,     \* sheet -> what two of its columns must not mean together
    PageSize, MaxPages, MaxRecords, MaxStandard,
    NoName,         \* the key of the surplus values of a CSV line
    Empty, Invalid

NoRows == [none |-> <<>>]

(* how it is given; the sheets of the rules; the parts with a key each; the *)
(* requests for a page, 3 with GET and 1 with POST; the rows of a full page, *)
(* as the source cuts them; and whether the source tells their number.      *)
Supply == [how   : {"csv", "list", "object", "paged", "whole", "book"},
           sheets : SUBSET Sheets,
           parts : Seq([key : SheetKeys, rows : Seq(RawRows)]),
           tries : 1 .. 3, cap : Nat \ {0}, total : BOOLEAN]

Uploads == {"csv", "list", "object"}
Several == {"object", "book"}           \* more than one sheet in one document

ASSUME StandardDataAssumption ==
    /\ PageSize \in Nat \ {0} /\ MaxPages \in Nat \ {0}
    /\ MaxRecords \in Nat /\ MaxStandard \in Nat
    /\ \A s \in Sheets : KeyColumns[s] \subseteq ColumnsOf[s] /\ UploadKeys[s] \subseteq SourceKeys[s]
    /\ \A s, t \in Sheets : s # t => SourceKeys[s] \cap SourceKeys[t] = {}
    /\ Supplies \subseteq Supply
    /\ \A g \in Supplies : g.how \notin Several => Len(g.parts) = 1
    /\ \A c \in DOMAIN Rank : \A h \in DOMAIN Rank[c] : Rank[c][h] \in Nat
    /\ \A s \in Sheets : ColumnsOf[s] \subseteq DOMAIN Rank
    /\ \A row \in RawRows : row \in Seq([key : DOMAIN HeaderOf \cup {NoName}, value : Values])
    /\ \A n \in DOMAIN HeaderOf : \A c \in DOMAIN Rank : HeaderOf[n] \in DOMAIN Rank[c]
    /\ Empty # Invalid

VARIABLES
    stSupply,    \* what the run was given
    stStep,      \* what the run does next
    stHeld,      \* the rows the source has now, when they are fetched by pages
    stPage,      \* the page asked for
    stTry,       \* the requests for it that failed
    stGot,       \* the parts loaded or fetched so far
    stData,      \* sheet -> rows named by column
    stFile,      \* the snapshot file: sheet -> the rows with a line in it
    stDigest,    \* what the digest was computed of
    stRead,      \* what was read back
    stObject,    \* the snapshot in the artifact store
    stRow,       \* the digest in the row of the snapshot
    stSteady     \* history: the source stayed as it was while it was read

stVars == <<stSupply, stStep, stHeld, stPage, stTry, stGot, stData, stFile,
            stDigest, stRead, stObject, stRow, stSteady>>

-----------------------------------------------------------------------------
(* One row: the fields that are named as a column, in the order of its     *)
(* names and then of the row; the first one gives the value.               *)

Matched(c, row) ==
    {i \in DOMAIN row : row[i].key # NoName /\ Rank[c][HeaderOf[row[i].key]] # 0}

RankIn(c, row, i) == Rank[c][HeaderOf[row[i].key]]

First(c, row) ==
    CHOOSE i \in Matched(c, row) : \A j \in Matched(c, row) :
        \/ RankIn(c, row, i) < RankIn(c, row, j)
        \/ RankIn(c, row, i) = RankIn(c, row, j) /\ i <= j

(* parse_value of both: two values nothing can be made of must be the same. *)
SameMeaning(c, v, w) ==
    /\ Meaning[c][v] = Meaning[c][w]
    /\ Meaning[c][v] = Invalid => v = w

(* Slip: whichever alias comes first is taken. *)
SlipConflict(s, row) == FALSE

Conflict(s, row) ==
    \E c \in ColumnsOf[s] : \E i, j \in Matched(c, row) :
        i # j /\ (c \in Single \/ ~SameMeaning(c, row[i].value, row[j].value))

Nameless(row) == \E i \in DOMAIN row : row[i].key = NoName

Repeats(row) == \E i, j \in DOMAIN row : i # j /\ row[i].key = row[j].key

CanonicalRow(s, row) ==
    [c \in {d \in ColumnsOf[s] : Matched(d, row) # {}} |-> row[First(c, row)].value]

-----------------------------------------------------------------------------
(* The parts of a document and their sheets.                               *)

KeysOf(how) == IF how \in Uploads THEN UploadKeys ELSE SourceKeys

Owners(g, key) == IF g.how \in Several THEN {s \in g.sheets : key \in KeysOf(g.how)[s]}
                  ELSE g.sheets

SheetOf(g, key) == CHOOSE s \in Owners(g, key) : TRUE

Named(g, parts) == {SheetOf(g, parts[p].key) : p \in DOMAIN parts}

RowsIn(parts) == MapThenSumSet(LAMBDA p : Len(parts[p].rows), DOMAIN parts)

(* A list or a CSV is for one sheet; every key is that of one sheet, and   *)
(* no sheet is there twice.  (An unknown key of a fetched workbook is      *)
(* refused only by the validation, which comes next.)                      *)
SheetsRefused(g, parts) ==
    \/ g.how \notin Several /\ Cardinality(g.sheets) # 1
    \/ \E p \in DOMAIN parts : Owners(g, parts[p].key) = {}
    \/ \E p, q \in DOMAIN parts :
          p # q /\ SheetOf(g, parts[p].key) = SheetOf(g, parts[q].key)

RowsUnfit(g, parts) ==
    \E p \in DOMAIN parts : \E i \in DOMAIN parts[p].rows :
        LET row == parts[p].rows[i]
        IN  Repeats(row) \/ Nameless(row) \/ Conflict(SheetOf(g, parts[p].key), row)

PartOf(g, parts, s) == CHOOSE p \in DOMAIN parts : SheetOf(g, parts[p].key) = s

Canonical(g, parts) ==
    [s \in Named(g, parts) |->
        LET rows == parts[PartOf(g, parts, s)].rows
        IN  [i \in DOMAIN rows |-> CanonicalRow(s, rows[i])]]

-----------------------------------------------------------------------------
(* The validation of the named rows.                                       *)

Said(c, row) == IF c \in DOMAIN row THEN Meaning[c][row[c]] ELSE Empty

KeyEmpty(s, row) == \E c \in KeyColumns[s] : Said(c, row) \in {Empty, Invalid}

Skipped(s, row) == KeyAction[s] = "skip_row" /\ KeyEmpty(s, row)

Typed(s, row) ==
    \A c \in ColumnsOf[s] :
        /\ Said(c, row) # Invalid
        /\ Said(c, row) = Empty => \/ c \notin Needed
                                   \/ c \in KeyColumns[s] /\ KeyAction[s] = "use_row_number"

Crossed(s, row) ==
    \A r \in CrossRules[s] : Said(r.when, row) = r.means => Said(r.then, row) # r.refused

KeyIn(s, row) == [c \in KeyColumns[s] |-> Said(c, row)]

(* Slip: uniqueness is looked at within a chunk of two rows. *)
SlipDistinct(s, rows) ==
    \A i, j \in DOMAIN rows :
        (i + 1) \div 2 = (j + 1) \div 2 /\ i # j /\ ~KeyEmpty(s, rows[i])
        => KeyIn(s, rows[i]) # KeyIn(s, rows[j])

Distinct(s, rows) ==
    /\ \A i, j \in DOMAIN rows :
          i # j /\ ~KeyEmpty(s, rows[i]) /\ ~KeyEmpty(s, rows[j])
          => KeyIn(s, rows[i]) # KeyIn(s, rows[j])
    /\ \A c \in ColumnsOf[s] \cap Unique : \A i, j \in DOMAIN rows :
          i # j /\ ~Skipped(s, rows[i]) /\ ~Skipped(s, rows[j]) /\ Said(c, rows[i]) # Empty
          => Said(c, rows[i]) # Said(c, rows[j])

Accepted(g, parts, data) ==
    /\ RowsIn(parts) <= MaxStandard
    /\ NeededSheets \cap g.sheets \subseteq DOMAIN data
    /\ \A s \in DOMAIN data :
          /\ Distinct(s, data[s])
          /\ \A i \in DOMAIN data[s] :
                LET row == data[s][i]
                IN  /\ Skipped(s, row) \/ (Typed(s, row) /\ Crossed(s, row))
                    /\ KeyAction[s] = "report_invalid" => ~KeyEmpty(s, row)

-----------------------------------------------------------------------------
(* The run.                                                                *)

Stop(why) == stStep' = why /\ UNCHANGED <<stSupply, stHeld, stPage, stTry, stGot, stData,
                                          stFile, stDigest, stRead, stObject, stRow, stSteady>>

(* load_standard_file; a document that cannot be read is refused. *)
LoadUpload ==
    /\ stStep = "load"
    /\ LET parts == stSupply.parts
       IN  IF \/ SheetsRefused(stSupply, parts) \/ RowsUnfit(stSupply, parts)
              \/ RowsIn(parts) > MaxStandard
           THEN Stop("failed")
           ELSE /\ stGot' = parts
                /\ stData' = Canonical(stSupply, parts)
                /\ stStep' = "validate"
                /\ UNCHANGED <<stSupply, stHeld, stPage, stTry, stFile, stDigest, stRead,
                               stObject, stRow, stSteady>>

(* _request: no answer, or one that says to try again. *)
LoseRequest ==
    /\ stStep = "fetch"
    /\ IF stTry + 1 < stSupply.tries
       THEN /\ stTry' = stTry + 1
            /\ UNCHANGED <<stSupply, stStep, stHeld, stPage, stGot, stData, stFile,
                           stDigest, stRead, stObject, stRow, stSteady>>
       ELSE Stop("failed")

(* Any other error status, no JSON, no array of objects, or too long. *)
RefuseRequest == stStep = "fetch" /\ Stop("failed")

Lesser(a, b) == IF a < b THEN a ELSE b

(* Page n as the source cuts it. *)
PageAt(n) == SubSeq(stHeld, (n - 1) * stSupply.cap + 1, Lesser(n * stSupply.cap, Len(stHeld)))

Gathered == IF stGot = <<>> THEN <<>> ELSE stGot[1].rows

(* Slip: an exactly full page is taken for the last one. *)
SlipIsLast(page, rows) == \/ stSupply.total /\ Len(rows) >= Len(stHeld)
                          \/ Len(page) <= PageSize

IsLast(page, rows) == \/ stSupply.total /\ Len(rows) >= Len(stHeld)
                      \/ Len(page) < PageSize

ReceivePage ==
    /\ stStep = "fetch" /\ stSupply.how = "paged"
    /\ LET page == PageAt(stPage)
           rows == Gathered \o page
       IN  IF \/ Len(rows) > MaxRecords
              \/ ~IsLast(page, rows) /\ stPage + 1 > MaxPages
           THEN Stop("failed")
           ELSE /\ stGot' = <<[key |-> stSupply.parts[1].key, rows |-> rows]>>
                /\ IF IsLast(page, rows) THEN stStep' = "name" /\ UNCHANGED stPage
                   ELSE stPage' = stPage + 1 /\ UNCHANGED stStep
                /\ stTry' = 0
                /\ UNCHANGED <<stSupply, stHeld, stData, stFile, stDigest, stRead,
                               stObject, stRow, stSteady>>

(* One answer with all the rows, or with those of several sheets. *)
ReceiveWhole ==
    /\ stStep = "fetch" /\ stSupply.how \in {"whole", "book"}
    /\ IF RowsIn(stSupply.parts) > MaxRecords THEN Stop("failed")
       ELSE /\ stGot' = stSupply.parts
            /\ stStep' = "name"
            /\ UNCHANGED <<stSupply, stHeld, stPage, stTry, stData, stFile, stDigest,
                           stRead, stObject, stRow, stSteady>>

(* The source gains or loses a row between two requests. *)
ChangeSource ==
    /\ stStep = "fetch" /\ stSteady /\ stPage > 1
    /\ \E i \in DOMAIN stHeld :
          stHeld' \in {SubSeq(stHeld, 1, i - 1) \o SubSeq(stHeld, i + 1, Len(stHeld)),
                       SubSeq(stHeld, i, i) \o stHeld}
    /\ stSteady' = FALSE
    /\ UNCHANGED <<stSupply, stStep, stPage, stTry, stGot, stData, stFile, stDigest,
                   stRead, stObject, stRow>>

(* _canonicalize_standard, of what was fetched. *)
CanonicalizeStandard ==
    /\ stStep = "name"
    /\ IF SheetsRefused(stSupply, stGot) \/ RowsUnfit(stSupply, stGot)
       THEN Stop("failed")
       ELSE /\ stData' = Canonical(stSupply, stGot)
            /\ stStep' = "validate"
            /\ UNCHANGED <<stSupply, stHeld, stPage, stTry, stGot, stFile, stDigest,
                           stRead, stObject, stRow, stSteady>>

ValidateStandard ==
    /\ stStep = "validate"
    /\ IF Accepted(stSupply, stGot, stData) THEN Stop("write") ELSE Stop("failed")

(* create_snapshot: a sheet without rows leaves no line. *)
LinesOf(data) == [s \in {t \in DOMAIN data : data[t] # <<>>} |-> data[s]]

CreateSnapshot ==
    /\ stStep = "write"
    /\ stFile' = LinesOf(stData)
    /\ stDigest' = LinesOf(stData)
    /\ stStep' = "read"
    /\ UNCHANGED <<stSupply, stHeld, stPage, stTry, stGot, stData, stRead, stObject,
                   stRow, stSteady>>

(* The file loses its last line of a sheet, or has two lines changed over. *)
DamageFile ==
    /\ stStep \in {"read", "store"} /\ stFile = stDigest
    /\ \E s \in DOMAIN stFile : \E i \in DOMAIN stFile[s] :
          stFile' \in {[stFile EXCEPT ![s] = SubSeq(@, 1, i - 1)],
                       [stFile EXCEPT ![s][1] = stFile[s][i], ![s][i] = stFile[s][1]]}
    /\ UNCHANGED <<stSupply, stStep, stHeld, stPage, stTry, stGot, stData, stDigest,
                   stRead, stObject, stRow, stSteady>>

(* load_snapshot: the digest of what is read must be that of what was      *)
(* written.                                                                *)
LoadSnapshot ==
    /\ stStep = "read"
    /\ IF stFile # stDigest THEN Stop("failed")
       ELSE /\ stRead' = stFile
            /\ stStep' = "store"
            /\ UNCHANGED <<stSupply, stHeld, stPage, stTry, stGot, stData, stFile, stDigest,
                           stObject, stRow, stSteady>>

(* The object first, then the row that names it. *)
StoreSnapshot ==
    /\ stStep = "store"
    /\ stObject' = stFile
    /\ stStep' = "save"
    /\ UNCHANGED <<stSupply, stHeld, stPage, stTry, stGot, stData, stFile, stDigest,
                   stRead, stRow, stSteady>>

SaveSnapshot ==
    /\ stStep = "save"
    /\ stRow' = stDigest
    /\ stFile' = NoRows
    /\ stStep' = "compare"
    /\ UNCHANGED <<stSupply, stHeld, stPage, stTry, stGot, stData, stDigest, stRead,
                   stObject, stSteady>>

(* A cancel is seen, or a file, the store or the database fails. *)
StandardFails == stStep \in {"write", "read", "store", "save"} /\ Stop("failed")

StandardInit ==
    /\ stSupply \in Supplies
    /\ stStep = IF stSupply.how \in Uploads THEN "load" ELSE "fetch"
    /\ stHeld = IF stSupply.how = "paged" THEN stSupply.parts[1].rows ELSE <<>>
    /\ stPage = 1 /\ stTry = 0
    /\ stGot = <<>> /\ stData = NoRows
    /\ stFile = NoRows /\ stDigest = NoRows /\ stRead = NoRows
    /\ stObject = NoRows /\ stRow = NoRows
    /\ stSteady = TRUE

StandardNext ==
    \/ LoadUpload \/ LoseRequest \/ RefuseRequest \/ ReceivePage \/ ReceiveWhole
    \/ ChangeSource \/ CanonicalizeStandard \/ ValidateStandard \/ CreateSnapshot
    \/ DamageFile \/ LoadSnapshot \/ StoreSnapshot \/ SaveSnapshot \/ StandardFails

StandardSpec == StandardInit /\ [][StandardNext]_stVars

-----------------------------------------------------------------------------
(* Properties.                                                             *)

(* A source that stays as it is and cuts pages no shorter than it was      *)
(* asked for is fetched row for row, in its order: no retry takes a page   *)
(* twice, no exactly full page ends the loop, no last page is left out.    *)
FetchedAsHeld ==
    stStep \notin {"fetch", "failed"} /\ stSupply.how = "paged"
    /\ stSteady /\ stSupply.cap >= PageSize
    => Gathered = stSupply.parts[1].rows

(* What is compared is what was loaded or fetched, row by row, and what    *)
(* the digest in the database stands for, whatever became of the file in   *)
(* between; and each value means what every field of its row that is named *)
(* as its column says.                                                     *)
RowsAsSupplied ==
    stStep = "compare" =>
    /\ stRead = stRow
    /\ \A p \in DOMAIN stGot :
         LET s == SheetOf(stSupply, stGot[p].key)
             rows == stGot[p].rows
         IN  rows # <<>> =>
             /\ s \in DOMAIN stRead /\ DOMAIN stRead[s] = DOMAIN rows
             /\ \A i \in DOMAIN rows : \A c \in ColumnsOf[s] : \A f \in Matched(c, rows[i]) :
                   /\ c \in DOMAIN stRead[s][i]
                   /\ SameMeaning(c, rows[i][f].value, stRead[s][i][c])

(* A row that moved to the next page while the source changed is not       *)
(* compared twice: no two compared rows of a sheet have the same key.      *)
NoRecordTwice ==
    stStep = "compare" =>
    \A s \in DOMAIN stRead : \A i, j \in DOMAIN stRead[s] :
        i # j /\ ~KeyEmpty(s, stRead[s][i]) /\ ~KeyEmpty(s, stRead[s][j])
        => KeyIn(s, stRead[s][i]) # KeyIn(s, stRead[s][j])

(* The comparison is of the standards as they were supplied, each once.    *)
ComparedAsSupplied == RowsAsSupplied /\ NoRecordTwice

=============================================================================
