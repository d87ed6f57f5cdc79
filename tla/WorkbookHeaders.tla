---------------------------- MODULE WorkbookHeaders ----------------------------
(***************************************************************************)
(* How a rule finds its worksheet, its header row and its columns          *)
(* (SheetRule.validate_sheet, RuleSet.validate_unique_sheets,              *)
(* engine.compare_workbook, workbook.locate_header_row,                    *)
(* engine.map_headers), and where the manifest puts the columns that are   *)
(* missing (service._manifest), which the renderer inserts one by one      *)
(* (services/excel_renderer/Program.cs).                                   *)
(*                                                                         *)
(* An input b is a workbook and a rule:                                    *)
(*   fields, words   the columns of the rule in their order, and the       *)
(*                   normalised name, title and aliases of each, the title *)
(*                   first                                                 *)
(*   key, byRow      primary_key; primary_key_mode is "row_number"         *)
(*   insert, auto    missing columns are inserted; header.auto_detect      *)
(*   like            the field a word that is no header resembles enough   *)
(*   rows            the first rows of the worksheet, normalised           *)
(*   named, others   the names the rule and another rule of the set have   *)
(*   sheets          the worksheets of the workbook                        *)
(* A name is a pair <<what casefold leaves, how it is written>>.           *)
(***************************************************************************)
EXTENDS Integers, Sequences, FiniteSets

CONSTANTS
  Books,            \* the inputs
  NoField

(* The words of a rule are those of its columns, each of them there once;  *)
(* a worksheet has a row, and a field is not the number of a column.       *)
ASSUME WorkbookHeadersAssumption == \A b \in Books :
  /\ Len(b.fields) \in Nat /\ DOMAIN b.fields = 1 .. Len(b.fields)
  /\ DOMAIN b.words = {b.fields[n] : n \in DOMAIN b.fields}
  /\ \A m, n \in DOMAIN b.fields : b.fields[m] = b.fields[n] => m = n
  /\ NoField \notin DOMAIN b.words /\ DOMAIN b.words \cap Nat = {}
  /\ 1 \in DOMAIN b.rows
  /\ \A r \in DOMAIN b.rows : Len(b.rows[r]) \in Nat /\ DOMAIN b.rows[r] = 1 .. Len(b.rows[r])

VARIABLES
  hdrBook,          \* the input
  hdrStep,          \* how far the job is
  hdrRow,           \* resolved_header_row
  hdrMapped,        \* HeaderMapping of every physical column
  hdrPlan,          \* the insert_column operations not yet executed
  hdrGrid,          \* the physical columns: a number as read, or a new field
  hdrFinal          \* final_columns

hdrVars == <<hdrBook, hdrStep, hdrRow, hdrMapped, hdrPlan, hdrGrid, hdrFinal>>

Empty == "-"        \* a blank header

Words(b, f) == {b.words[f][n] : n \in DOMAIN b.words[f]}
Folded(names) == {n[1] : n \in names}

(* No word of the rule is two fields', no name of a worksheet two rules'.  *)
RuleAccepted(b) ==
  /\ \A f, g \in DOMAIN b.words : f # g => Words(b, f) \cap Words(b, g) = {}
  /\ Folded(b.named) \cap Folded(b.others) = {}
  /\ \A m, n \in b.named : m # n => m[1] # n[1]
  /\ b.byRow <=> b.key = {}

(* The worksheets a rule's names match. *)
Matching(b, names) == {n \in b.sheets : n[1] \in Folded(names)}

(* locate_header_row: the later of two fields with one word has it.        *)
FieldOf(b, w) ==
  LET owners == {n \in DOMAIN b.fields : w \in Words(b, b.fields[n])} IN
  IF owners = {} THEN NoField ELSE b.fields[CHOOSE n \in owners : \A o \in owners : o <= n]

Found(b, r) == {FieldOf(b, b.rows[r][c]) : c \in DOMAIN b.rows[r]} \ {NoField}
Candidates(b) == {r \in DOMAIN b.rows : IF b.byRow THEN Found(b, r) # {} ELSE b.key \subseteq Found(b, r)}
BestRows(b) == {r \in Candidates(b) : \A o \in Candidates(b) : Cardinality(Found(b, o)) <= Cardinality(Found(b, r))}

(* map_headers: the earlier of two fields with one word has it.            *)
ExactField(b, w) ==
  LET owners == {n \in DOMAIN b.fields : w \in Words(b, b.fields[n])} IN
  IF owners = {} THEN NoField ELSE b.fields[CHOOSE n \in owners : \A o \in owners : n <= o]

Doubled(row, w) == w # Empty /\ \E c, d \in DOMAIN row : c # d /\ row[c] = w /\ row[d] = w

FirstMapping(b, row, c) ==
  LET w == row[c] exact == ExactField(b, w) IN
  CASE Doubled(row, w) -> [status |-> "duplicate", field |-> NoField]
    [] ~Doubled(row, w) /\ exact # NoField -> [status |-> "matched", field |-> exact]
    [] ~Doubled(row, w) /\ exact = NoField /\ w \in DOMAIN b.like -> [status |-> "ambiguous", field |-> b.like[w]]
    [] OTHER -> [status |-> "extra", field |-> NoField]

(* Two words of one field are no better than one word twice.               *)
SlipMapping(b, row, c) == FirstMapping(b, row, c)   \* slip: the later column of a field is used
Mapping(b, row, c) ==
  LET first == [d \in DOMAIN row |-> FirstMapping(b, row, d)] IN
  IF first[c].status = "matched" /\ \E d \in DOMAIN row \ {c} : first[d] = first[c]
  THEN [first[c] EXCEPT !.status = "duplicate"] ELSE first[c]

ColumnsOf(mapped, f) == {c \in DOMAIN mapped : mapped[c] = [status |-> "matched", field |-> f]}
Present(mapped) == {mapped[c].field : c \in {c \in DOMAIN mapped : mapped[c].status = "matched"}}
Candidate(mapped) == {mapped[c].field : c \in {c \in DOMAIN mapped : mapped[c].status = "ambiguous"}}

(* The columns the rule wants that no header is, nor may be.               *)
Missing(b, mapped) == DOMAIN b.words \ (Present(mapped) \cup Candidate(mapped))

(***************************************************************************)
(* The plan: every missing column behind the last column of the rule's     *)
(* order that is there, the rightmost first, and at one place the last of  *)
(* the rule's order first.                                                 *)
(***************************************************************************)
Ordinal(b, f) == CHOOSE n \in DOMAIN b.fields : b.fields[n] = f

(* The columns of the rule before f that are there, and the last of them.  *)
Preceding(b, mapped, f) == {n \in 1..(Ordinal(b, f) - 1) : b.fields[n] \in Present(mapped)}
Predecessor(b, mapped, f) ==
  b.fields[CHOOSE n \in Preceding(b, mapped, f) : \A o \in Preceding(b, mapped, f) : o <= n]

Anchor(b, mapped, f) ==
  IF Preceding(b, mapped, f) = {} THEN 1
  ELSE 1 + CHOOSE c \in ColumnsOf(mapped, Predecessor(b, mapped, f)) : TRUE

Insertions(b, mapped) ==
  {[field |-> f, before |-> Anchor(b, mapped, f)] : f \in IF b.insert THEN Missing(b, mapped) ELSE {}}

InsertedBefore(b, o, p) ==
  \/ o.before > p.before
  \/ o.before = p.before /\ Ordinal(b, o.field) > Ordinal(b, p.field)

Plan(b, mapped) ==
  LET ops == Insertions(b, mapped) IN
  [n \in 1..Cardinality(ops) |-> CHOOSE o \in ops : Cardinality({p \in ops : InsertedBefore(b, p, o)}) = n - 1]

(* final_columns: what is at or behind a new column moves one to the right. *)
SlipFinal(b, mapped, plan) ==     \* slip: nothing moves
  [f \in Present(mapped) \cup {plan[n].field : n \in DOMAIN plan} |->
     IF f \in Present(mapped) THEN CHOOSE c \in ColumnsOf(mapped, f) : TRUE ELSE Anchor(b, mapped, f)]
Start(mapped) == [f \in Present(mapped) |-> CHOOSE c \in ColumnsOf(mapped, f) : TRUE]

Moved(old, op) ==
  [f \in DOMAIN old \cup {op.field} |->
     IF f = op.field THEN op.before ELSE IF old[f] >= op.before THEN old[f] + 1 ELSE old[f]]

Final(b, mapped, plan) ==
  LET after[n \in 0..Len(plan)] == IF n = 0 THEN Start(mapped) ELSE Moved(after[n - 1], plan[n])
  IN  after[Len(plan)]

(***************************************************************************)
(* The job.                                                                *)
(***************************************************************************)
HdrInit ==
  /\ hdrBook \in Books /\ hdrStep = "received" /\ hdrRow = 0 /\ hdrMapped = <<>>
  /\ hdrPlan = <<>> /\ hdrGrid = <<>> /\ hdrFinal = <<>>

AcceptRule ==
  /\ hdrStep = "received"
  /\ hdrStep' = IF RuleAccepted(hdrBook) THEN "accepted" ELSE "refused"
  /\ UNCHANGED <<hdrBook, hdrRow, hdrMapped, hdrPlan, hdrGrid, hdrFinal>>

(* AMBIGUOUS_SHEET, MISSING_SHEET, or the worksheet with its header row.   *)
Locate ==
  /\ hdrStep = "accepted"
  /\ LET names == Matching(hdrBook, hdrBook.named) rows == BestRows(hdrBook) IN
     IF Cardinality(names) # 1 THEN hdrStep' = "no_sheet" /\ UNCHANGED hdrRow
     ELSE IF hdrBook.auto /\ Cardinality(rows) # 1 THEN hdrStep' = "no_header" /\ UNCHANGED hdrRow
     ELSE /\ hdrRow' = IF hdrBook.auto THEN CHOOSE r \in rows : TRUE ELSE 1
          /\ hdrStep' = "located"
  /\ UNCHANGED <<hdrBook, hdrMapped, hdrPlan, hdrGrid, hdrFinal>>

(* A header twice, or no column for the key: no record is compared.  A     *)
(* header that only resembles one is for a person.                         *)
MapColumns ==
  /\ hdrStep = "located"
  /\ LET row == hdrBook.rows[hdrRow] IN
     hdrMapped' = [c \in DOMAIN row |-> Mapping(hdrBook, row, c)]
  /\ hdrStep' =
       IF \E c \in DOMAIN hdrMapped' : hdrMapped'[c].status = "ambiguous" THEN "manual_review"
       ELSE IF \/ \E c \in DOMAIN hdrMapped' : hdrMapped'[c].status = "duplicate"
               \/ ~hdrBook.key \subseteq Present(hdrMapped')
       THEN "skipped" ELSE "mapped"
  /\ UNCHANGED <<hdrBook, hdrRow, hdrPlan, hdrGrid, hdrFinal>>

(* _manifest.  A worksheet whose records are skipped still gets its columns. *)
PlanColumns ==
  /\ hdrStep \in {"mapped", "skipped"}
  /\ hdrPlan' = Plan(hdrBook, hdrMapped)
  /\ hdrFinal' = Final(hdrBook, hdrMapped, hdrPlan')
  /\ hdrGrid' = [c \in DOMAIN hdrMapped |-> c]
  /\ hdrStep' = "rendering"
  /\ UNCHANGED <<hdrBook, hdrRow, hdrMapped>>

(* insert_column, in the order of the columns, the rightmost first.        *)
InsertColumn ==
  /\ hdrStep = "rendering" /\ hdrPlan # <<>>
  /\ LET op == Head(hdrPlan) IN
     hdrGrid' = SubSeq(hdrGrid, 1, op.before - 1) \o <<op.field>> \o SubSeq(hdrGrid, op.before, Len(hdrGrid))
  /\ hdrPlan' = Tail(hdrPlan)
  /\ UNCHANGED <<hdrBook, hdrStep, hdrRow, hdrMapped, hdrFinal>>

WriteCells ==
  /\ hdrStep = "rendering" /\ hdrPlan = <<>>
  /\ hdrStep' = "rendered"
  /\ UNCHANGED <<hdrBook, hdrRow, hdrMapped, hdrPlan, hdrGrid, hdrFinal>>

HdrNext == AcceptRule \/ Locate \/ MapColumns \/ PlanColumns \/ InsertColumn \/ WriteCells

HdrSpec == HdrInit /\ [][HdrNext]_hdrVars

(***************************************************************************)
(* Properties                                                              *)
(***************************************************************************)

(* The records of a worksheet are compared only by one rule and one column *)
(* for each field: the header of a mapped column is a word of its field    *)
(* and of no other, no other header of the row is, and the row was found   *)
(* with the same fields it is mapped with.                                 *)
ColumnsAreUnambiguous ==
  hdrStep = "mapped" =>
    LET b == hdrBook row == b.rows[hdrRow] IN
    /\ Cardinality(Matching(b, b.named)) = 1 /\ Matching(b, b.named) \cap Matching(b, b.others) = {}
    /\ \A c \in DOMAIN hdrMapped :
         hdrMapped[c].status = "matched" =>
           LET f == hdrMapped[c].field IN
           /\ row[c] \in Words(b, f)
           /\ \A g \in DOMAIN b.words \ {f} : row[c] \notin Words(b, g)
           /\ \A d \in DOMAIN row \ {c} : row[d] \notin Words(b, f)
    /\ Present(hdrMapped) = Found(b, hdrRow) /\ b.key \subseteq Present(hdrMapped)

(* The values the manifest writes by the final columns reach the columns   *)
(* of their fields: after all insertions every field is where the manifest *)
(* says, every column that was there is still there and in its order, and  *)
(* only new columns are between a new one and its predecessor in the rule. *)
ColumnsLandInPlace ==
  hdrStep = "rendered" =>
    LET old == {c \in DOMAIN hdrGrid : hdrGrid[c] \in DOMAIN hdrMapped} IN
    /\ \A f \in DOMAIN hdrFinal :
         LET at == hdrGrid[hdrFinal[f]] IN
         IF f \in Present(hdrMapped) THEN at \in ColumnsOf(hdrMapped, f) ELSE at = f
    /\ \A c, d \in old : c < d => hdrGrid[c] < hdrGrid[d]
    /\ Cardinality(old) = Len(hdrMapped)
    /\ \A f \in DOMAIN hdrFinal \ Present(hdrMapped), g \in DOMAIN hdrFinal :
         (g \notin Present(hdrMapped) /\ Anchor(hdrBook, hdrMapped, f) = Anchor(hdrBook, hdrMapped, g)
            /\ Ordinal(hdrBook, f) < Ordinal(hdrBook, g)) => hdrFinal[f] < hdrFinal[g]
    /\ \A f \in DOMAIN hdrFinal \ Present(hdrMapped) :
         Preceding(hdrBook, hdrMapped, f) # {} =>
           LET p == hdrFinal[Predecessor(hdrBook, hdrMapped, f)] IN
           hdrFinal[f] > p /\ old \cap (p + 1)..(hdrFinal[f] - 1) = {}

(* Both together: what is compared and repaired in a column is its field.  *)
ColumnsKeepTheirFields == ColumnsAreUnambiguous /\ ColumnsLandInPlace
=============================================================================
