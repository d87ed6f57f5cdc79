------------------------------ MODULE Comparison ------------------------------
(***************************************************************************)
(* The comparison of one worksheet with the records of the standard        *)
(* (engine._compare_records, _validate_excel_records, partitioned_join and *)
(* record_store), and the checks a standard passes first                   *)
(* (pandera_adapter.StandardDataValidator).                                *)
(*                                                                         *)
(* An input s is a worksheet, the sheet's rule and the standard's records: *)
(*   mode, onEmpty   primary_key_mode, empty_primary_key_action            *)
(*   append, fill, overwrite, insert                                       *)
(*                   what the rule allows to be repaired                   *)
(*   rule[f]         of column f: required, nullable, unique, formulas     *)
(*                   (formula_mode), default (static_default or Blank),    *)
(*                   template (a formula_template is there), format        *)
(*                   (normalize_display_format)                            *)
(*   when            a conditional_required rule: a record with this number*)
(*                   as its "id" needs a "v"; 0 where there is no such rule*)
(*   first, rows, columns, hidden                                          *)
(*                   the first data row, the data rows, the columns the    *)
(*                   headers map, whether hidden rows count                *)
(*   std             the records, each with the fields it has              *)
(*   disk, parts     DiskBackedRecordMap and the partitioned join are used *)
(* A column is a decimal; a formula is the row it refers to.               *)
(***************************************************************************)
EXTENDS Integers, Sequences, FiniteSets

CONSTANTS
  Sheets,           \* the inputs
  MaxPasses         \* bound: how often one file is compared

VARIABLES
  cmpSheet,         \* the worksheet with its rule and its standard
  cmpStep,          \* how far the job is
  cmpPass,          \* how often it was compared
  cmpFound          \* the differences of the last comparison

cmpVars == <<cmpSheet, cmpStep, cmpPass, cmpFound>>

Fields == {"id", "v"}

(* A cell or a standard value.  A number may be written in several forms.  *)
Cell(tag, n, form) == [tag |-> tag, n |-> n, form |-> form]
Blank == Cell("blank", 0, 0)
Word == Cell("word", 0, 0)
Number(n, form) == Cell("number", n, form)
Formula(row) == Cell("formula", row, 0)
Huge == 9      \* a number of more digits than a cell of Excel keeps

SheetCells == {c \in [tag : {"blank", "word", "number", "formula"}, n : Nat, form : Nat] :
            c.tag = "blank" => c = Blank}

(* A worksheet with its rule and its standard.  A column that the headers  *)
(* do not map is empty.                                                    *)
SheetRows == [cell : [Fields -> SheetCells], cached : [Fields -> SheetCells], hidden : BOOLEAN, odd : SUBSET Fields]
StandardRows == [cell : [Fields -> SheetCells], given : SUBSET Fields, at : Nat]
ColumnRules == [required : BOOLEAN, nullable : BOOLEAN, unique : BOOLEAN, default : SheetCells,
                formulas : {"reject", "formula", "cached_value"}, template : BOOLEAN, format : BOOLEAN]
SheetInputs ==
  {s \in [mode : {"fields", "row_number"}, onEmpty : {"report_invalid", "skip_row", "use_row_number"},
          append : BOOLEAN, fill : BOOLEAN, overwrite : BOOLEAN, insert : BOOLEAN,
          rule : [Fields -> ColumnRules], when : Nat, first : Nat \ {0}, rows : Seq(SheetRows),
          columns : SUBSET Fields, hidden : BOOLEAN, disk : BOOLEAN, parts : BOOLEAN,
          std : Seq(StandardRows)] :
     \A i \in DOMAIN s.rows : \A f \in Fields \ s.columns : s.rows[i].cell[f] = Blank}

ASSUME ComparisonAssumption == \A s \in Sheets : s \in SheetInputs

IsFormula(c) == c.tag = "formula"

(* parse_value: a formula is a value only where formulas are compared.     *)
Valid(c, rule) == \/ c.tag \in {"blank", "number"}
                  \/ IsFormula(c) /\ rule.formulas = "formula"

(* values_equal, the tolerances being zero.                                *)
Same(a, b) == a.tag = b.tag /\ a.n = b.n

(* _excel_write_safe. *)
Storable(c) == c # Number(Huge, c.form)

(***************************************************************************)
(* Keys.  Python's tuples compare numbers; stable_key compares their text. *)
(***************************************************************************)
RowKey(n) == [by |-> "row", n |-> n, form |-> 0]
FallbackKey(n) == [by |-> "fallback", n |-> n, form |-> 0]
FieldKey(c) == [by |-> "field", n |-> c.n, form |-> c.form]
NoKey == [by |-> "none", n |-> 0, form |-> 0]

Tuple(k) == [k EXCEPT !.form = 0]
Text(k) == k

(* _key, and what an empty primary key makes of it.                        *)
KeyOf(s, id, rowNumber, ordinal) ==
  CASE s.mode = "row_number" -> RowKey(rowNumber)
    [] s.mode = "fields" /\ id.tag = "number" -> FieldKey(id)
    [] s.mode = "fields" /\ id.tag # "number" /\ s.onEmpty = "use_row_number" -> FallbackKey(ordinal)
    [] OTHER -> NoKey

Primary(s, f) == s.mode = "fields" /\ f = "id"

(***************************************************************************)
(* The worksheet's records.                                                *)
(***************************************************************************)
Seen(s) == {i \in DOMAIN s.rows :
  /\ s.hidden \/ ~s.rows[i].hidden
  /\ \E f \in s.columns : s.rows[i].cell[f] # Blank}

At(s, i) == s.first + i - 1
ExcelKey(s, i) == KeyOf(s, s.rows[i].cell["id"], At(s, i), i)
FormulaKeys(s) == {i \in Seen(s) : s.mode = "fields" /\ IsFormula(s.rows[i].cell["id"])}
Keyed(s) == {i \in Seen(s) \ FormulaKeys(s) : ExcelKey(s, i) # NoKey}

Twins(s, i) == {j \in Keyed(s) : Tuple(ExcelKey(s, j)) = Tuple(ExcelKey(s, i))}
ExcelRecords(s) == {i \in Keyed(s) : Twins(s, i) = {i}}
ExcelDuplicates(s) == Keyed(s) \ ExcelRecords(s)

(***************************************************************************)
(* The standard's records: a dict by the tuples or a table by their text.  *)
(***************************************************************************)
StandardKey(s, j) == KeyOf(s, s.std[j].cell["id"], s.std[j].at, j)
Stored(s, k) == IF s.disk THEN Text(k) ELSE Tuple(k)

StandardRecords(s) == {j \in DOMAIN s.std :
  /\ StandardKey(s, j) # NoKey
  /\ \A l \in DOMAIN s.std \ {j} : Stored(s, StandardKey(s, l)) # Stored(s, StandardKey(s, j))}
StandardDuplicates(s) ==
  {j \in DOMAIN s.std : StandardKey(s, j) # NoKey} \ StandardRecords(s)

(***************************************************************************)
(* The join: PolarsPartitionedKeyConnector.classify, or Python's sets.     *)
(* With the table, a key of the sets that is the worksheet's own is looked *)
(* up by its text; the keys both have are taken from the smaller side.     *)
(***************************************************************************)
Joined(s, k) == IF s.parts THEN Text(k) ELSE Tuple(k)

Matched(s) == {p \in ExcelRecords(s) \X StandardRecords(s) :
  Joined(s, ExcelKey(s, p[1])) = Joined(s, StandardKey(s, p[2]))}

LookupFails(s) ==
  /\ s.disk /\ ~s.parts /\ Cardinality(StandardRecords(s)) > Cardinality(ExcelRecords(s))
  /\ \E p \in Matched(s) : Text(ExcelKey(s, p[1])) # Text(StandardKey(s, p[2]))

ExcelOnly(s) == {i \in ExcelRecords(s) : \A p \in Matched(s) : p[1] # i}
StandardOnly(s) == {j \in StandardRecords(s) : \A p \in Matched(s) : p[2] # j}

(***************************************************************************)
(* Differences, and the repairs planned with them.                         *)
(***************************************************************************)
Difference(kind, row, f, rule) ==
  [kind |-> kind, row |-> row, field |-> f, rule |-> rule, planned |-> FALSE]
Planned(kind, row, f, rule, op, value) ==
  [kind |-> kind, row |-> row, field |-> f, rule |-> rule, planned |-> TRUE, op |-> op, value |-> value]

(* A row of the worksheet that cannot be matched.                          *)
SlipKeyDifferences(s) ==   \* slip: rows of one key are left out in silence
  {Difference("UNSUPPORTED_FEATURE", At(s, i), "id", "formula_primary_key") : i \in FormulaKeys(s)}
  \cup {Difference("EMPTY_PRIMARY_KEY", At(s, i), "id", "") : i \in
          {i \in Seen(s) \ (FormulaKeys(s) \cup Keyed(s)) : s.onEmpty # "skip_row"}}
KeyDifferences(s) ==
  {Difference("UNSUPPORTED_FEATURE", At(s, i), "id", "formula_primary_key") : i \in FormulaKeys(s)}
  \cup {Difference("EMPTY_PRIMARY_KEY", At(s, i), "id", "") : i \in
          {i \in Seen(s) \ (FormulaKeys(s) \cup Keyed(s)) : s.onEmpty # "skip_row"}}
  \cup {Difference("DUPLICATE_PRIMARY_KEY", At(s, i), "", "") : i \in ExcelDuplicates(s)}

(* A value that would be written: only what a cell keeps.                  *)
Write(s, kind, row, f, rule, op, value) ==
  IF Storable(value) THEN {Planned(kind, row, f, rule, op, value)}
  ELSE {Difference("UNSUPPORTED_FEATURE", row, f, "excel_write_precision")}

(* A record only the worksheet has: its empty cells may get a default.     *)
ExtraDifferences(s, i) ==
  {Difference("EXTRA_RECORD", At(s, i), "", "")}
  \cup UNION {Write(s, "NORMALIZED_MATCH", At(s, i), f, "fill_static_default", "set_cell", s.rule[f].default) :
                f \in {f \in s.columns : s.rows[i].cell[f] = Blank /\ s.rule[f].default # Blank}}

(***************************************************************************)
(* A record only the standard has.  Records are taken by the text of their *)
(* keys, and appended below the last row one after the other.              *)
(***************************************************************************)
TextBefore(a, b) ==
  IF (a < 10) = (b < 10) THEN a < b ELSE IF a < 10 THEN a <= 1 ELSE b > 1

Before(s, j, l) ==
  LET a == StandardKey(s, j) b == StandardKey(s, l) IN
  IF a.by # b.by THEN a.by = "field" ELSE IF a.n # b.n THEN TextBefore(a.n, b.n) ELSE a.form < b.form

(* What keeps record j from being appended to `row`.                       *)
Unwritable(s, j) == {f \in Fields : ~Storable(s.std[j].cell[f])}
Untrusted(s, j, row) == {f \in Fields :
  LET c == s.std[j].cell[f] IN
  /\ s.rule[f].formulas = "formula" /\ IsFormula(c)
  /\ ~(s.rule[f].template /\ c = Formula(row))}

Barred(s, j, row) ==
  \/ ~s.append
  \/ \E i \in ExcelDuplicates(s) : Tuple(ExcelKey(s, i)) = Tuple(StandardKey(s, j))
  \/ s.mode = "row_number" /\ StandardKey(s, j).n # row
  \/ Unwritable(s, j) # {} \/ Untrusted(s, j, row) # {}

(* The records in the order of their turns, and append_row after n turns.  *)
LastRow(s) == s.first + Len(s.rows) - 1
Turn(s, only, j) == 1 + Cardinality({l \in only : Before(s, l, j)})
AtTurn(s, only, n) == CHOOSE j \in only : Turn(s, only, j) = n
FreeRows(s, only) ==
  LET free[n \in 0..Cardinality(only)] ==
        IF n = 0 THEN LastRow(s) + 1
        ELSE free[n - 1] + IF Barred(s, AtTurn(s, only, n), free[n - 1]) THEN 0 ELSE 1
  IN  free

MissingDifferences(s, j, next) ==
  IF ~Barred(s, j, next) THEN {Planned("MISSING_RECORD", next, "", "append", "append_record", s.std[j].cell)}
  ELSE {Difference("MISSING_RECORD", 0, "",
          IF ~s.append THEN "" ELSE IF Untrusted(s, j, next) # {} THEN "formula_template_required"
          ELSE IF Unwritable(s, j) # {} THEN "numeric_write_blocked" ELSE "")}
       \cup {Difference("UNSUPPORTED_FEATURE", 0, f, "excel_write_precision") :
               f \in {f \in Unwritable(s, j) : s.append}}

(***************************************************************************)
(* A record both have, field by field: f has no column, or it has one.     *)
(***************************************************************************)
InsertedDifferences(s, i, j, f) ==
  LET row == At(s, i) rule == s.rule[f] c == s.std[j].cell[f] IN
  IF ~s.insert THEN {}
  ELSE IF rule.template
  THEN IF f \notin s.std[j].given \/ c = Formula(row) THEN {}
       ELSE {Difference("VALUE_MISMATCH", row, f, "formula_template_mismatch")}
  ELSE IF s.fill /\ Valid(c, rule) /\ c # Blank
  THEN Write(s, "NORMALIZED_MATCH", row, f, "fill_empty_from_standard", "set_field", c)
  ELSE IF rule.default # Blank
  THEN Write(s, "NORMALIZED_MATCH", row, f, "fill_static_default", "set_field", rule.default)
  ELSE {}

(* Two values that differ: filled or overwritten where that is allowed, but *)
(* never over a formula.                                                   *)
SlipMismatch(s, row, f, left, right, overFormula) ==   \* slip: the formula is overwritten
  LET fill == left = Blank /\ right # Blank /\ s.fill IN
  IF fill \/ s.overwrite
  THEN Write(s, "VALUE_MISMATCH", row, f, IF fill THEN "fill_empty_from_standard" ELSE "overwrite_mismatch", "set_cell", right)
  ELSE {Difference("VALUE_MISMATCH", row, f, "exact")}
Mismatch(s, row, f, left, right, overFormula) ==
  LET fill == left = Blank /\ right # Blank /\ s.fill
      plain == {Difference("VALUE_MISMATCH", row, f, "exact")}
      rule == IF fill THEN "fill_empty_from_standard" ELSE "overwrite_mismatch"
  IN  IF ~fill /\ ~s.overwrite THEN plain
      ELSE IF overFormula
      THEN plain \cup {Difference("UNSUPPORTED_FEATURE", row, f, "formula_cached_write_blocked")}
      ELSE Write(s, "VALUE_MISMATCH", row, f, rule, "set_cell", right)
           \cup IF Storable(right) THEN {} ELSE plain

ComparedDifferences(s, i, j, f) ==
  LET row == At(s, i) rule == s.rule[f]
      cell == s.rows[i].cell[f]
      right == s.std[j].cell[f]
      left == IF IsFormula(cell) THEN s.rows[i].cached[f] ELSE cell
      usesDefault == rule.default # Blank
  IN  IF f \notin s.std[j].given /\ ~(cell = Blank /\ usesDefault) THEN {}
      ELSE IF rule.formulas = "formula" /\ (IsFormula(cell) \/ IsFormula(right))
      THEN IF cell = right THEN {} ELSE {Difference("VALUE_MISMATCH", row, f, "formula_text")}
      ELSE IF IsFormula(cell) /\ rule.formulas = "reject" THEN {}
      ELSE IF left = Blank /\ right = Blank /\ ~usesDefault THEN {}
      ELSE IF ~Valid(left, rule) THEN {}
      ELSE IF ~Valid(right, rule) THEN {Difference("INVALID_VALUE", row, f, "standard_parse")}
      ELSE IF ~Same(left, right) THEN Mismatch(s, row, f, left, right, IsFormula(cell))
      ELSE IF left # Blank \/ ~usesDefault THEN {}
      ELSE IF IsFormula(cell) THEN {Difference("UNSUPPORTED_FEATURE", row, f, "formula_cached_write_blocked")}
      ELSE Write(s, "NORMALIZED_MATCH", row, f, "fill_static_default", "set_cell", rule.default)

MatchedDifferences(s, i, j) ==
  UNION {IF f \in s.columns THEN ComparedDifferences(s, i, j, f)
         ELSE InsertedDifferences(s, i, j, f) : f \in Fields}

(***************************************************************************)
(* The worksheet's own rules (_validate_excel_records), for every row with *)
(* a record, whatever became of its key.                                   *)
(***************************************************************************)
Validated(s) == {i \in Seen(s) : s.onEmpty # "skip_row" \/ i \in Keyed(s)}
Checked(s, i) == {f \in s.columns : ~(Primary(s, f) /\ s.rows[i].cell[f].tag # "number")}

Value(s, i, f) ==
  LET cell == s.rows[i].cell[f] IN
  IF IsFormula(cell) /\ s.rule[f].formulas = "cached_value" THEN s.rows[i].cached[f] ELSE cell

FieldDifferences(s, i, f) ==
  LET row == At(s, i) rule == s.rule[f] c == Value(s, i, f)
      shown == IF f \in s.rows[i].odd /\ s.rows[i].cell[f] # Blank /\ rule.format
               THEN {Planned("NORMALIZED_MATCH", row, f, "normalize_display_format", "set_number_format", Blank)}
               ELSE {}
  IN  IF IsFormula(c)
      THEN IF rule.formulas = "formula" THEN shown
           ELSE {Difference("UNSUPPORTED_FEATURE", row, f, "formula_reject")}
      ELSE IF c = Blank /\ ~rule.required /\ rule.nullable /\ ~rule.unique THEN {}
      ELSE IF ~Valid(c, rule) THEN {Difference("INVALID_VALUE", row, f, "parse")}
      ELSE shown \cup IF c = Blank /\ (rule.required \/ ~rule.nullable)
                       THEN {Difference("VALIDATION_ERROR", row, f, "validation")} ELSE {}

(* Values of a unique column that are there twice, by their numbers.       *)
Repeated(s) == {p \in Validated(s) \X Fields :
  /\ p[2] \in Checked(s, p[1]) /\ s.rule[p[2]].unique /\ Value(s, p[1], p[2]).tag = "number"
  /\ \E i \in Validated(s) \ {p[1]} :
       p[2] \in Checked(s, i) /\ Same(Value(s, i, p[2]), Value(s, p[1], p[2]))}

(* conditional_required. *)
LacksValue(s, id, v) == s.when # 0 /\ id.tag = "number" /\ id.n = s.when /\ v.tag \notin {"number", "formula"}
Conditional(s) == {i \in Validated(s) :
  /\ "id" \in Checked(s, i) /\ "v" \in Checked(s, i)
  /\ ~(IsFormula(Value(s, i, "v")) /\ s.rule["v"].formulas = "reject")
  /\ LacksValue(s, Value(s, i, "id"), Value(s, i, "v"))}

ValidationDifferences(s) ==
  (UNION {UNION {FieldDifferences(s, i, f) : f \in Checked(s, i)} : i \in Validated(s)})
  \cup {Difference("VALIDATION_ERROR", At(s, p[1]), p[2], "unique") : p \in Repeated(s)}
  \cup {Difference("VALIDATION_ERROR", At(s, i), "v", "conditional_required") : i \in Conditional(s)}

(* A column of the rule that the worksheet does not have. *)
HeaderDifferences(s) == {Difference("MISSING_HEADER", 0, f, "missing_column") : f \in Fields \ s.columns}

Differences(s) ==
  LET only == StandardOnly(s) free == FreeRows(s, only) IN
  HeaderDifferences(s) \cup KeyDifferences(s) \cup ValidationDifferences(s)
  \cup (UNION {ExtraDifferences(s, i) : i \in ExcelOnly(s)})
  \cup (UNION {MissingDifferences(s, j, free[Turn(s, only, j) - 1]) : j \in only})
  \cup (UNION {MatchedDifferences(s, p[1], p[2]) : p \in Matched(s)})

Repairs(s) == {d \in Differences(s) : d.planned}

(***************************************************************************)
(* StandardDataValidator.validate: what the service lets reach the         *)
(* comparison.  Rows without a key are left out where the rule skips them. *)
(***************************************************************************)
Skipped(s, j) == s.mode = "fields" /\ s.onEmpty = "skip_row" /\ s.std[j].cell["id"].tag # "number"
Kept(s) == {j \in DOMAIN s.std : ~Skipped(s, j)}

TypedRight(s, j, f) ==
  LET c == s.std[j].cell[f] rule == s.rule[f] IN
  /\ Valid(c, rule)
  /\ c = Blank => \/ Primary(s, f) /\ s.onEmpty = "use_row_number"
                  \/ ~rule.required /\ rule.nullable

UniqueRight(s, f) ==
  \A j, l \in Kept(s) :
    j # l /\ s.std[j].cell[f] # Blank => ~Same(s.std[j].cell[f], s.std[l].cell[f])

SlipKeysRight(s) == TRUE   \* slip: only columns declared unique are looked at
KeysRight(s) ==
  /\ \A j \in DOMAIN s.std : StandardKey(s, j) = NoKey => s.onEmpty = "skip_row"
  /\ \A j, l \in DOMAIN s.std :
       j # l /\ StandardKey(s, j) # NoKey => Tuple(StandardKey(s, j)) # Tuple(StandardKey(s, l))

Accepted(s) ==
  /\ \A j \in Kept(s), f \in Fields : TypedRight(s, j, f)
  /\ \A f \in Fields : s.rule[f].unique => UniqueRight(s, f)
  /\ KeysRight(s)
  /\ \A j \in Kept(s) : ~LacksValue(s, s.std[j].cell["id"], s.std[j].cell["v"])

(***************************************************************************)
(* What the renderer makes of the worksheet: columns the rule inserts with *)
(* their formulas, the planned values and formats, then the appended rows. *)
(***************************************************************************)
NeedsReview(found) == \E d \in found :
  d.rule \in {"formula_primary_key", "formula_template_required", "formula_template_mismatch",
              "excel_write_precision", "formula_cached_write_blocked"}

SlipInserted(s) == {}   \* slip: the missing columns are reported only
Inserted(s) == IF s.insert THEN Fields \ s.columns ELSE {}

WritesTo(found, row, f) == {d \in found : d.planned /\ d.row = row /\ d.field = f /\ d.op \in {"set_cell", "set_field"}}

RenderedRow(s, found, i) ==
  LET row == At(s, i) IN
  [s.rows[i] EXCEPT
     !.cell = [f \in Fields |->
       LET writes == WritesTo(found, row, f) IN
       IF writes # {} THEN (CHOOSE d \in writes : TRUE).value
       ELSE IF f \in Inserted(s) /\ s.rule[f].template /\ i \in Seen(s) THEN Formula(row)
       ELSE s.rows[i].cell[f]],
     !.odd = {f \in s.rows[i].odd : ~\E d \in found :
                d.planned /\ d.row = row /\ d.field = f /\ d.op = "set_number_format"}]

AppendedRow(s, d) ==
  [cell |-> [f \in Fields |-> IF f \in s.columns \cup Inserted(s) THEN d.value[f] ELSE Blank],
   cached |-> [f \in Fields |-> Blank], hidden |-> FALSE, odd |-> Fields]

Rendered(s, found) ==
  LET added == {d \in found : d.planned /\ d.op = "append_record"} IN
  [s EXCEPT
     !.columns = @ \cup Inserted(s),
     !.rows = [i \in DOMAIN s.rows |-> RenderedRow(s, found, i)]
              \o [n \in 1..Cardinality(added) |->
                    AppendedRow(s, CHOOSE d \in added : d.row = LastRow(s) + n)]]

(***************************************************************************)
(* The job: the standard is validated, the worksheet compared, and the     *)
(* result rendered unless a person must look at it first.  What was        *)
(* rendered may be sent in again, and once more.                           *)
(***************************************************************************)
CmpInit == cmpSheet \in Sheets /\ cmpStep = "received" /\ cmpPass = 1 /\ cmpFound = {}

Validate ==
  /\ cmpStep = "received"
  /\ cmpStep' = IF Accepted(cmpSheet) THEN "accepted" ELSE "refused"
  /\ UNCHANGED <<cmpSheet, cmpPass, cmpFound>>

Compare ==
  /\ cmpStep = "accepted"
  /\ ~LookupFails(cmpSheet)
  /\ cmpFound' = Differences(cmpSheet)
  /\ cmpStep' = IF NeedsReview(cmpFound') THEN "manual_review" ELSE "compared"
  /\ UNCHANGED <<cmpSheet, cmpPass>>

CompareFails ==
  /\ cmpStep = "accepted"
  /\ LookupFails(cmpSheet)
  /\ cmpStep' = "failed"
  /\ UNCHANGED <<cmpSheet, cmpPass, cmpFound>>

Render ==
  /\ cmpStep = "compared"
  /\ cmpSheet' = Rendered(cmpSheet, cmpFound)
  /\ cmpStep' = "rendered"
  /\ UNCHANGED <<cmpPass, cmpFound>>

Resubmit ==
  /\ cmpStep = "rendered"
  /\ cmpPass < MaxPasses
  /\ cmpStep' = "accepted" /\ cmpPass' = cmpPass + 1 /\ cmpFound' = {}
  /\ UNCHANGED cmpSheet

CmpNext == Validate \/ Compare \/ CompareFails \/ Render \/ Resubmit

CmpSpec == CmpInit /\ [][CmpNext]_cmpVars

(***************************************************************************)
(* Properties                                                              *)
(***************************************************************************)
Writes(found) == {d \in found : d.planned /\ d.op # "set_number_format"}

(***************************************************************************)
(* A report without a difference is the truth: row by row, apart from rows *)
(* that are hidden or skipped, the worksheet has exactly the standard's    *)
(* records, with every value the standard gives, and the values obey the   *)
(* rule.  One cell is another matter: a key that cannot be read, where the *)
(* row is known by its number instead, is not looked at.  And the          *)
(* standard's records are all it has: none of the rows that                *)
(* StandardDataValidator lets through is dropped as a duplicate or for     *)
(* want of a key, but those the rule skips.                                *)
(***************************************************************************)
Counterparts(s, i) == {j \in Kept(s) : Tuple(StandardKey(s, j)) = Tuple(ExcelKey(s, i))}

Unread(s, i, f) == Primary(s, f) /\ s.onEmpty = "use_row_number" /\ s.rows[i].cell[f].tag = "word"

AgreesOn(s, i, j, f) ==
  LET cell == s.rows[i].cell[f] value == Value(s, i, f) IN
  /\ f \in s.std[j].given => IF s.rule[f].formulas = "formula" THEN cell.tag = s.std[j].cell[f].tag /\ cell.n = s.std[j].cell[f].n
                             ELSE Same(value, s.std[j].cell[f])
  /\ value.tag \in {"number", "blank", "formula"}
  /\ s.rule[f].required \/ ~s.rule[f].nullable => value # Blank \/ (Primary(s, f) /\ s.onEmpty = "use_row_number")
  /\ s.rule[f].unique /\ value.tag = "number" => \A l \in Validated(s) \ {i} : ~Same(Value(s, l, f), value)

CleanReportAgrees ==
  LET s == cmpSheet IN
  /\ cmpStep = "compared" /\ cmpFound = {} =>
       /\ \A i \in Validated(s) : \E j \in Kept(s) :
            /\ Counterparts(s, i) = {j}
            /\ \A f \in Fields : Unread(s, i, f) \/ AgreesOn(s, i, j, f)
            /\ ~LacksValue(s, Value(s, i, "id"), Value(s, i, "v"))
       /\ \A j \in Kept(s) : Cardinality({i \in Validated(s) : j \in Counterparts(s, i)}) = 1
  /\ cmpStep = "accepted" =>
       /\ StandardDuplicates(s) = {}
       /\ DOMAIN s.std \ StandardRecords(s) = {j \in DOMAIN s.std : Skipped(s, j)}

(* No repair loses anything: one value at most is written to a cell, only  *)
(* what Excel keeps exactly, never over a formula or in a row whose key is *)
(* not its own, and records are appended below the last row, each to a row *)
(* of its own.                                                             *)
RepairsAreSafe ==
  cmpStep \in {"compared", "manual_review"} =>
    LET s == cmpSheet writes == Writes(cmpFound) IN
    /\ \A d, e \in writes : d # e => <<d.row, d.field>> # <<e.row, e.field>>
    /\ \A d \in writes :
         IF d.op = "append_record"
         THEN /\ d.row \in (LastRow(s) + 1)..(LastRow(s) + Cardinality(writes))
              /\ \A f \in Fields : Storable(d.value[f])
         ELSE LET i == d.row - s.first + 1 IN
              /\ i \in ExcelRecords(s)
              /\ ~IsFormula(s.rows[i].cell[d.field])
              /\ Storable(d.value)

(* What the report says was repaired is repaired: when the rendered file   *)
(* is compared with the same standard every record that was appended and   *)
(* every column that was inserted is found, only cells are left to be      *)
(* written, and when the file is compared once more nothing is.  Three     *)
(* cases are another matter: a record without a key, which stands for the  *)
(* row of its number and is not recognised where it was appended; row      *)
(* numbers on both sides of ten, which are not taken in their order; and   *)
(* an empty standard value that overwrites a default.                      *)
KeylessAppend(d) == d.op = "append_record" /\ cmpSheet.mode = "fields" /\ d.value["id"].tag # "number"
CrossesTen(s) == s.mode = "row_number" /\ s.first <= 9 /\ \E j \in DOMAIN s.std : s.std[j].at >= 10
Clears(s) == s.overwrite /\ \E f \in Fields : s.rule[f].default # Blank /\
               \E j \in DOMAIN s.std : f \in s.std[j].given /\ s.std[j].cell[f] = Blank

RepairsConverge ==
  cmpStep = "compared" /\ cmpPass > 1 /\ ~CrossesTen(cmpSheet) /\ ~Clears(cmpSheet) =>
    \A d \in Writes(cmpFound) : KeylessAppend(d) \/ (cmpPass = 2 /\ d.op = "set_cell")
=============================================================================
