--------------------------- MODULE MaintenanceReturns ---------------------------
(***************************************************************************)
(* A maintenance workbook goes out, is changed in Excel and comes back:    *)
(* what is written (excel.write_maintenance), how a returned file is read  *)
(* (return_import.inspect_book, excel.read_maintenance), matched with the  *)
(* records (return_import.reconcile, TaskService.preview_return), shown,   *)
(* confirmed and applied, beside edits in the browser that spread over     *)
(* merged cells (source_merges.expand_shared_changes).  TaskLifecycle has  *)
(* the leases and the workers these operations run under; here each is a   *)
(* step, and what they do to the records is modelled.                      *)
(*                                                                         *)
(* Records, fields and the words of headers are numbers: the word of a     *)
(* field is its own number, 0 is a word that names no field, an empty id   *)
(* or no field.  A cell of a merged range but its first is empty.          *)
(***************************************************************************)
EXTENDS Integers, Sequences, FiniteSets, Functions

CONSTANTS
  MaintenanceTasks,   \* [flexible, fields, rows] a task may start as
  Sku,                \* the field of the article number
  Protected,          \* required, read-only or named by a rule of the task
  CellValues,         \* what a person types in the browser
  FileValues,         \* what a person types in Excel
  MaxFileChanges,     \* bound on the changes of a file in Excel
  MaxEdits            \* bound on the edits in the browser

VARIABLES
  mtFlexible,         \* a standardization task
  mtFields, mtRows, mtRev,      \* config, records, revision
  mtNext,             \* the next identifier
  mtFile,             \* the workbook outside, or NoFile
  mtChanges, mtEdits, \* how often the bounded things happened
  mtNewer,            \* <<record, field>> edited after the download
  mtStep,             \* "none", or the status of the return
  mtDocument, mtBase, \* document.json, base_revision
  mtStaged            \* the preview and staged.json

mtVars == <<mtFlexible, mtFields, mtRows, mtRev, mtNext, mtFile, mtChanges, mtEdits, mtNewer,
            mtStep, mtDocument, mtBase, mtStaged>>

(* A record has a number and, for each field, a value and a group.         *)
IsRecord(r, fields) ==
  /\ r = [id |-> r.id, values |-> r.values, groups |-> r.groups]
  /\ r.id \in Nat \ {0}
  /\ r.values = [f \in fields |-> r.values[f]] /\ r.groups = [f \in fields |-> r.groups[f]]

(* A task starts with records of all its fields and of numbers of their    *)
(* own, the first there are.                                               *)
ASSUME MaintenanceReturnsAssumption ==
  \A task \in MaintenanceTasks :
    /\ task.fields \in Seq(Nat \ {0}) /\ task.rows \in Seq(Range(task.rows))
    /\ \A n \in DOMAIN task.rows : /\ IsRecord(task.rows[n], Range(task.fields))
                                  /\ task.rows[n].id <= Len(task.rows)
    /\ \A m, n \in DOMAIN task.rows : task.rows[m].id = task.rows[n].id => m = n

NoText == "-"
NoFile == [rev |-> -1]
NoGroup == <<>>

IdsOf(rows) == {rows[n].id : n \in DOMAIN rows}
ById(rows, id) == rows[CHOOSE n \in DOMAIN rows : rows[n].id = id]
FieldsOf(fields) == Range(fields)

(* What is at some of the places of a list, in their order.                *)
ListAt(list, places) ==
  [k \in 1 .. Cardinality(places) |->
     list[CHOOSE n \in places : Cardinality({m \in places : m <= n}) = k]]
WithoutRow(list, n) == ListAt(list, DOMAIN list \ {n})

-----------------------------------------------------------------------------
(* Merged cells.                                                           *)

SameCell(a, b, f) == a.groups[f] # NoGroup /\ a.groups[f] = b.groups[f] /\ a.values[f] = b.values[f]

(* vertical_spans: the longest runs of adjacent records of one group and value. *)
Spans(rows, f) ==
  {p \in (1..Len(rows)) \X (1..Len(rows)) :
     /\ p[1] < p[2] /\ \A i \in p[1]..p[2] : SameCell(rows[p[1]], rows[i], f)
     /\ p[1] > 1 => ~SameCell(rows[p[1] - 1], rows[p[1]], f)
     /\ p[2] < Len(rows) => ~SameCell(rows[p[2] + 1], rows[p[2]], f)}

(* expand_shared_changes: a change goes to every record of its group and   *)
(* value, except those deleted.                                            *)
SlipShared(rows, x, f) == {x}      \* slip: only the record itself changes
Shared(rows, x, f) ==
  {r.id : r \in {r \in Range(rows) : SameCell(ById(rows, x), r, f)}} \cup {x}

(* Two changes of one shared cell that differ.                             *)
Disagree(rows, changes) ==
  \E c, d \in DOMAIN changes :
    c[2] = d[2] /\ changes[c] # changes[d] /\ d[1] \in Shared(rows, c[1], c[2])

(* The changes that reach field f of record x.                             *)
Reaching(rows, changes, x, f) == {c \in DOMAIN changes : c[2] = f /\ x \in Shared(rows, c[1], c[2])}

Expanded(rows, changes, deleted) ==
  LET cells == UNION {{<<y, c[2]>> : y \in Shared(rows, c[1], c[2]) \ deleted} : c \in DOMAIN changes}
  IN [x \in cells |-> changes[CHOOSE c \in Reaching(rows, changes, x[1], x[2]) : TRUE]]

Rewritten(rows, cells) ==
  [n \in DOMAIN rows |->
     [rows[n] EXCEPT !.values = [f \in DOMAIN @ |-> IF <<rows[n].id, f>> \in DOMAIN cells
                                                    THEN cells[<<rows[n].id, f>>] ELSE @[f]]]]

Remaining(rows, deleted) == ListAt(rows, {n \in DOMAIN rows : rows[n].id \notin deleted})

NewRecord(id, values) == [id |-> id, values |-> values, groups |-> [f \in DOMAIN values |-> NoGroup]]

WithAdditions(rows, added) ==
  rows \o [i \in DOMAIN added |-> NewRecord(mtNext + i - 1, added[i])]

(* TaskService.edit                                                        *)
Edited(changes, deleted, added) ==
  WithAdditions(Remaining(Rewritten(mtRows, Expanded(mtRows, changes, deleted)), deleted), added)

-----------------------------------------------------------------------------
(* write_maintenance: the id and a column for every field, named inside    *)
(* the file; ranges merged as the records say.  `of` is no part of a file: *)
(* whose cells the row holds.                                              *)
Written(fields, rows, revision) ==
  LET merges == UNION {{<<c, p[1], p[2]>> : p \in Spans(rows, fields[c])} : c \in DOMAIN fields} IN
  [rev |-> revision, ids |-> TRUE,
   cols |-> [c \in DOMAIN fields |-> [anchor |-> fields[c], word |-> fields[c]]],
   merges |-> merges,
   rows |-> [n \in DOMAIN rows |->
     [id |-> rows[n].id, of |-> rows[n].id,
      cells |-> [c \in DOMAIN fields |->
        IF \E m \in merges : m[1] = c /\ m[2] < n /\ n <= m[3] THEN NoText ELSE rows[n].values[fields[c]]]]]]

Covered(file, n, c) == \E m \in file.merges : m[1] = c /\ n \in m[2]..m[3]
PlainRow(file, n) == \A c \in DOMAIN file.cols : ~Covered(file, n, c)
Swapped(s, i, j) == [s EXCEPT ![i] = s[j], ![j] = s[i]]

(* What a person may do in Excel: one change, and what it makes of a file. *)
WithCell(file, n, c, v) == [file EXCEPT !.rows[n].cells[c] = v]
WithRows(file, rows) == [file EXCEPT !.rows = rows]
WithoutId(file, n) == [file EXCEPT !.rows[n].id = 0]
CellsExchanged(file, i, j) ==
  LET rows == file.rows
  IN [file EXCEPT !.rows[i].cells = rows[j].cells, !.rows[j].cells = rows[i].cells,
                  !.rows[i].of = rows[j].of, !.rows[j].of = rows[i].of]

ChangedRows(file) ==
  LET rows == file.rows plain == {n \in DOMAIN rows : PlainRow(file, n)} IN
  {WithCell(file, n, c, v) : n \in {n \in plain : rows[n].of # 0}, c \in DOMAIN file.cols, v \in FileValues}
  \cup {WithCell(file, m[2], m[1], v) : m \in file.merges, v \in FileValues}
  \cup {WithRows(file, WithoutRow(rows, n)) : n \in {n \in plain : file.merges = {}}}
  \cup {WithRows(file, Append(rows, rows[n])) : n \in plain}
  \cup {WithRows(file, Append(rows, [id |-> 0, of |-> 0, cells |-> [c \in DOMAIN file.cols |-> v]])) :
           v \in FileValues}
  \cup {WithRows(file, Swapped(rows, i, j)) : i \in plain, j \in plain}
  \cup {CellsExchanged(file, i, j) : i \in plain, j \in plain}
  \cup {WithoutId(file, n) : n \in DOMAIN rows}

WithoutIds(file) == [file EXCEPT !.ids = FALSE, !.rows = [n \in DOMAIN @ |-> [@[n] EXCEPT !.id = 0]]]
WithoutColumn(file, c) ==
  [file EXCEPT !.cols = WithoutRow(@, c), !.merges = {},
               !.rows = [n \in DOMAIN @ |-> [@[n] EXCEPT !.cells = WithoutRow(@, c)]]]
WithColumn(file, w, v) ==
  [file EXCEPT !.cols = Append(@, [anchor |-> 0, word |-> w]),
               !.rows = [n \in DOMAIN @ |-> [@[n] EXCEPT !.cells = Append(@, v)]]]
WithoutAnchor(file, c) == [file EXCEPT !.cols[c].anchor = 0]
WithoutWord(file, c) == [file EXCEPT !.cols[c].word = 0]
Unmerged(file, m) == [file EXCEPT !.merges = @ \ {m}]
UnmergedFilled(file, m) ==
  [Unmerged(file, m) EXCEPT !.rows = [n \in DOMAIN @ |-> IF n \in m[2]..m[3]
                                        THEN [@[n] EXCEPT !.cells[m[1]] = file.rows[m[2]].cells[m[1]]]
                                        ELSE @[n]]]
MergedCells(file, c, n) == [file EXCEPT !.merges = @ \cup {<<c, n, n + 1>>}, !.rows[n + 1].cells[c] = NoText]

ChangedColumns(file) ==
  LET cols == file.cols
      pairs == {n \in 1..(Len(file.rows) - 1) : PlainRow(file, n) /\ PlainRow(file, n + 1)} IN
  {WithoutIds(file)}
  \cup {WithoutColumn(file, c) : c \in {c \in DOMAIN cols : Len(cols) > 1 /\ file.merges = {}}}
  \cup {WithColumn(file, w, v) : w \in {0, cols[1].word}, v \in FileValues}
  \cup {WithoutAnchor(file, c) : c \in DOMAIN cols} \cup {WithoutWord(file, c) : c \in DOMAIN cols}
  \cup {Unmerged(file, m) : m \in file.merges} \cup {UnmergedFilled(file, m) : m \in file.merges}
  \cup {MergedCells(file, c, n) : c \in DOMAIN cols, n \in pairs}

-----------------------------------------------------------------------------
(* inspect_book: the field a column is named for inside the file, or else  *)
(* the one its header names; merged ranges filled; rows that have an id or *)
(* a value.                                                                *)

ColumnField(col, fields) ==
  IF col.anchor \in FieldsOf(fields) THEN col.anchor
  ELSE IF col.word \in FieldsOf(fields) THEN col.word ELSE 0

RangeOf(file, n, c) ==
  IF Covered(file, n, c) THEN CHOOSE m \in file.merges : m[1] = c /\ n \in m[2]..m[3] ELSE NoGroup

CellAt(file, n, c) ==
  LET m == RangeOf(file, n, c) IN file.rows[IF m = NoGroup THEN n ELSE m[2]].cells[c]

FilledRows(file) ==
  LET read == [n \in DOMAIN file.rows |->
                 [id |-> file.rows[n].id, of |-> file.rows[n].of, at |-> n,
                  cells |-> [c \in DOMAIN file.cols |-> CellAt(file, n, c)],
                  groups |-> [c \in DOMAIN file.cols |-> RangeOf(file, n, c)]]]
  IN ListAt(read, {n \in DOMAIN read :
                     read[n].id # 0 \/ \E c \in DOMAIN read[n].cells : read[n].cells[c] # NoText})

SlipStale(file) == FALSE      \* slip: every file counts as current
Stale(file) == file.rev < mtRev

Inspected(file) ==
  [fields |-> [c \in DOMAIN file.cols |-> ColumnField(file.cols[c], mtFields)],
   words |-> [c \in DOMAIN file.cols |-> file.cols[c].word],
   rows |-> FilledRows(file), ids |-> file.ids, stale |-> Stale(file)]

-----------------------------------------------------------------------------
(* reconcile: the columns a person chose, a field, "new" (-1) or "ignore"  *)
(* (-2) for each, and the rows they chose for.                             *)

NewField(c) == 10 + c
TargetOf(columns, c) == IF columns[c] = -1 THEN NewField(c) ELSE columns[c]
Mapped(columns) == {c \in DOMAIN columns : columns[c] # -2}
ValueOf(row, columns, f) == row.cells[CHOOSE c \in Mapped(columns) : TargetOf(columns, c) = f]
NewFields(columns) == ListAt([c \in DOMAIN columns |-> TargetOf(columns, c)], Mapped(columns))
Provided(columns) == FieldsOf(NewFields(columns)) \cap FieldsOf(mtFields)
Dropped(columns) == FieldsOf(mtFields) \ FieldsOf(NewFields(columns))

ColumnsRefused(columns) ==
  \/ \E c, d \in Mapped(columns) : c # d /\ TargetOf(columns, c) = TargetOf(columns, d)
  \/ Dropped(columns) \cap Protected # {} \/ Mapped(columns) = {}

(* The records a returned row may be, by its article number or its content. *)
SkuOwners(row, columns) ==
  IF Sku \in Provided(columns) /\ ValueOf(row, columns, Sku) # NoText
  THEN {r.id : r \in {r \in Range(mtRows) : r.values[Sku] = ValueOf(row, columns, Sku)}} ELSE {}
ContentOwners(row, columns) ==
  {r.id : r \in {r \in Range(mtRows) : \A f \in Provided(columns) : r.values[f] = ValueOf(row, columns, f)}}
Filled(row, columns) == Cardinality({f \in Provided(columns) : ValueOf(row, columns, f) # NoText})

Copies(document, row) == {n \in DOMAIN document.rows : document.rows[n].id = row.id}

(* Why a row is for a person: its id is unknown, copied or absent, or the  *)
(* row looks like another record.                                          *)
SlipDoubtful(document, columns, row) ==      \* slip: the contents are not compared
  IF row.id = 0 THEN SkuOwners(row, columns) # {} \/ ~document.ids
  ELSE row.id \notin IdsOf(mtRows) \/ Cardinality(Copies(document, row)) > 1

Doubtful(document, columns, row) ==
  LET bySku == SkuOwners(row, columns) byContent == ContentOwners(row, columns) IN
  IF row.id = 0
  THEN bySku \cup byContent # {} \/ ~document.ids
  ELSE \/ row.id \notin IdsOf(mtRows) \/ Cardinality(Copies(document, row)) > 1
       \/ bySku # {} /\ row.id \notin bySku
       \/ Filled(row, columns) >= 2 /\ byContent # {} /\ row.id \notin byContent

(* What becomes of row n: -1 asked, 0 a new record, -2 left out, or the record it is. *)
Fate(document, columns, choices, n) ==
  LET row == document.rows[n] IN
  IF n \in DOMAIN choices THEN choices[n]
  ELSE IF Doubtful(document, columns, row) THEN -1 ELSE row.id

RowsRefused(document, columns, choices) ==
  \E n, m \in DOMAIN document.rows :
    LET x == Fate(document, columns, choices, n) IN
    x > 0 /\ (x \notin IdsOf(mtRows) \/ (n # m /\ Fate(document, columns, choices, m) = x))

(* The record made of row n, with the ranges of the file as its groups.    *)
ProposedRow(document, columns, x, n, id) ==
  LET row == document.rows[n] fields == FieldsOf(NewFields(columns)) IN
  [id |-> id, values |-> [f \in fields |-> ValueOf(row, columns, f)],
   groups |-> [f \in fields |-> row.groups[CHOOSE c \in Mapped(columns) : TargetOf(columns, c) = f]]]

(* A group of the same records as before keeps its name.                   *)
Members(rows, f, g) == {r.id : r \in {r \in Range(rows) : f \in DOMAIN r.groups /\ r.groups[f] = g}}
Renamed(rows) ==
  [n \in DOMAIN rows |->
     [rows[n] EXCEPT !.groups = [f \in DOMAIN @ |->
        LET mine == Members(rows, f, @[f])
            same == {r.groups[f] : r \in {r \in Range(mtRows) : f \in DOMAIN r.groups /\ r.groups[f] # NoGroup
                                                                /\ Members(mtRows, f, r.groups[f]) = mine}}
        IN IF @[f] = NoGroup \/ same = {} THEN @[f] ELSE CHOOSE g \in same : TRUE]]]

Proposed(document, columns, choices) ==
  LET Of(n) == Fate(document, columns, choices, n)
      taken == ListAt([n \in DOMAIN document.rows |-> n], {n \in DOMAIN document.rows : Of(n) >= 0})
      New(i) == Cardinality({j \in 1..i : Of(taken[j]) = 0})
  IN Renamed([i \in DOMAIN taken |->
       ProposedRow(document, columns, Of(taken[i]), taken[i],
                   IF Of(taken[i]) = 0 THEN mtNext + New(i) - 1 ELSE Of(taken[i]))])

SpansOfIds(rows, fields) ==
  UNION {{<<f, {rows[i].id : i \in p[1]..p[2]}>> : p \in Spans(rows, f)} : f \in fields}

(* structure_summary is empty only if nothing but values and rows differ.  *)
Among(list, S) == ListAt(list, {n \in DOMAIN list : list[n] \in S})
IdList(rows) == [n \in DOMAIN rows |-> rows[n].id]

Restructured(document, columns, proposed) ==
  \/ \E c \in DOMAIN columns : columns[c] < 0 \/ document.words[c] # columns[c]
  \/ Dropped(columns) # {}
  \/ Among(mtFields, Provided(columns)) # Among(NewFields(columns), Provided(columns))
  \/ Among(IdList(mtRows), IdsOf(proposed)) # Among(IdList(proposed), IdsOf(mtRows))
  \/ SpansOfIds(mtRows, Provided(columns)) # SpansOfIds(proposed, FieldsOf(NewFields(columns)))

ChangedCells(before, after) ==
  {x \in IdsOf(before) \X UNION {DOMAIN r.values : r \in Range(after)} :
     /\ x[1] \in IdsOf(after) /\ x[2] \in DOMAIN ById(after, x[1]).values
     /\ LET was == ById(before, x[1]).values IN
        ById(after, x[1]).values[x[2]] # (IF x[2] \in DOMAIN was THEN was[x[2]] ELSE NoText)}

NothingStaged ==
  [rows |-> <<>>, fields |-> <<>>, columns |-> <<>>, choices |-> <<>>, asked |-> {}, structure |-> FALSE,
   changes |-> <<>>, added |-> <<>>, warned |-> FALSE, changed |-> {}, missing |-> {}, confirmed |-> {}]

NoDocument == [fields |-> <<>>, words |-> <<>>, rows |-> <<>>, ids |-> FALSE, stale |-> FALSE]

(* What reconcile stages: the records, or the rows it asks for.            *)
StagedOf(document, columns, choices) ==
  LET rows == Proposed(document, columns, choices)
      asked == {n \in DOMAIN document.rows : Fate(document, columns, choices, n) = -1} IN
  [NothingStaged EXCEPT !.rows = rows, !.fields = NewFields(columns), !.columns = columns, !.choices = choices,
     !.asked = asked, !.structure = Restructured(document, columns, rows),
     !.changed = ChangedCells(mtRows, rows), !.missing = IdsOf(mtRows) \ IdsOf(rows)]

-----------------------------------------------------------------------------
(* read_maintenance and preview_return: a file of this revision with its   *)
(* columns and its merged ranges; only values and rows may differ.         *)

RowsOfIds(file) ==
  [n \in DOMAIN file.rows |->
     IF file.rows[n].id \in IdsOf(mtRows) THEN ById(mtRows, file.rows[n].id)
     ELSE NewRecord(0, [f \in FieldsOf(mtFields) |-> NoText])]

StrictRows(file) ==
  LET read == FilledRows(file)
  IN ListAt(read, {n \in DOMAIN read : \/ read[n].id # 0
                                       \/ \E c \in DOMAIN file.cols : file.rows[read[n].at].cells[c] # NoText})

FileRefused(file) ==
  \/ file.rev # mtRev \/ ~file.ids
  \/ [c \in DOMAIN file.cols |-> file.cols[c].word] # mtFields
  \/ file.merges # UNION {{<<c, p[1], p[2]>> : p \in Spans(RowsOfIds(file), mtFields[c])} : c \in DOMAIN mtFields}
  \/ \E n, m \in DOMAIN StrictRows(file) :
       LET r == StrictRows(file)[n] IN
       r.id # 0 /\ (r.id \notin IdsOf(mtRows) \/ (n # m /\ StrictRows(file)[m].id = r.id))

StrictValues(row) ==
  [f \in FieldsOf(mtFields) |-> row.cells[CHOOSE c \in DOMAIN mtFields : mtFields[c] = f]]

StrictStaged(file) ==
  LET rows == Range(StrictRows(file))
      known == {r \in rows : r.id # 0}
      new == ListAt(StrictRows(file), {n \in DOMAIN StrictRows(file) : StrictRows(file)[n].id = 0})
      added == [i \in DOMAIN new |-> StrictValues(new[i])]
      missing == IdsOf(mtRows) \ {r.id : r \in known}
      Of(id) == CHOOSE r \in known : r.id = id
      changed == {x \in {r.id : r \in known} \X FieldsOf(mtFields) :
                    StrictValues(Of(x[1]))[x[2]] # ById(mtRows, x[1]).values[x[2]]}
      lost == {r \in Range(mtRows) : r.id \in missing}
      suspects == \E v \in Range(added), r \in lost : v = r.values \/ (v[Sku] # NoText /\ v[Sku] = r.values[Sku])
      moved == \E x \in changed, r \in Range(mtRows) : r.id # x[1] /\ r.values = StrictValues(Of(x[1]))
  IN [NothingStaged EXCEPT !.rows = StrictRows(file), !.added = added, !.missing = missing, !.changed = changed,
        !.changes = [x \in changed |-> StrictValues(Of(x[1]))[x[2]]], !.warned = suspects \/ moved]

-----------------------------------------------------------------------------
MtInit ==
  /\ \E task \in MaintenanceTasks : mtFlexible = task.flexible /\ mtFields = task.fields /\ mtRows = task.rows
  /\ mtRev = 1 /\ mtNext = 1 + Len(mtRows) /\ mtFile = NoFile /\ mtChanges = 0 /\ mtEdits = 0 /\ mtNewer = {}
  /\ mtStep = "none" /\ mtDocument = NoDocument /\ mtBase = 0 /\ mtStaged = NothingStaged

(* The records that are there after a change, and the next revision.       *)
Saved(rows, added) == rows # <<>> /\ mtRows' = rows /\ mtRev' = mtRev + 1 /\ mtNext' = mtNext + added

(* TaskService.edit from the browser: a cell, or two of one field that get *)
(* different values, or a record less or more.                             *)
Edit(changes, deleted, added) ==
  /\ mtEdits < MaxEdits /\ mtEdits' = mtEdits + 1
  /\ ~Disagree(mtRows, changes)
  /\ Saved(Edited(changes, deleted, added), Len(added))
  /\ mtNewer' = IF mtFile = NoFile THEN {} ELSE mtNewer \cup ChangedCells(mtRows, mtRows')
  /\ UNCHANGED <<mtFlexible, mtFields, mtFile, mtChanges, mtStep, mtDocument, mtBase, mtStaged>>

EditCells(f) ==
  \E x, y \in IdsOf(mtRows), v, w \in CellValues :
    /\ x <= y /\ (x = y <=> v = w)
    /\ Edit([c \in {x, y} \X {f} |-> IF c[1] = x THEN v ELSE w], {}, <<>>)

DeleteRecord == \E x \in IdsOf(mtRows) : Edit(<<>>, {x}, <<>>)
AddRecord == \E v \in CellValues : Edit(<<>>, {}, <<[f \in FieldsOf(mtFields) |-> v]>>)

(* maintenance_file                                                        *)
Download ==
  /\ mtStep = "none" /\ mtFile = NoFile
  /\ mtFile' = Written(mtFields, mtRows, mtRev) /\ mtNewer' = {} /\ mtChanges' = 0
  /\ UNCHANGED <<mtFlexible, mtFields, mtRows, mtRev, mtNext, mtEdits, mtStep, mtDocument, mtBase, mtStaged>>

ChangeFile ==
  /\ mtStep = "none" /\ mtFile # NoFile /\ mtChanges < MaxFileChanges
  /\ mtChanges' = mtChanges + 1
  /\ mtFile' \in ChangedRows(mtFile) \cup ChangedColumns(mtFile) /\ mtFile' # mtFile
  /\ UNCHANGED <<mtFlexible, mtFields, mtRows, mtRev, mtNext, mtEdits, mtNewer,
                 mtStep, mtDocument, mtBase, mtStaged>>

Upload(status) ==
  /\ mtStep = "none" /\ mtFile # NoFile /\ mtStep' = status /\ mtBase' = mtRev
  /\ UNCHANGED <<mtFlexible, mtFields, mtRows, mtRev, mtNext, mtFile, mtChanges, mtEdits, mtNewer>>

(* inspect_return                                                          *)
InspectReturn ==
  /\ mtFlexible /\ Upload("structure") /\ FilledRows(mtFile) # <<>>
  /\ mtDocument' = Inspected(mtFile) /\ mtStaged' = NothingStaged

(* preview_flexible_return: the columns as found or one chosen otherwise,  *)
(* and each row that was asked for as a record of its, a new one or none.  *)
ColumnChoices ==
  LET found == [c \in DOMAIN mtDocument.fields |-> IF mtDocument.fields[c] = 0 THEN -1 ELSE mtDocument.fields[c]] IN
  {found} \cup {[found EXCEPT ![c] = t] : c \in DOMAIN found, t \in FieldsOf(mtFields) \cup {-1, -2}}

RowChoices ==
  LET asked == mtStaged.asked rows == mtDocument.rows IN
  {x \in [asked -> {-2, 0} \cup IdsOf(mtRows)] : \A n \in asked : x[n] \in {-2, 0, rows[n].id, rows[n].of}}

Preview(columns, choices) ==
  /\ mtRev = mtBase
  /\ ~ColumnsRefused(columns) /\ ~RowsRefused(mtDocument, columns, choices)
  /\ mtStaged' = StagedOf(mtDocument, columns, choices)
  /\ mtStep' = IF mtStaged'.asked = {} THEN "ready" ELSE "row_review"
  /\ UNCHANGED <<mtFlexible, mtFields, mtRows, mtRev, mtNext, mtFile, mtChanges, mtEdits, mtNewer,
                 mtDocument, mtBase>>

ChooseColumns == mtStep = "structure" /\ \E columns \in ColumnChoices : Preview(columns, <<>>)
ChooseRows == mtStep = "row_review" /\ \E choices \in RowChoices : Preview(mtStaged.columns, choices)

(* preview_return                                                          *)
PreviewReturn ==
  /\ Upload("checked") /\ ~FileRefused(mtFile)
  /\ mtStaged' = StrictStaged(mtFile) /\ mtDocument' = NoDocument

SlipBaseOf == mtRev      \* slip: the revision the preview was made of is not compared
BaseOf == mtBase

(* _apply_flexible_return                                                  *)
ApplyFlexible(confirmed) ==
  /\ mtStep = "ready" /\ BaseOf = mtRev
  /\ mtDocument.stale => "stale" \in confirmed
  /\ mtStaged.structure => "structure" \in confirmed
  /\ Saved(mtStaged.rows, Len(mtStaged.rows)) /\ mtFields' = mtStaged.fields
  /\ mtStep' = "applied" /\ mtStaged' = [mtStaged EXCEPT !.confirmed = confirmed]
  /\ UNCHANGED <<mtFlexible, mtFile, mtChanges, mtEdits, mtNewer, mtDocument, mtBase>>

(* apply_return of a file of the same structure                            *)
ApplyReturn(confirmed) ==
  /\ mtStep = "checked" /\ BaseOf = mtRev
  /\ mtStaged.warned => "identity" \in confirmed
  /\ ~Disagree(mtRows, mtStaged.changes)
  /\ Saved(Edited(mtStaged.changes, IF "deletions" \in confirmed THEN mtStaged.missing ELSE {}, mtStaged.added),
           Len(mtStaged.added))
  /\ mtStep' = "applied" /\ mtStaged' = [mtStaged EXCEPT !.confirmed = confirmed]
  /\ UNCHANGED <<mtFlexible, mtFields, mtFile, mtChanges, mtEdits, mtNewer, mtDocument, mtBase>>

MtNext ==
  \/ \E f \in FieldsOf(mtFields) : EditCells(f)
  \/ DeleteRecord \/ AddRecord
  \/ Download \/ ChangeFile \/ InspectReturn \/ ChooseColumns \/ ChooseRows \/ PreviewReturn
  \/ \E confirmed \in SUBSET {"stale", "structure"} : ApplyFlexible(confirmed)
  \/ \E confirmed \in SUBSET {"identity", "deletions"} : ApplyReturn(confirmed)

MtSpec == MtInit /\ [][MtNext]_mtVars

(***************************************************************************)
(* Properties                                                              *)
(***************************************************************************)

(* A row keeps its record: one that still has what two or more cells of a  *)
(* record had becomes that record or one that had the same, unless a       *)
(* person chose for it, or was warned, or the record has another row.      *)
Carries(values, of, known) ==
  /\ of \in IdsOf(mtRows) /\ \A f \in known : values[f] = ById(mtRows, of).values[f]
  /\ Cardinality({f \in known : values[f] # NoText}) >= 2

AsAlike(x, y, known) ==
  x \in IdsOf(mtRows) /\ \A f \in known : ById(mtRows, x).values[f] = ById(mtRows, y).values[f]

IdentityIsKept ==
  /\ (mtStep \in {"ready", "row_review"} /\ mtRev = mtBase /\ ~mtDocument.stale) =>
       \A n \in DOMAIN mtDocument.rows \ DOMAIN mtStaged.choices :
         LET row == mtDocument.rows[n] known == Provided(mtStaged.columns)
             values == [f \in known |-> ValueOf(row, mtStaged.columns, f)]
             fate == Fate(mtDocument, mtStaged.columns, mtStaged.choices, n) IN
         Carries(values, row.of, known) => fate = -1 \/ AsAlike(fate, row.of, known)
  /\ (mtStep = "checked" /\ mtRev = mtBase /\ ~mtStaged.warned) =>
       \A row \in Range(mtStaged.rows) :
         Carries(StrictValues(row), row.of, FieldsOf(mtFields)) =>
           \/ AsAlike(row.id, row.of, FieldsOf(mtFields))
           \/ row.id = 0 /\ \E r \in Range(mtStaged.rows) : r.id = row.of

(* What a return does to the task is what was shown and confirmed: no      *)
(* other record goes and no other cell changes than was shown, but those   *)
(* that share a shown one; records go from a file of the same structure,   *)
(* cells edited since the download are written over, and columns and the   *)
(* ranges they are merged in change, only if a person confirmed that.      *)
AppliedAsShown ==
  [][(mtStep # "applied" /\ mtStep' = "applied") =>
       LET changed == ChangedCells(mtRows, mtRows')
           lost == IdsOf(mtRows) \ IdsOf(mtRows')
           confirmed == mtStaged'.confirmed IN
       /\ lost \subseteq mtStaged.missing
       /\ \A x \in changed : \E y \in mtStaged.changed :
            x = y \/ (mtStep = "checked" /\ x[2] = y[2] /\ x[1] \in Shared(mtRows, y[1], y[2]))
       /\ (mtStep = "checked" /\ lost # {}) => "deletions" \in confirmed
       /\ (changed \cap mtNewer # {}) => "stale" \in confirmed
       /\ mtFields' # mtFields => "structure" \in confirmed]_mtVars

(* An edit leaves what is merged merged: the records of one merged range   *)
(* that are still there are in one range.                                  *)
MergesSurviveEdits ==
  [][mtEdits' # mtEdits =>
       \A f \in FieldsOf(mtFields) : \A p \in Spans(mtRows, f) :
         LET left == {mtRows[i].id : i \in p[1]..p[2]} \cap IdsOf(mtRows') IN
         Cardinality(left) > 1 =>
           \E q \in Spans(mtRows', f) : left \subseteq {mtRows'[i].id : i \in q[1]..q[2]}]_mtVars
=============================================================================
