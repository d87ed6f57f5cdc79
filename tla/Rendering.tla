------------------------------- MODULE Rendering -------------------------------
(***************************************************************************)
(* How the result of a job becomes a workbook: the manifest of operations  *)
(* (service._manifest), the order in which the renderer carries them out   *)
(* and what each does to the cells, the comments and what refers to them,  *)
(* and the worksheets it adds (services/excel_renderer/Program.cs).        *)
(*                                                                         *)
(* An input g is a workbook with what a comparison found in one worksheet  *)
(* of it, or with a product table:                                         *)
(*   book, last      the rule, the header row and the mapping of           *)
(*                   WorkbookHeaders; the last row                         *)
(*   findings        differences to be marked: the row, the column (0: the *)
(*                   whole row), RENDER_ACTION_PRIORITY, the message       *)
(*   sets, formats   the cells of set_cell and set_number_format repairs   *)
(*   fields, appends the set_field and the append_record repairs           *)
(*   notes           the comments of the worksheet, by cell                *)
(*   refs            what refers to cells of it: merges, formulas, names,  *)
(*                   links and the like (range), validations, widths of    *)
(*                   columns, the frozen split, tables and filters         *)
(*   styled, blocked its cells have styles; features no insertion survives *)
(*   sheets          the names of all worksheets                           *)
(*   products        the categories of a product table: the name, whether  *)
(*                   it has SKUs, whether it has lists of values           *)
(*   review          what the product table has for a person: rows, issues *)
(* A column is known by what it was: its number, or the field it is for.   *)
(***************************************************************************)
EXTENDS WorkbookHeaders

CONSTANTS
  Renderings,       \* the inputs
  MaxColumn,        \* XFD
  MaxRow            \* 1048576

VARIABLES
  rndInput,         \* the input
  rndStep,          \* how far the renderer is
  rndLeft,          \* the operations of the manifest not yet carried out
  rndGrid,          \* the columns of the worksheet, in their order
  rndCells,         \* value and fill of the cell of a column in a row
  rndNotes,         \* the comments: what was there and what the audit added
  rndRefs,          \* the references
  rndSheets         \* the worksheets of the workbook and what they hold

rndVars == <<rndInput, rndStep, rndLeft, rndGrid, rndCells, rndNotes, rndRefs, rndSheets>>

(* The rules are accepted ones; comments and references are in columns     *)
(* that are there, and a reference is known by its id.                     *)
ASSUME RenderingAssumption == \A g \in Renderings :
  /\ g.book \in Books /\ RuleAccepted(g.book)
  /\ \A p \in DOMAIN g.notes : p[1] \in DOMAIN g.book.rows[1] /\ p = <<p[1], p[2]>>
  /\ \A ref \in g.refs :
       /\ ref = [id |-> ref.id, kind |-> ref.kind, from |-> ref.from, to |-> ref.to,
                 top |-> ref.top, bottom |-> ref.bottom, names |-> ref.names]
       /\ ref.from \in DOMAIN g.book.rows[1] /\ ref.to \in DOMAIN g.book.rows[1] /\ ref.from <= ref.to
       /\ \A other \in g.refs : other.id = ref.id => other = ref

HeaderRow == 1
NoFill == 0
Green == 5        \* colors.inserted; below are the colours of the marks

MappedOf(g) == [c \in DOMAIN g.book.rows[1] |-> Mapping(g.book, g.book.rows[1], c)]
PlanOf(g) == Plan(g.book, MappedOf(g))
FinalOf(g) == Final(g.book, MappedOf(g), PlanOf(g))
Title(g, f) == g.book.words[f][1]

(***************************************************************************)
(* The manifest.  The findings of one cell become one mark with the        *)
(* gravest colour and all messages; the gravest marks come last.           *)
(***************************************************************************)
Operation(type, index, column, row, field, texts) ==
  [type |-> type, index |-> index, column |-> column, row |-> row, field |-> field, texts |-> texts]

FindingsAt(g, column, row) == {d \in g.findings : d.column = column /\ d.row = row}
Gravest(ds) == (CHOOSE d \in ds : \A e \in ds : e.gravity <= d.gravity).gravity

Marks(g) ==
  {LET ds == FindingsAt(g, d.column, d.row) IN
   Operation(IF d.column = 0 THEN "mark_row" ELSE "mark_cell", 2 * Gravest(ds) + (IF d.column = 0 THEN 1 ELSE 0),
      d.column, d.row, NoField, {e.text : e \in ds}) : d \in g.findings}

InsertOps(g) ==
  {Operation("insert_column", n, PlanOf(g)[n].before, HeaderRow, PlanOf(g)[n].field, {"inserted"}) : n \in DOMAIN PlanOf(g)}

RepairOps(g) ==
  {Operation("set_cell", 0, k[1], k[2], MappedOf(g)[k[1]].field, {"repaired"}) : k \in g.sets}
    \cup {Operation("set_number_format", 0, k[1], k[2], NoField, {"repaired"}) : k \in g.formats}
    \cup {Operation("set_cell_after_insert", 0, FinalOf(g)[d.field], d.row, d.field, {"repaired"}) : d \in g.fields}
    \cup {Operation("append_row", n, 0, g.appends[n], NoField, {"appended"}) : n \in DOMAIN g.appends}

SheetOps(g) ==
  IF g.products # <<>> THEN {Operation("add_or_replace_product_sheets", 0, 0, 0, NoField, {})}
  ELSE {Operation("add_or_replace_report_sheet", 0, 0, 0, NoField, {})}

OperationsOf(g) ==
  IF g.products # <<>> THEN SheetOps(g) ELSE Marks(g) \cup InsertOps(g) \cup RepairOps(g) \cup SheetOps(g)

(* ValidateManifest: a place that is not there, a row without values.      *)
ManifestRefused(g, o) ==
  \/ o.column > MaxColumn \/ o.row > MaxRow
  \/ o.type = "append_row" /\ (DOMAIN FinalOf(g) = {} \/ \E f \in DOMAIN FinalOf(g) : FinalOf(g)[f] > MaxColumn)

(***************************************************************************)
(* The order: marks and repairs of what was there, insertions from the     *)
(* right, repairs of what was inserted, new rows, worksheets; operations   *)
(* of one place in the order in any order.                                 *)
(***************************************************************************)
OperationPhase(o) ==
  CASE o.type \in {"mark_cell", "mark_row"} -> 0
    [] o.type \in {"set_number_format", "set_cell"} -> 1
    [] o.type = "insert_column" -> 2
    [] o.type = "set_cell_after_insert" -> 3
    [] o.type = "append_row" -> 4
    [] OTHER -> 5

FromRight(o) == IF o.type = "insert_column" THEN -o.column ELSE 0

ComesBefore(o, p) ==
  \/ OperationPhase(o) < OperationPhase(p)
  \/ OperationPhase(o) = OperationPhase(p) /\ FromRight(o) < FromRight(p)
  \/ OperationPhase(o) = OperationPhase(p) /\ FromRight(o) = FromRight(p) /\ o.index < p.index

IsNext(o) == \A p \in rndLeft : ~ComesBefore(p, o)

(***************************************************************************)
(* What an operation writes.  AddOrReplaceComment keeps the text that was  *)
(* there and adds to what the audit wrote.                                 *)
(***************************************************************************)
Noted(notes, at, texts) ==
  LET old == IF at \in DOMAIN notes THEN notes[at] ELSE [own |-> "", audit |-> {}] IN
  [p \in DOMAIN notes \cup {at} |-> IF p = at THEN [own |-> old.own, audit |-> old.audit \cup texts] ELSE notes[p]]

(* No room for the text, or shapes in the drawing of the comments.         *)
CannotNote(at) ==
  \/ "shapes" \in rndInput.blocked
  \/ at \in DOMAIN rndNotes /\ rndNotes[at].own = "full"

Written(cells, k, value, fill) == [cells EXCEPT ![k] = [value |-> value, fill |-> fill]]
Filled(cells, ks, fill) == [k \in DOMAIN cells |-> IF k \in ks THEN [cells[k] EXCEPT !.fill = fill] ELSE cells[k]]

(* SynchronizeTableHeaderName. *)
Renamed(ref, column, row, value) ==
  IF ref.kind = "table" /\ row = ref.top /\ column \in ref.from..ref.to
  THEN [ref EXCEPT !.names[column - ref.from + 1] = value] ELSE ref

(* ExtendStructuresForAppendedRow. *)
Extended(ref, row) ==
  IF ref.kind \in {"table", "filter", "validation"} /\ row = ref.bottom + 1 THEN [ref EXCEPT !.bottom = row] ELSE ref

(***************************************************************************)
(* An inserted column: ShiftRange moves and stretches; tables and filters  *)
(* also take a column at their edges; the split only stretches.            *)
(***************************************************************************)
SlipShifted(c, t) == IF c > t THEN c + 1 ELSE c     \* slip: what is at the new column stays
Shifted(c, t) == IF c >= t THEN c + 1 ELSE c
Unshifted(c, t) == IF c > t THEN c - 1 ELSE c

Stretches(ref, t) ==
  CASE ref.kind \in {"table", "filter"} -> t \in ref.from..(ref.to + 1)
    [] ref.kind = "split" -> t \in ref.from..ref.to
    [] OTHER -> t \in (ref.from + 1)..ref.to

(* A name that is there already gets a number. *)
NewName(ref, title) == IF \E n \in DOMAIN ref.names : ref.names[n] = title THEN "numbered" ELSE title

ShiftedRef(ref, t, title) ==
  IF ~Stretches(ref, t) THEN [ref EXCEPT !.from = Shifted(@, t), !.to = Shifted(@, t)]
  ELSE IF ref.kind # "table" THEN [ref EXCEPT !.to = @ + 1]
  ELSE LET n == t - ref.from IN
       [ref EXCEPT !.to = @ + 1,
                   !.names = SubSeq(@, 1, n) \o <<NewName(ref, title)>> \o SubSeq(@, n + 1, Len(@))]

(* EnsureInsertCanBeMaintained, and ShiftCellReference beyond XFD, which   *)
(* the dimension of the worksheet reaches first.                           *)
CannotInsert(t) ==
  \/ rndInput.blocked # {}
  \/ t <= Len(rndGrid) /\ Len(rndGrid) >= MaxColumn
  \/ \E ref \in rndRefs :
       /\ ref.kind \notin {"width", "split"} /\ ~(ref.kind \in {"table", "filter"} /\ Stretches(ref, t))
       /\ ref.to >= t /\ ref.to >= MaxColumn

WasThere(c) == c \in DOMAIN rndInput.book.rows[1]

(* FindNearestStyledCell, the left one of two.                             *)
NearestFill(t, r) ==
  LET styled == {c \in DOMAIN rndGrid :
        \/ rndInput.styled \/ ~WasThere(rndGrid[c]) \/ <<rndGrid[c], r>> \in rndInput.formats
        \/ rndCells[<<rndGrid[c], r>>].fill # NoFill}
      Far(c) == IF c < t THEN t - c ELSE c + 1 - t
      near == {c \in styled : \A d \in styled : Far(c) <= Far(d)} IN
  IF near = {} THEN NoFill
  ELSE rndCells[<<rndGrid[CHOOSE c \in near : \A d \in near : c <= d], r>>].fill

(***************************************************************************)
(* Worksheets.  A name is a word, how often -SKU is behind it, a number.   *)
(***************************************************************************)
Sheet(name, holds) == [name |-> name, holds |-> holds]
Replaced(sheets, name, holds) == {s \in sheets : s.name # name} \cup {Sheet(name, holds)}
Names(sheets) == {s.name : s \in sheets}

(* UniqueSheetName *)
UniqueName(name, used) ==
  LET Numbered(n) == <<name[1], name[2], n>> IN
  Numbered(CHOOSE n \in 0..Cardinality(used) :
             Numbered(n) \notin used /\ \A m \in 0..(n - 1) : Numbered(m) \in used)

Sku(name) == <<name[1], name[2] + 1, 0>>

(* A category has a worksheet of its name, and one for what is sold by     *)
(* specification.                                                          *)
WithCategory(at, n, category) ==
  LET sheets == Replaced(at.sheets, category.name, <<"category", n>>)
      used == at.used \cup {category.name}
      name == UniqueName(Sku(category.name), used) IN
  IF category.sku THEN [sheets |-> Replaced(sheets, name, <<"sku", n>>), used |-> used \cup {name}]
  ELSE [sheets |-> sheets, used |-> used]

(* EnsureProductValidationList: one hidden worksheet for the lists of      *)
(* allowed values, under a name no worksheet of the upload has.            *)
ListSheets(g, sheets) ==
  IF \E n \in DOMAIN g.products : g.products[n].lists
  THEN {Sheet(UniqueName(<<"lists", 0, 0>>, Names(sheets)), <<"lists", 0>>)} ELSE {}

(* AddProductSheets, AddProductReviewSheets. *)
ProductSheets(g, sheets) ==
  LET at[n \in 0..Len(g.products)] ==
        IF n = 0 THEN [sheets |-> sheets, used |-> Names(sheets)] ELSE WithCategory(at[n - 1], n, g.products[n])
      done == at[Len(g.products)] IN
  done.sheets \cup ListSheets(g, sheets)
              \cup {Sheet(UniqueName(<<w, 0, 0>>, done.used), <<w, 0>>) : w \in g.review}

ReportName == <<"report", 0, 0>>
MetadataName == <<"metadata", 0, 0>>

(***************************************************************************)
(* The renderer.                                                           *)
(***************************************************************************)
RndInit ==
  /\ rndInput \in Renderings
  /\ rndStep = "received" /\ rndLeft = {}
  /\ rndGrid = [c \in DOMAIN rndInput.book.rows[1] |-> c]
  /\ rndCells = [k \in (DOMAIN rndInput.book.rows[1]) \X (HeaderRow .. rndInput.last) |->
                   [value |-> IF k[2] = HeaderRow THEN rndInput.book.rows[1][k[1]] ELSE "read", fill |-> NoFill]]
  /\ rndNotes = rndInput.notes
  /\ rndRefs = rndInput.refs
  /\ rndSheets = {Sheet(n, <<"upload", 0>>) : n \in rndInput.sheets}

(* _manifest, ValidateManifest. *)
WriteManifest ==
  /\ rndStep = "received"
  /\ rndLeft' = OperationsOf(rndInput)
  /\ rndStep' = IF \E o \in rndLeft' : ManifestRefused(rndInput, o) THEN "failed" ELSE "rendering"
  /\ UNCHANGED <<rndInput, rndGrid, rndCells, rndNotes, rndRefs, rndSheets>>

NotePlace(o) == <<IF o.type \in {"mark_row", "append_row"} THEN 1 ELSE o.column, o.row>>

CannotDo(o) ==
  CASE o.type = "insert_column" -> CannotInsert(o.column)
    [] o.type \in {"add_or_replace_product_sheets", "add_or_replace_report_sheet"} -> FALSE
    [] OTHER -> CannotNote(NotePlace(o))

CarryOut(o, types) ==
  /\ rndStep = "rendering" /\ o.type \in types
  /\ IsNext(o) /\ ~CannotDo(o)
  /\ rndLeft' = rndLeft \ {o}

NoteIt(o) == rndNotes' = Noted(rndNotes, NotePlace(o), o.texts)

(* One operation that cannot be done: the file is thrown away.             *)
FailOperation(o) ==
  /\ rndStep = "rendering" /\ IsNext(o) /\ CannotDo(o)
  /\ rndStep' = "failed"
  /\ UNCHANGED <<rndInput, rndLeft, rndGrid, rndCells, rndNotes, rndRefs, rndSheets>>

(* The colour of a mark is that of its gravity. *)
ApplyMark(o) ==
  /\ CarryOut(o, {"mark_cell", "mark_row"})
  /\ LET columns == IF o.type = "mark_row" THEN DOMAIN rndGrid ELSE {o.column} IN
     rndCells' = Filled(rndCells, {<<rndGrid[c], o.row>> : c \in columns}, o.index \div 2)
  /\ NoteIt(o)
  /\ UNCHANGED <<rndInput, rndStep, rndGrid, rndRefs, rndSheets>>

(* A value of the header row is the title a confirmed alias is renamed to. *)
ApplySetCell(o) ==
  /\ CarryOut(o, {"set_cell", "set_cell_after_insert"})
  /\ LET value == IF o.row = HeaderRow THEN Title(rndInput, o.field) ELSE "repaired" IN
     /\ rndCells' = Written(rndCells, <<rndGrid[o.column], o.row>>, value, Green)
     /\ rndRefs' = {Renamed(ref, o.column, o.row, value) : ref \in rndRefs}
  /\ NoteIt(o)
  /\ UNCHANGED <<rndInput, rndStep, rndGrid, rndSheets>>

ApplyNumberFormat(o) ==
  /\ CarryOut(o, {"set_number_format"})
  /\ NoteIt(o)
  /\ UNCHANGED <<rndInput, rndStep, rndGrid, rndCells, rndRefs, rndSheets>>

(* InsertColumn: cells, comments and references are moved one after the    *)
(* other, each by its own rule.                                            *)
InsertBefore(o) ==
  /\ CarryOut(o, {"insert_column"})
  /\ LET t == o.column title == Title(rndInput, o.field)
         moved == {<<Shifted(p[1], t), p[2]>> : p \in DOMAIN rndNotes} IN
     /\ rndGrid' = SubSeq(rndGrid, 1, t - 1) \o <<o.field>> \o SubSeq(rndGrid, t, Len(rndGrid))
     /\ rndCells' = [k \in DOMAIN rndCells \cup ({o.field} \X (HeaderRow .. rndInput.last)) |->
          IF k[1] # o.field THEN rndCells[k]
          ELSE IF k[2] = HeaderRow THEN [value |-> title, fill |-> Green]
          ELSE [value |-> "blank", fill |-> NearestFill(t, k[2])]]
     /\ rndNotes' = Noted([p \in moved |-> rndNotes[<<Unshifted(p[1], t), p[2]>>]], <<t, HeaderRow>>, o.texts)
     /\ rndRefs' = {ShiftedRef(ref, t, title) : ref \in rndRefs}
  /\ UNCHANGED <<rndInput, rndStep, rndSheets>>

AppendRow(o) ==
  /\ CarryOut(o, {"append_row"})
  /\ LET final == FinalOf(rndInput)
         written == {<<rndGrid[final[f]], o.row>> : f \in DOMAIN final} IN
     /\ rndCells' = [k \in DOMAIN rndCells \cup written |->
          IF k \in written THEN [value |-> "appended", fill |-> Green] ELSE rndCells[k]]
     /\ rndRefs' = {Extended(ref, o.row) : ref \in rndRefs}
  /\ NoteIt(o)
  /\ UNCHANGED <<rndInput, rndStep, rndGrid, rndSheets>>

AddSheets(o) ==
  /\ CarryOut(o, {"add_or_replace_product_sheets", "add_or_replace_report_sheet"})
  /\ rndSheets' = IF o.type = "add_or_replace_product_sheets" THEN ProductSheets(rndInput, rndSheets)
                  ELSE Replaced(rndSheets, ReportName, <<"report", 0>>)
  /\ UNCHANGED <<rndInput, rndStep, rndGrid, rndCells, rndNotes, rndRefs>>

(* AddMetadataSheet; the result is verified before it takes its name.      *)
FinishResult ==
  /\ rndStep = "rendering" /\ rndLeft = {}
  /\ rndSheets' = Replaced(rndSheets, MetadataName, <<"metadata", 0>>)
  /\ rndStep' = "rendered"
  /\ UNCHANGED <<rndInput, rndLeft, rndGrid, rndCells, rndNotes, rndRefs>>

RndNext ==
  \/ WriteManifest \/ FinishResult
  \/ \E o \in rndLeft :
       \/ FailOperation(o) \/ ApplyMark(o) \/ ApplySetCell(o) \/ ApplyNumberFormat(o)
       \/ InsertBefore(o) \/ AppendRow(o) \/ AddSheets(o)

RndSpec == RndInit /\ [][RndNext]_rndVars

(***************************************************************************)
(* Properties                                                              *)
(***************************************************************************)
WantedValue(g, k) ==
  CASE k[2] > g.last -> "appended"
    [] k \in g.sets -> IF k[2] = HeaderRow THEN Title(g, MappedOf(g)[k[1]].field) ELSE "repaired"
    [] k[2] <= g.last /\ WasThere(k[1]) /\ k \notin g.sets ->
         IF k[2] = HeaderRow THEN g.book.rows[1][k[1]] ELSE "read"
    [] OTHER -> IF k[2] = HeaderRow THEN Title(g, k[1])
                ELSE IF [field |-> k[1], row |-> k[2]] \in g.fields THEN "repaired" ELSE "blank"

WantedFill(g, k) ==
  LET ds == FindingsAt(g, k[1], k[2]) \cup FindingsAt(g, 0, k[2]) IN
  IF WantedValue(g, k) \notin {"read", "blank"} /\ (k[2] # HeaderRow \/ k \in g.sets \/ ~WasThere(k[1])) THEN Green
  ELSE IF ds = {} THEN NoFill ELSE Gravest(ds)

WantedTexts(g, k) ==
  {d.text : d \in FindingsAt(g, k[1], k[2]) \cup (IF k[1] = 1 THEN FindingsAt(g, 0, k[2]) ELSE {})}
    \cup (IF k \in g.sets \cup g.formats \/ [field |-> k[1], row |-> k[2]] \in g.fields THEN {"repaired"} ELSE {})
    \cup (IF ~WasThere(k[1]) /\ k[2] = HeaderRow THEN {"inserted"} ELSE {})
    \cup (IF k[1] = rndGrid[1] /\ \E n \in DOMAIN g.appends : g.appends[n] = k[2] THEN {"appended"} ELSE {})

(* Every value, colour and message is in the cell it was found or planned  *)
(* for, wherever the insertions have moved it, and nothing else is: a cell *)
(* has the colour of the gravest finding on it or on its row, unless it    *)
(* was repaired; comments of users are kept and stay with their cells.     *)
CellsAsPlanned ==
  LET g == rndInput IN
  /\ \A k \in DOMAIN rndCells : rndCells[k].value = WantedValue(g, k)
  /\ \A k \in DOMAIN rndCells : (WasThere(k[1]) \/ rndCells[k].value # "blank") => rndCells[k].fill = WantedFill(g, k)
  /\ \A c \in DOMAIN rndGrid, r \in HeaderRow .. MaxRow :
       LET k == <<rndGrid[c], r>>
           was == IF k \in DOMAIN g.notes THEN g.notes[k] ELSE [own |-> "", audit |-> {}] IN
       IF <<c, r>> \in DOMAIN rndNotes
       THEN rndNotes[<<c, r>>] = [was EXCEPT !.audit = @ \cup WantedTexts(g, k)]
       ELSE k \notin DOMAIN g.notes /\ WantedTexts(g, k) = {}
  /\ \A p \in DOMAIN rndNotes : p[1] \in DOMAIN rndGrid

(* The columns of a reference: it begins and ends with what it began and   *)
(* ended with, or for a table, a filter and the split it has the same ones *)
(* of the columns that were there.                                         *)
Follows(was, ref) ==
  /\ ref.id = was.id /\ ref.kind = was.kind /\ ref.top = was.top
  /\ IF ref.kind \in {"table", "filter", "split"}
     THEN \A c \in DOMAIN rndGrid : WasThere(rndGrid[c]) => (c \in ref.from .. ref.to <=> rndGrid[c] \in was.from .. was.to)
     ELSE rndGrid[ref.from] = was.from /\ rndGrid[ref.to] = was.to

(* A reference refers to the columns it referred to, however many columns  *)
(* were inserted before, in or behind it, and the names of a table are its *)
(* headers.  New rows that follow each other belong to what ended with the *)
(* last row.                                                               *)
ReferencesFollow ==
  \A was \in rndInput.refs : \E ref \in rndRefs :
    /\ Follows(was, ref)
    /\ ref.kind = "table" =>
         /\ Len(ref.names) = ref.to - ref.from + 1
         /\ \A n \in DOMAIN ref.names :
              ref.names[n] \in {"numbered", rndCells[<<rndGrid[ref.from + n - 1], ref.top>>].value}
    /\ (/\ ref.kind \in {"table", "filter", "validation"} /\ was.bottom = rndInput.last
        /\ \A n \in DOMAIN rndInput.appends : rndInput.appends[n] = rndInput.last + n)
         => ref.bottom = was.bottom + Len(rndInput.appends)

(* At every moment, and in a file that is thrown away too: no insertion    *)
(* takes a reference from its columns, and no comment of a user from its   *)
(* cell; each of the three is moved by a rule of its own.                  *)
NothingIsTornApart ==
  /\ \A was \in rndInput.refs : \E ref \in rndRefs : Follows(was, ref)
  /\ \A p \in DOMAIN rndInput.notes : \E c \in DOMAIN rndGrid :
       /\ rndGrid[c] = p[1] /\ <<c, p[2]>> \in DOMAIN rndNotes
       /\ rndNotes[<<c, p[2]>>].own = rndInput.notes[p].own

(* The result has the worksheets of the upload, but for those with the     *)
(* name of another, the report or the tables of all categories with their  *)
(* SKUs and what is left to a person, and no name twice.                   *)
SheetsAreThere ==
  LET g == rndInput
      has == {s.holds : s \in rndSheets}
      taken == {g.products[n].name : n \in DOMAIN g.products} \cup {MetadataName}
                 \cup (IF g.products = <<>> THEN {ReportName} ELSE {}) IN
  /\ \A s, t \in rndSheets : s.name = t.name => s = t
  /\ \A n \in g.sheets \ taken : Sheet(n, <<"upload", 0>>) \in rndSheets
  /\ <<"metadata", 0>> \in has
  /\ IF g.products = <<>> THEN <<"report", 0>> \in has
     ELSE \A n \in DOMAIN g.products :
            /\ Sheet(g.products[n].name, <<"category", n>>) \in rndSheets
            /\ g.products[n].sku /\ (\A m \in (n + 1) .. Len(g.products) : g.products[m].name # Sku(g.products[n].name))
                 => <<"sku", n>> \in has
  /\ g.products # <<>> => \A w \in g.review : <<w, 0>> \in has

(* A workbook that leaves the renderer is what the manifest says.          *)
RenderedAsPlanned == rndStep = "rendered" => CellsAsPlanned /\ ReferencesFollow /\ SheetsAreThere
=============================================================================
