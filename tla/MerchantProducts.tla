-------------------------- MODULE MerchantProducts --------------------------
(***************************************************************************)
(* A supplier's workbook and the products of the platform                  *)
(* (MerchantReconciliationService.run): the worksheets with products are   *)
(* found and read, each product is matched with at most one product of the *)
(* platform, and the summary is written, with what differs marked.         *)
(*                                                                         *)
(* A worksheet is a grid of texts and the regions merged in it.  What is   *)
(* read from a text stays a function of it: the fixed field it names, the  *)
(* key of a product name, how alike two keys are, and what a cell means.   *)
(***************************************************************************)
EXTENDS Integers, Sequences, FiniteSets

CONSTANTS
    Books,          \* workbooks: sequences of worksheets, see Worksheet
    Payloads,       \* what a platform supplies: sequences of [id, entries], where
                    \* entries is the sequence of the [key, text] in a record
    NoId, PlatformId,    \* place -> the id of a record that has none
    Texts, Blank,   \* what a cell can hold, Blank among it
    Fields,         \* the fixed fields, these among them:
    NameField, CategoryField, UnitField, BrandField, SkuField,
    Auxiliary,      \* those of which a header has two at least
    NoField,
    FieldOf,        \* text -> the fixed field it names, or NoField
    PathField,      \* the parts of a header -> field, where they name one together
    Notes,          \* the texts that begin like a note
    FixedTitle, DynamicTitles,    \* the group headers of a summary
    Plain,          \* text -> text without case and spaces
    NameKey,        \* text -> the letters and digits of a product name
    Likeness,       \* name key -> name key -> 0 .. 100
    Reads,          \* field -> text -> the number, truth value or text it stands for
    Threshold,      \* from which two names are alike
    IdPlace         \* <<worksheet, row>> -> the place of its record id in their order

Region == [top : Nat \ {0}, left : Nat \ {0}, bottom : Nat \ {0}, right : Nat \ {0}]

Worksheet(w) ==
    /\ Len(w.cells) \in Nat /\ w.width \in Nat
    /\ w.cells \in [1 .. Len(w.cells) -> [1 .. w.width -> Texts]]
    /\ w.merges \subseteq Region

IsList(s) == Len(s) \in Nat /\ DOMAIN s = 1 .. Len(s)

MerchantAssumption ==
    /\ \A b \in Books :
          /\ \A k \in DOMAIN b : Worksheet(b[k])
          /\ \A k, l \in DOMAIN b : b[k].title = b[l].title => k = l
    /\ \A p \in Payloads :
          /\ IsList(p)
          /\ \A j \in DOMAIN p :
                IsList(p[j].entries) /\ \A i \in DOMAIN p[j].entries : p[j].entries[i].text \in Texts
    /\ Threshold \in 0 .. 100
    /\ \A x, y \in Texts : Likeness[NameKey[x]][NameKey[y]] \in 0 .. 100
    /\ \A x, y \in DOMAIN IdPlace : IdPlace[x] \in Nat /\ (IdPlace[x] = IdPlace[y] => x = y)
    /\ NameField \in Fields /\ Blank \in Texts
ASSUME MerchantAssumption

VARIABLES
    mpStep,
    mpBook,
    mpPlatform,      \* the products of the platform: a sequence of [id, fixed]
    mpProducts,      \* <<worksheet, row>> -> field -> text
    mpTodo,          \* the products not yet looked at
    mpMatch,         \* product -> the platform record it is matched with
    mpAmbiguous,     \* the products with two candidates alike
    mpRows,          \* product -> its row of the summary
    mpAdded,         \* the platform records added below
    mpIssues,
    mpComments       \* <<product, field>> of a marked cell -> the issue its comment tells of

mpVars == <<mpStep, mpBook, mpPlatform, mpProducts, mpTodo, mpMatch, mpAmbiguous, mpRows,
            mpAdded, mpIssues, mpComments>>

-----------------------------------------------------------------------------
(* A worksheet: cells[row][column], and the regions merged.                *)

Greatest(T) == CHOOSE x \in T : \A y \in T : y <= x
Least(T) == CHOOSE x \in T : \A y \in T : x <= y
Smaller(x, y) == IF x < y THEN x ELSE y

FilledCells(w) == {at \in (DOMAIN w.cells) \X (1 .. w.width) : w.cells[at[1]][at[2]] # Blank}
LastRow(w) == Greatest({0} \cup {at[1] : at \in FilledCells(w)})
LastColumn(w) == Greatest({0} \cup {at[2] : at \in FilledCells(w)})

Covers(m, r, c) == r \in m.top .. m.bottom /\ c \in m.left .. m.right

(* A cell of a region has the value of its first one. *)
ValueAt(w, r, c) ==
    IF \E m \in w.merges : Covers(m, r, c)
    THEN LET m == CHOOSE m \in w.merges : Covers(m, r, c) IN w.cells[m.top][m.left]
    ELSE w.cells[r][c]

FieldsIn(w, r) == {FieldOf[ValueAt(w, r, c)] : c \in 1 .. LastColumn(w)} \ {NoField}

HeaderScore(w, r) ==
    Cardinality(FieldsIn(w, r)) * 100
    + Smaller(Cardinality({c \in 1 .. LastColumn(w) : ValueAt(w, r, c) # Blank}), 99)

HeaderRows(w) ==
    {r \in 1 .. LastRow(w) : /\ r <= 20
                             /\ NameField \in FieldsIn(w, r)
                             /\ Cardinality(FieldsIn(w, r) \cap Auxiliary) >= 2}

FirstHighest(score) == Least({r \in DOMAIN score : \A q \in DOMAIN score : score[q] <= score[r]})

HeaderRow(w) == FirstHighest([r \in HeaderRows(w) |-> HeaderScore(w, r)])

(* How many rows a region of the header makes of it. *)
DepthOf(w, m, first) ==
    LET below == {c \in m.left .. m.right : c <= LastColumn(w) /\ w.cells[first + 1][c] # Blank}
    IN  IF m.bottom > first THEN (IF m.bottom - first < 2 THEN 2 ELSE 3)
        ELSE IF m.right > m.left /\ first < LastRow(w) /\ Cardinality(below) >= 2 THEN 2 ELSE 1

HeaderDepth(w, first) ==
    Smaller(Greatest({1} \cup {DepthOf(w, m, first) :
                      m \in {n \in w.merges : n.top = first /\ n.left <= LastColumn(w)}}),
           LastRow(w) - first + 1)

(* flatten_headers: the texts above one another, without repetitions. *)
PartsOf(text) ==
    LET Kept(i) == /\ text[i] # Blank
                   /\ \A h \in 1 .. i - 1 :
                        text[h] # Blank /\ (\A g \in h + 1 .. i - 1 : text[g] = Blank)
                        => Plain[text[h]] # Plain[text[i]]
        places == SelectSeq([i \in DOMAIN text |-> i], Kept)
    IN  [n \in DOMAIN places |-> text[places[n]]]

HeaderParts(w, first, depth, c) == PartsOf([i \in 1 .. depth |-> ValueAt(w, first + i - 1, c)])

(* match_fixed_field: the header as a whole, or else its last part that names one. *)
FieldNamed(parts) ==
    LET naming == {i \in DOMAIN parts : FieldOf[parts[i]] # NoField}
    IN  IF parts \in DOMAIN PathField THEN PathField[parts]
        ELSE IF naming = {} THEN NoField ELSE FieldOf[parts[Greatest(naming)]]

IsSummary(w) ==
    LET top == {w.cells[r][c] : r \in 1 .. Smaller(LastRow(w), 4),
                                c \in 1 .. Smaller(LastColumn(w), 80)}
    IN  FixedTitle \in top /\ top \cap DynamicTitles # {}

HasProducts(w) ==
    /\ w.visible /\ LastRow(w) >= 2 /\ LastColumn(w) >= 2
    /\ ~IsSummary(w) /\ HeaderRows(w) # {}

(* _is_note_or_empty_row looks at the row's own cells. *)
IsNote(w, r) ==
    LET own == {c \in 1 .. LastColumn(w) : w.cells[r][c] # Blank}
        wide == IF LastColumn(w) \div 2 < 4 THEN 4 ELSE LastColumn(w) \div 2
    IN  \/ own = {}
        \/ /\ Cardinality(own) = 1
           /\ \/ \E c \in own : w.cells[r][c] \in Notes
              \/ \E m \in w.merges : r \in m.top .. m.bottom /\ m.right - m.left + 1 >= wide

(* extract_merchant_records: the first column of a field has it, and a row *)
(* without a name is none.                                                 *)
FieldAt(w, r, columns) == IF columns = {} THEN Blank ELSE ValueAt(w, r, Least(columns))

RowsRead(w, below, fields) ==
    [r \in below |-> [f \in Fields |-> FieldAt(w, r, {c \in DOMAIN fields : fields[c] = f})]]

NamedRows(rows) == [r \in {q \in DOMAIN rows : rows[q][NameField] # Blank} |-> rows[r]]

ProductsUnder(w, first, depth) ==
    NamedRows(RowsRead(w,
        {r \in DOMAIN w.cells : r >= first + depth /\ r <= LastRow(w) /\ ~IsNote(w, r)},
        [c \in 1 .. LastColumn(w) |-> FieldNamed(HeaderParts(w, first, depth, c))]))

SheetProducts(w) == ProductsUnder(w, HeaderRow(w), HeaderDepth(w, HeaderRow(w)))

Together(sheets) ==
    [at \in UNION {{k} \X (DOMAIN sheets[k]) : k \in DOMAIN sheets} |-> sheets[at[1]][at[2]]]

ProductsOf(b) == Together([k \in {k \in DOMAIN b : HasProducts(b[k])} |-> SheetProducts(b[k])])

-----------------------------------------------------------------------------
(* FixturePlatformProductSource: what the last key of a field says.        *)

RecordAt(p, j) ==
    [id    |-> IF p[j].id = NoId THEN PlatformId[j] ELSE p[j].id,
     fixed |-> [f \in Fields |->
                  LET said == {i \in DOMAIN p[j].entries : FieldOf[p[j].entries[i].key] = f}
                  IN  IF said = {} THEN Blank ELSE p[j].entries[Greatest(said)].text]]

-----------------------------------------------------------------------------
(* match_products                                                          *)

Score(m, j) ==
    LET x == NameKey[mpProducts[m][NameField]] y == NameKey[mpPlatform[j].fixed[NameField]]
    IN  IF x = y THEN 100 ELSE Likeness[x][y]

Shares(m, j, f) ==
    IF mpProducts[m][f] # Blank /\ Plain[mpProducts[m][f]] = Plain[mpPlatform[j].fixed[f]]
    THEN 1 ELSE 0

(* The score, then what speaks for the pair besides the name. *)
Strength(m, j) ==
    16 * Score(m, j) + 8 * Shares(m, j, SkuField) + 4 * Shares(m, j, BrandField)
    + 2 * Shares(m, j, CategoryField) + Shares(m, j, UnitField)

Candidates(m) == {j \in DOMAIN mpPlatform : Score(m, j) >= Threshold}

Strongest(m, T) == {j \in T : \A k \in T : Strength(m, k) <= Strength(m, j)}

(* The product with the strongest candidate is looked at first. *)
Top(m) == Greatest({-1} \cup {Strength(m, j) : j \in Candidates(m)})

(* Slip: in the order of the workbook. *)
SlipAhead(m, n) == IdPlace[m] <= IdPlace[n]

Ahead(m, n) ==
    LET ours == Top(m) others == Top(n)
    IN  ours > others \/ (ours = others /\ IdPlace[m] <= IdPlace[n])

UsedIds == {mpPlatform[mpMatch[m]].id : m \in DOMAIN mpMatch}

Untaken(m) == {j \in Candidates(m) : mpPlatform[j].id \notin UsedIds}

-----------------------------------------------------------------------------
(* reconcile_products                                                      *)

(* Of records with one id the last is meant. *)
RecordOf(m) ==
    Greatest({j \in DOMAIN mpPlatform : mpPlatform[j].id = mpPlatform[mpMatch[m]].id})

MergedFields(m, j) ==
    [f \in Fields |-> IF mpProducts[m][f] = Blank THEN mpPlatform[j].fixed[f] ELSE mpProducts[m][f]]

Differences(m, j) ==
    {f \in Fields \ {NameField} :
        /\ mpProducts[m][f] # Blank /\ mpPlatform[j].fixed[f] # Blank
        /\ Reads[f][mpProducts[m][f]] # Reads[f][mpPlatform[j].fixed[f]]}

OutputOf(m) ==
    IF m \in DOMAIN mpMatch
    THEN [status |-> "matched", fixed |-> MergedFields(m, RecordOf(m)), record |-> RecordOf(m),
          marked |-> Differences(m, RecordOf(m))]
    ELSE [status |-> IF m \in mpAmbiguous THEN "ambiguous" ELSE "merchant_only",
          fixed |-> mpProducts[m], record |-> 0, marked |-> {}]

Unmatched == {j \in DOMAIN mpPlatform : mpPlatform[j].id \notin UsedIds}

Mismatch(m, f) ==
    [sheet |-> mpBook[m[1]].title, row |-> m[2], field |-> f, ours |-> mpProducts[m][f],
     theirs |-> mpPlatform[RecordOf(m)].fixed[f]]

Mismatches == UNION {{Mismatch(m, f) : f \in Differences(m, RecordOf(m))} : m \in DOMAIN mpMatch}

-----------------------------------------------------------------------------
(* The run; where it looks whether it is cancelled, and every failure,     *)
(* end it.                                                                 *)

StopRun(why) == mpStep' = why /\ UNCHANGED <<mpBook, mpPlatform, mpProducts, mpTodo, mpMatch,
                                             mpAmbiguous, mpRows, mpAdded, mpIssues, mpComments>>

TakeProducts(b, found) ==
    IF DOMAIN found = {} THEN StopRun("failed")
    ELSE /\ mpBook' = b
         /\ mpProducts' = found
         /\ mpTodo' = DOMAIN found
         /\ mpStep' = "load"
         /\ UNCHANGED <<mpPlatform, mpMatch, mpAmbiguous, mpRows, mpAdded, mpIssues, mpComments>>

ReadProducts == mpStep = "read" /\ \E b \in Books : TakeProducts(b, ProductsOf(b))

(* Without a platform the products are listed as they are. *)
ListProducts ==
    /\ mpStep = "load"
    /\ mpRows' = [m \in DOMAIN mpProducts |->
                    [status |-> "source_only", fixed |-> mpProducts[m], record |-> 0, marked |-> {}]]
    /\ mpStep' = "write"
    /\ UNCHANGED <<mpBook, mpPlatform, mpProducts, mpTodo, mpMatch, mpAmbiguous, mpAdded,
                   mpIssues, mpComments>>

LoadPlatform ==
    /\ mpStep = "load"
    /\ \E p \in Payloads :
          IF \E j \in DOMAIN p : RecordAt(p, j).fixed[NameField] = Blank
          THEN StopRun("failed")
          ELSE /\ mpPlatform' = [j \in DOMAIN p |-> RecordAt(p, j)]
               /\ mpStep' = "match"
               /\ UNCHANGED <<mpBook, mpProducts, mpTodo, mpMatch, mpAmbiguous, mpRows, mpAdded,
                              mpIssues, mpComments>>

(* Slip: of candidates alike the first is taken. *)
SlipMatchProduct ==
    /\ mpStep = "match"
    /\ \E m \in mpTodo :
          /\ \A n \in mpTodo : Ahead(m, n)
          /\ mpTodo' = mpTodo \ {m}
          /\ IF Candidates(m) = {} THEN UNCHANGED mpMatch
             ELSE mpMatch' = [n \in DOMAIN mpMatch \cup {m} |->
                                IF n = m THEN CHOOSE j \in Candidates(m) : TRUE ELSE mpMatch[n]]
    /\ UNCHANGED <<mpStep, mpBook, mpPlatform, mpProducts, mpRows, mpAdded, mpIssues, mpComments,
                   mpAmbiguous>>

MatchProduct ==
    /\ mpStep = "match"
    /\ \E m \in mpTodo :
          /\ \A n \in mpTodo : Ahead(m, n)
          /\ mpTodo' = mpTodo \ {m}
          /\ LET best == Strongest(m, Untaken(m))
             IN  CASE Cardinality(best) = 1 ->
                        /\ mpMatch' = [n \in DOMAIN mpMatch \cup {m} |->
                                        IF n = m THEN CHOOSE j \in best : TRUE ELSE mpMatch[n]]
                        /\ UNCHANGED mpAmbiguous
                   [] Cardinality(best) > 1 ->
                        mpAmbiguous' = mpAmbiguous \cup {m} /\ UNCHANGED mpMatch
                   [] OTHER -> UNCHANGED <<mpMatch, mpAmbiguous>>
    /\ UNCHANGED <<mpStep, mpBook, mpPlatform, mpProducts, mpRows, mpAdded, mpIssues, mpComments>>

ReconcileProducts ==
    /\ mpStep = "match" /\ mpTodo = {}
    /\ mpRows' = [m \in DOMAIN mpProducts |-> OutputOf(m)]
    /\ mpAdded' = Unmatched
    /\ mpIssues' = Mismatches
    /\ mpStep' = "write"
    /\ UNCHANGED <<mpBook, mpPlatform, mpProducts, mpTodo, mpMatch, mpAmbiguous, mpComments>>

(* Slip: the worksheet is left out. *)
SlipIssueFor(m, f) == CHOOSE i \in mpIssues : i.row = m[2] /\ i.field = f

(* _mismatch_lookup: the comment of a marked cell is that of the issue of  *)
(* its worksheet, row and field.                                           *)
IssueFor(m, f) ==
    CHOOSE i \in mpIssues : i.sheet = mpBook[m[1]].title /\ i.row = m[2] /\ i.field = f

WriteSummary ==
    /\ mpStep = "write"
    /\ mpComments' = [at \in {x \in (DOMAIN mpRows) \X Fields : x[2] \in mpRows[x[1]].marked} |->
                        IssueFor(at[1], at[2])]
    /\ mpStep' = "written"
    /\ UNCHANGED <<mpBook, mpPlatform, mpProducts, mpTodo, mpMatch, mpAmbiguous, mpRows, mpAdded,
                   mpIssues>>

LeaveRun == mpStep \in {"read", "load", "match", "write"} /\ StopRun("failed")

MerchantInit ==
    /\ mpStep = "read" /\ mpBook = <<>> /\ mpPlatform = <<>>
    /\ mpProducts = <<>> /\ mpTodo = {} /\ mpMatch = <<>> /\ mpAmbiguous = {}
    /\ mpRows = <<>> /\ mpAdded = {} /\ mpIssues = {} /\ mpComments = <<>>

MerchantNext ==
    \/ ReadProducts \/ ListProducts \/ LoadPlatform \/ MatchProduct
    \/ ReconcileProducts \/ WriteSummary \/ LeaveRun

MerchantSpec == MerchantInit /\ [][MerchantNext]_mpVars

-----------------------------------------------------------------------------
(* Properties.                                                             *)

(* No product of the platform is lost or there twice: one with an id of    *)
(* its own is in the row of one product or added below, not both.  And     *)
(* none is overlooked: no product without a match and none that was added  *)
(* are alike, whatever was taken by others or left as ambiguous.           *)
NoProductLost ==
    mpStep = "written" =>
    /\ \A j \in DOMAIN mpPlatform :
         (\A k \in DOMAIN mpPlatform : mpPlatform[k].id = mpPlatform[j].id => k = j) =>
         \/ j \in mpAdded /\ \A m \in DOMAIN mpRows : mpRows[m].record # j
         \/ /\ j \notin mpAdded
            /\ \E m \in DOMAIN mpRows : \A n \in DOMAIN mpRows : mpRows[n].record = j <=> n = m
    /\ \A m \in DOMAIN mpRows : \A j \in mpAdded :
         mpRows[m].status = "merchant_only" => Score(m, j) < Threshold

(* Where no two names fit one name fully, a product and the product of the *)
(* platform that fit each other are matched, however alike others are.     *)
Unmistakable ==
    /\ \A j, k \in DOMAIN mpPlatform : mpPlatform[j].id = mpPlatform[k].id => j = k
    /\ \A m, n \in DOMAIN mpProducts : \A j, k \in DOMAIN mpPlatform :
         Score(m, j) = 100 /\ Score(n, k) = 100 => (m = n <=> j = k)

ExactNamesMeet ==
    mpStep = "written" /\ Unmistakable =>
    \A m \in DOMAIN mpProducts : \A j \in DOMAIN mpPlatform :
        Score(m, j) = 100 => mpRows[m].record = j

(* A cell is marked just when supplier and platform say different things,  *)
(* it keeps what the supplier says, and its comment tells both; a cell the *)
(* supplier left empty has what the platform says.                         *)
MarksTellTheirRow ==
    mpStep = "written" =>
    \A m \in DOMAIN mpRows : mpRows[m].status = "matched" => \A f \in Fields :
        LET ours == mpProducts[m][f] theirs == mpPlatform[mpRows[m].record].fixed[f]
        IN  /\ mpRows[m].fixed[f] = IF ours = Blank THEN theirs ELSE ours
            /\ <<m, f>> \in DOMAIN mpComments <=>
                 f # NameField /\ Blank \notin {ours, theirs} /\ Reads[f][ours] # Reads[f][theirs]
            /\ <<m, f>> \in DOMAIN mpComments =>
                 mpComments[<<m, f>>].ours = ours /\ mpComments[<<m, f>>].theirs = theirs
=============================================================================
