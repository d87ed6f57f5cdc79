----------------------------- MODULE ProductTables -----------------------------
(***************************************************************************)
(* How a supplier's rows become one table for each platform category       *)
(* (product_workflow/normalizer.py, category.py, mapping.py,               *)
(* schema_builder.py), what is left for a person, and the revision made    *)
(* from the answers (ProductWorkflowService.rerun_after_reviews).          *)
(*                                                                         *)
(* A supply is a worksheet: its headers, and rows with a cell for every    *)
(* column.  A header or a name stands for itself; Token is what            *)
(* normalize_header and casefold leave of it, and Alike are the pairs of   *)
(* tokens that score at or above the threshold of the fuzzy comparison.    *)
(***************************************************************************)
EXTENDS Integers, Sequences, FiniteSets

LOCAL INSTANCE Functions

CONSTANTS
  Supplies,         \* the worksheets: [headers, rows]
  Token,            \* header or name -> token
  Alike,            \* pairs <<token, token>>
  FixedFields,      \* the columns of the rule
  Categories,       \* active platform categories
  PlatformFields,   \* category -> its attributes and specifications
  Specifications,   \* those that list options and span the SKU rows
  TokensOf,         \* field -> the tokens of its id, title and aliases
  CategoryTokens,   \* category -> the tokens of its name, aliases and path
  IdField, NameField, KeyField,   \* of the rule: category id, category, primary key
  Required, Unique, \* fields
  When,             \* conditional_required: <<field, value, field>>
  Unreadable, Unsafe,             \* values that do not parse; that Excel cannot hold
  Options,          \* how many options a value of a specification lists
  MaxSku,           \* max_sku_combinations_per_product
  MaxProductRuns    \* bound on the revisions of a behaviour

Absent == "-"       \* an empty cell
NoCategory == "none"

(* A catalog is finite, and an id is no empty cell; a value that Excel     *)
(* cannot hold is one that parsed.                                         *)
ASSUME ProductTablesAssumption ==
  /\ IsFiniteSet(Categories) /\ NoCategory \notin Categories
  /\ \A g \in Categories : IsFiniteSet(FixedFields \cup PlatformFields[g])
  /\ \A s \in Supplies : Len(s.headers) \in Nat /\ DOMAIN s.headers = 1 .. Len(s.headers)
  /\ Unsafe \cap Unreadable = {} /\ Absent \notin Unsafe \cup Unreadable

VARIABLES
  tabSupply, tabStep,
  tabRun,           \* revision_number
  tabAnswers,       \* what the run was given: category_overrides, aliases, extra columns
  tabFrozen,        \* categories whose schema the catalog has
  tabFixed,         \* fixed_mappings
  tabRows,          \* row -> CategoryResolution
  tabPlans,         \* category -> FieldMapping of every column
  tabIssues,
  tabReviews,       \* ReviewItems
  tabDecided        \* ReviewItem -> ProductReviewDecision

tabVars == <<tabSupply, tabStep, tabRun, tabAnswers, tabFrozen, tabFixed, tabRows, tabPlans,
             tabIssues, tabReviews, tabDecided>>

-----------------------------------------------------------------------------
(* map_product_headers.  `alias` and `extra` are what a person decided.    *)

(* The fields a header is the name of; a confirmed alias beats the names.  *)
Claimants(h, fields, given, c) ==
  LET told == {given.alias[r] : r \in {r \in DOMAIN given.alias : Token[r] = Token[h[c]]}} IN
  IF c \in given.extra THEN {}
  ELSE IF told # {} THEN told ELSE {f \in fields : Token[h[c]] \in TokensOf[f]}

Suggested(h, fields, given, c) ==
  IF c \in given.extra THEN {}
  ELSE {f \in fields : \E t \in TokensOf[f] : <<Token[h[c]], t>> \in Alike}

(* The first column of a field has it.                                     *)
SlipEarlier(h, fields, given, c) == FALSE      \* slip: whoever comes has it, too
Earlier(h, fields, given, c) ==
  \E d \in 1..(c - 1) : Claimants(h, fields, given, d) = Claimants(h, fields, given, c)

(* What several fields claim, or a name only resembles, is for a person.   *)
MapHeader(h, fields, given, c) ==
  LET own == Claimants(h, fields, given, c) like == Suggested(h, fields, given, c) IN
  IF Cardinality(own) = 1
  THEN [status |-> IF Earlier(h, fields, given, c) THEN "duplicate_header" ELSE "accepted", fields |-> own]
  ELSE IF own \cup like # {} THEN [status |-> "field_mapping", fields |-> IF own # {} THEN own ELSE like]
  ELSE [status |-> "unmapped", fields |-> {}]

MapHeaders(h, fields, given) == [c \in DOMAIN h |-> MapHeader(h, fields, given, c)]

(* Two aliases that are one after normalisation and name two fields.       *)
AliasClash(alias) == \E r, s \in DOMAIN alias : Token[r] = Token[s] /\ alias[r] # alias[s]

NothingGiven == [alias |-> <<>>, extra |-> {}]

ColumnsOfField(plan, f) == {c \in DOMAIN plan : plan[c].status = "accepted" /\ plan[c].fields = {f}}

(* The cell of a row a field takes, and the value written for it.          *)
CellOf(row, plan, f) ==
  LET at == ColumnsOfField(plan, f) IN IF at = {} THEN Absent ELSE row[CHOOSE c \in at : TRUE]

-----------------------------------------------------------------------------
(* resolve_categories                                                      *)

Owners(name) == {g \in Categories : name # Absent /\ Token[name] \in CategoryTokens[g]}
AlikeOwners(name) == {g \in Categories : \E t \in CategoryTokens[g] : <<Token[name], t>> \in Alike}

Settled(g) == [status |-> "resolved", category |-> g, candidates |-> {}]
Asked(gs) == [status |-> IF gs = {} THEN "unresolved" ELSE "manual_review",
              category |-> NoCategory, candidates |-> gs]

(* An id decides unless the name is another's; without an id one owner of  *)
(* the name does; nothing that only resembles a name does.                 *)
Resolution(id, name) ==
  LET own == Owners(name) IN
  IF id \in Categories THEN IF own \in {{}, {id}} THEN Settled(id) ELSE Asked({id} \cup own)
  ELSE IF name = Absent \/ id # Absent THEN Asked(own)
  ELSE IF Cardinality(own) = 1 THEN Settled(CHOOSE g \in own : TRUE)
  ELSE IF own # {} THEN Asked(own) ELSE Asked(AlikeOwners(name))

Grouped(rows) == {rows[n].category : n \in DOMAIN rows} \ {NoCategory}
RowsOf(rows, g) == {n \in DOMAIN rows : rows[n].category = g}

(* The schemas a run fetches: of the categories of rows, and of those it   *)
(* will ask about.                                                         *)
SchemasFor(rows) == Grouped(rows) \cup UNION {rows[n].candidates : n \in DOMAIN rows}

-----------------------------------------------------------------------------
(* The cells of a table, its SKU rows, and what is wrong with them.        *)

TableFields(g) == FixedFields \cup PlatformFields[g]
Issue(kind, n, g, f) == [kind |-> kind, row |-> n, category |-> g, field |-> f]

Placed(rows) == {n \in DOMAIN rows : rows[n].category # NoCategory}
TableCells(rows) == UNION {{<<n, f>> : f \in TableFields(rows[n].category)} : n \in Placed(rows)}

CellIssueKinds(v, f) ==
  IF v = Absent THEN IF f \in Required THEN {"required_missing"} ELSE {}
  ELSE IF v \in Unreadable THEN {"invalid_value"}
  ELSE IF v \in Unsafe /\ f \notin Specifications THEN {"excel_write_unsafe"} ELSE {}

CellIssues(supply, rows, plans) ==
  UNION {{Issue(k, x[1], rows[x[1]].category, x[2]) :
            k \in CellIssueKinds(CellOf(supply.rows[x[1]], plans[rows[x[1]].category], x[2]), x[2])} :
         x \in TableCells(rows)}

(* The product of the option sets of a row.                                *)
Combinations(supply, rows, plans, n) ==
  FoldFunction(LAMBDA x, y : x * y, 1,
               [f \in Specifications \cap PlatformFields[rows[n].category] |->
                  Options[CellOf(supply.rows[n], plans[rows[n].category], f)]])

SkuIssues(supply, rows, plans) ==
  {Issue("sku_combination_limit", n, rows[n].category, KeyField) :
     n \in {n \in Placed(rows) : Combinations(supply, rows, plans, n) > MaxSku}}

(* _record_quality_issues: fixed fields are unique over all categories,    *)
(* platform fields within theirs.                                          *)
SlipPeers(f, g, h) == g = h      \* slip: every table for itself
Peers(f, g, h) == f \in FixedFields \/ g = h

RecordIssues(supply, rows, plans) ==
  LET Of(n, f) == CellOf(supply.rows[n], plans[rows[n].category], f)
      valued == {x \in TableCells(rows) : Of(x[1], x[2]) \notin Unreadable \cup {Absent}}
      Twin(n, f) == \E m \in Placed(rows) \ {n} :
                      /\ Peers(f, rows[n].category, rows[m].category)
                      /\ <<m, f>> \in valued /\ Of(m, f) = Of(n, f)
  IN {Issue(IF x[2] = KeyField THEN "duplicate_primary_key" ELSE "unique_value", x[1], rows[x[1]].category, x[2]) :
        x \in {x \in valued : x[2] \in Unique \cup {KeyField} /\ Twin(x[1], x[2])}}
     \cup {Issue("cross_field_error", n, rows[n].category, When[3]) :
             n \in {n \in Placed(rows) : Of(n, When[1]) = When[2] /\ Of(n, When[3]) = Absent}}

-----------------------------------------------------------------------------
(* The run.                                                                *)

NoAnswers == [over |-> <<>>, given |-> [g \in Categories |-> NothingGiven]]

TabInit ==
  /\ tabSupply \in Supplies /\ tabStep = "received" /\ tabRun = 1
  /\ tabAnswers = NoAnswers /\ tabFrozen = Categories
  /\ tabFixed = <<>> /\ tabRows = <<>> /\ tabPlans = <<>>
  /\ tabIssues = {} /\ tabReviews = {} /\ tabDecided = <<>>

TabInput == <<tabSupply, tabRun, tabAnswers>>

(* The columns of the rule, without anyone's answers.                      *)
MapFixed ==
  /\ tabStep = "received"
  /\ tabFixed' = MapHeaders(tabSupply.headers, FixedFields, NothingGiven)
  /\ tabStep' = "mapped"
  /\ UNCHANGED <<tabFrozen, tabRows, tabPlans, tabIssues, tabReviews, tabDecided>> /\ UNCHANGED TabInput

(* Every row, or the category a person gave it.                            *)
ResolveCategories ==
  /\ tabStep = "mapped"
  /\ tabRows' = [n \in DOMAIN tabSupply.rows |->
       IF n \in DOMAIN tabAnswers.over THEN Settled(tabAnswers.over[n])
       ELSE Resolution(CellOf(tabSupply.rows[n], tabFixed, IdField), CellOf(tabSupply.rows[n], tabFixed, NameField))]
  /\ tabStep' = "resolved"
  /\ UNCHANGED <<tabFrozen, tabFixed, tabPlans, tabIssues, tabReviews, tabDecided>> /\ UNCHANGED TabInput

(* A schema that the frozen catalog lacks is a KeyError: the job fails.    *)
FetchSchemas ==
  /\ tabStep = "resolved"
  /\ IF SchemasFor(tabRows) \subseteq tabFrozen
     THEN tabFrozen' = SchemasFor(tabRows) /\ tabStep' = "fetched"
     ELSE tabStep' = "no_schema" /\ UNCHANGED tabFrozen
  /\ UNCHANGED <<tabFixed, tabRows, tabPlans, tabIssues, tabReviews, tabDecided>> /\ UNCHANGED TabInput

(* build_dynamic_schema for each category that has rows; what it cannot    *)
(* map by itself is a review of that category, as is every row without one. *)
Review(kind, g, at, candidates) == [kind |-> kind, category |-> g, at |-> at, candidates |-> candidates]

FieldReviews(plans) ==
  UNION {{Review(plans[g][c].status, g, c, IF plans[g][c].status = "duplicate_header" THEN {} ELSE plans[g][c].fields) :
            c \in {c \in DOMAIN plans[g] : plans[g][c].status \in {"field_mapping", "duplicate_header"}}} :
         g \in DOMAIN plans}

RowReviews(rows) ==
  {Review("category", NoCategory, n, rows[n].candidates) : n \in RowsOf(rows, NoCategory)}

PlanTables ==
  /\ tabStep = "fetched"
  /\ IF \E g \in Grouped(tabRows) : AliasClash(tabAnswers.given[g].alias)
     THEN tabStep' = "failed" /\ UNCHANGED <<tabPlans, tabReviews>>
     ELSE /\ tabPlans' = [g \in Grouped(tabRows) |->
                            MapHeaders(tabSupply.headers, TableFields(g), tabAnswers.given[g])]
          /\ tabReviews' = RowReviews(tabRows) \cup FieldReviews(tabPlans')
          /\ tabStep' = "planned"
  /\ tabDecided' = <<>>
  /\ UNCHANGED <<tabFrozen, tabFixed, tabRows, tabIssues>> /\ UNCHANGED TabInput

FillTables ==
  /\ tabStep = "planned"
  /\ tabIssues' = CellIssues(tabSupply, tabRows, tabPlans) \cup SkuIssues(tabSupply, tabRows, tabPlans)
  /\ tabStep' = "filled"
  /\ UNCHANGED <<tabFrozen, tabFixed, tabRows, tabPlans, tabReviews, tabDecided>> /\ UNCHANGED TabInput

Blocking == {"excel_write_unsafe", "sku_combination_limit"}

CheckRecords ==
  /\ tabStep = "filled"
  /\ tabIssues' = tabIssues \cup RecordIssues(tabSupply, tabRows, tabPlans)
  /\ tabStep' = IF tabReviews # {} \/ \E i \in tabIssues : i.kind \in Blocking THEN "manual_review" ELSE "completed"
  /\ UNCHANGED <<tabFrozen, tabFixed, tabRows, tabPlans, tabReviews, tabDecided>> /\ UNCHANGED TabInput

(* _validate_review_decision: one of the recorded candidates, or the       *)
(* column as it is.  The reviews are decided in any order (ProductReviews  *)
(* has that): here all at once.                                            *)
Verdicts(r) == r.candidates \cup (IF r.kind = "category" THEN {} ELSE {"keep_extra"})

Decisions(reviews) ==
  {d \in [reviews -> UNION {Verdicts(r) : r \in reviews}] : \A r \in reviews : d[r] \in Verdicts(r)}

Decide ==
  /\ tabStep = "manual_review" /\ tabReviews # {} /\ tabRun < MaxProductRuns
  /\ tabDecided' \in Decisions(tabReviews)
  /\ tabStep' = "review_resolved"
  /\ UNCHANGED <<tabFrozen, tabFixed, tabRows, tabPlans, tabIssues, tabReviews>> /\ UNCHANGED TabInput

(* A rejected review must be corrected in the worksheet: no revision.      *)
Reject ==
  /\ tabStep = "manual_review" /\ tabReviews # {}
  /\ tabStep' = "rejected"
  /\ UNCHANGED <<tabFrozen, tabFixed, tabRows, tabPlans, tabIssues, tabReviews, tabDecided>> /\ UNCHANGED TabInput

(* What the decisions of this revision, and of no earlier one, tell the    *)
(* next.  One raw header has one alias: the last decision's.               *)
RowVerdicts(decided) == {r \in DOMAIN decided : r.kind = "category"}
KeptExtra(decided, g) == {r \in DOMAIN decided : r.category = g /\ decided[r] = "keep_extra"}
MappedIn(decided, g) ==
  {r \in DOMAIN decided : r.kind = "field_mapping" /\ r.category = g /\ decided[r] # "keep_extra"}
LastOn(h, reviews, w) ==
  CHOOSE r \in reviews : h[r.at] = w /\ \A s \in reviews : h[s.at] = w => s.at <= r.at

AnswersOf(h, decided) ==
  [over |-> [n \in {r.at : r \in RowVerdicts(decided)} |->
               decided[CHOOSE r \in RowVerdicts(decided) : r.at = n]],
   given |-> [g \in Categories |->
                [extra |-> {r.at : r \in KeptExtra(decided, g)},
                 alias |-> [w \in {h[r.at] : r \in MappedIn(decided, g)} |->
                              decided[LastOn(h, MappedIn(decided, g), w)]]]]]

SlipReviseAnswers(h, decided) ==   \* slip: a column kept as it is is kept in every category
  LET a == AnswersOf(h, decided) IN
  [a EXCEPT !.given = [g \in Categories |-> [a.given[g] EXCEPT !.extra = UNION {a.given[k].extra : k \in Categories}]]]
ReviseAnswers(h, decided) == AnswersOf(h, decided)

Revise ==
  /\ tabStep = "review_resolved"
  /\ tabRun' = tabRun + 1
  /\ tabAnswers' = ReviseAnswers(tabSupply.headers, tabDecided)
  /\ tabStep' = "received" /\ tabIssues' = {}
  /\ UNCHANGED <<tabSupply, tabFrozen, tabFixed, tabRows, tabPlans, tabReviews, tabDecided>>

TabNext ==
  \/ MapFixed \/ ResolveCategories \/ FetchSchemas \/ PlanTables \/ FillTables \/ CheckRecords
  \/ Decide \/ Reject \/ Revise

TabSpec == TabInit /\ [][TabNext]_tabVars

(***************************************************************************)
(* Properties                                                              *)
(***************************************************************************)

Reviewed == tabStep \in {"manual_review", "completed"}

(* Nothing a supplier sent is lost on the way to the tables: every row is  *)
(* in the table of one category or is a review, and in every table each    *)
(* field takes at most one column, while a column that is not taken by a   *)
(* field of its name, or of a person's choice, is a review of that table,  *)
(* unless it resembles no field or is kept as it is.                       *)
NothingIsDropped ==
  Reviewed =>
    /\ \A n \in DOMAIN tabSupply.rows :
         (n \in Placed(tabRows) /\ tabRows[n].category \in DOMAIN tabPlans)
            # (\E r \in tabReviews : r.kind = "category" /\ r.at = n)
    /\ \A g \in DOMAIN tabPlans :
         LET plan == tabPlans[g] h == tabSupply.headers given == tabAnswers.given[g] IN
         /\ \A f \in TableFields(g) : Cardinality(ColumnsOfField(plan, f)) <= 1
         /\ \A c \in DOMAIN h :
              \/ \E r \in tabReviews : r.category = g /\ r.at = c
              \/ \E f \in TableFields(g) :
                   /\ c \in ColumnsOfField(plan, f)
                   /\ \/ Token[h[c]] \in TokensOf[f]
                      \/ \E w \in DOMAIN given.alias : Token[w] = Token[h[c]] /\ given.alias[w] = f
              \/ c \in given.extra
              \/ \A f \in TableFields(g) : \A t \in TokensOf[f] : t # Token[h[c]] /\ <<Token[h[c]], t>> \notin Alike

(* What is completed without a review is settled: every row has a category *)
(* that its id and its name agree on or a person gave it, no cell is one   *)
(* that Excel cannot hold, and no row has more SKU rows than allowed.      *)
(* Where no issue is listed either, the tables together hold every key     *)
(* once, each field that must be unique once where it must be, and every   *)
(* required value.                                                         *)
CompletedIsSettled ==
  tabStep = "completed" =>
    LET Of(n, f) == CellOf(tabSupply.rows[n], tabPlans[tabRows[n].category], f) IN
    /\ \A n \in DOMAIN tabSupply.rows :
         LET id == CellOf(tabSupply.rows[n], tabFixed, IdField) g == tabRows[n].category IN
         \/ n \in DOMAIN tabAnswers.over
         \/ /\ g \in Categories /\ id \in {Absent, g}
            /\ Owners(CellOf(tabSupply.rows[n], tabFixed, NameField)) \subseteq {g}
    /\ \A x \in TableCells(tabRows) : Of(x[1], x[2]) \in Unsafe => x[2] \in Specifications
    /\ \A n \in Placed(tabRows) : ~(Combinations(tabSupply, tabRows, tabPlans, n) > MaxSku)
    /\ tabIssues = {} =>
         \A x, y \in TableCells(tabRows) :
           /\ x[2] \in Required => Of(x[1], x[2]) # Absent
           /\ Of(x[1], x[2]) \notin Unreadable
           /\ (/\ x # y /\ x[2] = y[2] /\ x[2] \in Unique \cup {KeyField}
               /\ x[2] \in FixedFields \/ tabRows[x[1]].category = tabRows[y[1]].category)
               => Of(x[1], x[2]) # Of(y[1], y[2]) \/ Of(x[1], x[2]) = Absent

(* A revision does what a person decided: the row is in the category, the  *)
(* column is kept or is the field's, unless another column is, which is    *)
(* asked; and a column that nobody decided on in a category and that has a *)
(* field's name there stays that field's, whatever was decided in another  *)
(* category.  Two columns of one header decided differently are left out:  *)
(* the code knows one alias of a header.                                   *)
Undisputed(r, decided) ==
  \A s \in DOMAIN decided :
    (s.kind = "field_mapping" /\ s.category = r.category /\ decided[s] # "keep_extra"
       /\ Token[tabSupply.headers[s.at]] = Token[tabSupply.headers[r.at]]) => decided[s] = decided[r]

AnswersAreFollowed ==
  [][tabStep = "fetched" /\ tabStep' = "planned" /\ tabRun > 1 =>
       /\ \A r \in tabReviews :
            LET plan == tabPlans'[r.category] d == tabDecided[r] IN
            IF r.kind = "category" THEN tabRows[r.at].category = d
            ELSE r.category \in DOMAIN tabPlans' =>
                   IF d = "keep_extra" THEN plan[r.at].status = "unmapped"
                   ELSE Undisputed(r, tabDecided) =>
                          plan[r.at].fields = {d} /\ plan[r.at].status \in {"accepted", "duplicate_header"}
       /\ \A g \in DOMAIN tabPlans \cap DOMAIN tabPlans', c \in DOMAIN tabSupply.headers :
            (/\ tabPlans[g][c].status = "accepted"
             /\ tabPlans[g][c].fields = {f \in TableFields(g) : Token[tabSupply.headers[c]] \in TokensOf[f]}) =>
               /\ tabPlans'[g][c].fields = tabPlans[g][c].fields
               /\ tabPlans'[g][c].status \in {"accepted", "duplicate_header"}]_tabVars
=============================================================================
