------------------------------ MODULE MCWorkflows ------------------------------
(***************************************************************************)
(* The instances of the field and the product workflows and of the         *)
(* algorithms the jobs run.  They share no state: each behaviour is one of *)
(* them, the one `part` names, and leaves the others at rest.              *)
(***************************************************************************)
EXTENDS FieldJobs, ProductReviews, Comparison, MCProducts, MCRenderings

CONSTANTS a1, a2, b1, b2, x1, x2, v1

VARIABLE part

(***************************************************************************)
(* The inputs of the comparison, in families that vary what matters        *)
(* together; all of them start from one plain sheet.                       *)
(***************************************************************************)
Cells(id, v) == [f \in Fields |-> IF f = "id" THEN id ELSE v]
Row(id, v) == [cell |-> Cells(id, v), cached |-> Cells(Blank, Blank), hidden |-> FALSE, odd |-> {}]
Rec(id, v, at) == [cell |-> Cells(id, v), given |-> Fields, at |-> at]
ARule == [required |-> FALSE, nullable |-> TRUE, unique |-> FALSE, formulas |-> "reject",
          default |-> Blank, template |-> FALSE, format |-> FALSE]
Plain == [mode |-> "fields", onEmpty |-> "report_invalid", append |-> TRUE, fill |-> TRUE,
          overwrite |-> FALSE, insert |-> TRUE,
          rule |-> [f \in Fields |-> [ARule EXCEPT !.required = (f = "id")]],
          when |-> 0, first |-> 2, rows |-> <<>>, columns |-> Fields, hidden |-> FALSE,
          std |-> <<>>, disk |-> FALSE, parts |-> FALSE]

N1 == Number(1, 0)
N1b == Number(1, 1)
N2 == Number(2, 0)
N3 == Number(3, 0)

(* Two rows and two records with every pair of keys. *)
JoinSheets ==
  LET ids == {Blank, Word, Formula(2), N1, N1b, N2} keys == {Blank, N1, N1b, N2} IN
  {[Plain EXCEPT !.onEmpty = e, !.rows = <<Row(a, N1), Row(b, N2)>>,
                 !.std = <<Rec(c, N1, 2), Rec(d, N2, 3)>>] :
     a \in ids, b \in ids, c \in keys, d \in keys,
     e \in {"report_invalid", "skip_row", "use_row_number"}}

(* Records matched by row number, on both sides of row ten. *)
RowNumberSheets ==
  {[Plain EXCEPT !.mode = "row_number", !.first = 8, !.append = p, !.rows = <<Row(N1, N1)>>,
                 !.rule["id"].required = FALSE,
                 !.std = <<Rec(N1, N2, a), Rec(N1, N1, b), Rec(N1, N3, c)>>] :
     a \in 8..10, b \in 8..11, c \in {9, 10, 11}, p \in BOOLEAN}

(* One cell with its cached value, one standard value and whether it is    *)
(* given, and what a column may have.                                      *)
CellsWithCache == ({Blank, N1, Word} \X {Blank}) \cup ({Formula(2), Formula(3)} \X {Blank, N1, N3})
GivenValues == ({Blank, N1, N3, Number(Huge, 0), Formula(2), Formula(3)} \X {Fields})
               \cup {<<Blank, {"id"}>>}
RuleKinds == ({"reject", "formula", "cached_value"} \X {"none", "default"}) \cup {<<"formula", "template">>}
Shown == (CellsWithCache \X {Fields}) \cup {<<<<Blank, Blank>>, {"id"}>>}

CellSheets ==
  {[Plain EXCEPT !.fill = fl, !.overwrite = ow, !.columns = x[2],
                 !.rule["v"].formulas = m[1],
                 !.rule["v"].default = IF m[2] = "default" THEN N2 ELSE Blank,
                 !.rule["v"].template = (m[2] = "template"), !.rule["v"].nullable = nl,
                 !.rows = <<[Row(N1, x[1][1]) EXCEPT !.cached["v"] = x[1][2]]>>,
                 !.std = <<[Rec(k, z[1], 2) EXCEPT !.given = z[2]]>>] :
     fl \in BOOLEAN, ow \in BOOLEAN, m \in RuleKinds, nl \in BOOLEAN, x \in Shown,
     k \in {N1, N2}, z \in GivenValues}

(* Rows with rules: an odd format or a hidden row, one rule at a time. *)
ValidSheets ==
  {[Plain EXCEPT !.onEmpty = e, !.hidden = h[1], !.when = IF u = "when" THEN 1 ELSE 0,
                 !.rule["v"].unique = (u = "unique"), !.rule["v"].required = (u = "required"),
                 !.rule["v"].format = TRUE,
                 !.rows = <<[Row(a, x) EXCEPT !.odd = o], [Row(N2, y) EXCEPT !.hidden = h[2]]>>,
                 !.std = <<Rec(N1, N1, 2), Rec(N2, z, 3)>>] :
     e \in {"report_invalid", "skip_row"}, h \in {<<TRUE, FALSE>>, <<TRUE, TRUE>>, <<FALSE, TRUE>>},
     u \in {"when", "unique", "required", "none"}, a \in {N1, Word}, x \in {Blank, N1, Word, Formula(2)},
     o \in {{}, {"v"}}, y \in {N1, N2, N1b}, z \in {Blank, N1, N2}}

(* The same joins by the table and by the partitions. *)
DiskSheets ==
  LET ids == {N1, N1b, N2} IN
  {[Plain EXCEPT !.disk = d, !.parts = p, !.rows = r, !.std = <<Rec(a, N1, 2), Rec(b, N2, 3)>>] :
     d \in BOOLEAN, p \in BOOLEAN, a \in ids, b \in ids,
     r \in {<<Row(i, N1)>> : i \in ids} \cup {<<Row(i, N1), Row(j, N1)>> : i \in ids, j \in ids}}

MCSheets == JoinSheets \cup RowNumberSheets \cup CellSheets \cup ValidSheets \cup DiskSheets

(***************************************************************************)
(* The inputs of the headers: headers that are blank, repeated, aliases,   *)
(* unknown or alike; words that collide; two candidate header rows; names  *)
(* of sheets.                                                              *)
(***************************************************************************)
HeaderBooks ==
  {[ABook EXCEPT !.words[f2] = w, !.key = k, !.byRow = (k = {}), !.insert = i, !.rows = <<r>>] :
     w \in {<<"b">>, <<"b", "y">>, <<"b", "x">>, <<"a">>}, k \in {{f1}, {f1, f2}, {}}, i \in BOOLEAN,
     r \in {<<w1, w2, w3>> : w1 \in {"-", "a", "c", "e", "q"}, w2 \in {"-", "x", "b", "c"},
                             w3 \in {"-", "a", "y", "c", "e"}}
           \cup {<<w1>> : w1 \in {"-", "a", "b", "c"}}}

AutoBooks ==
  {[ABook EXCEPT !.auto = TRUE, !.key = k, !.byRow = (k = {}), !.rows = <<r, q>>] :
     k \in {{f1}, {f1, f2}, {}},
     r \in {<<w1, w2>> : w1 \in {"-", "a", "c", "e"}, w2 \in {"-", "b", "x"}},
     q \in {<<w1, w2>> : w1 \in {"-", "a", "c", "e"}, w2 \in {"-", "b", "x"}}}

NamedBooks ==
  LET names == {<<1, 1>>, <<1, 2>>, <<2, 1>>, <<2, 2>>, <<3, 1>>} IN
  {[ABook EXCEPT !.named = n, !.others = o, !.sheets = s] :
     n \in (SUBSET names) \ {{}}, o \in {{<<2, 1>>}, {<<3, 1>>}},
     s \in {{<<1, 2>>}, {<<2, 1>>, <<1, 2>>}, {<<3, 1>>, <<2, 2>>}, {<<3, 1>>}}}

MCBooks == HeaderBooks \cup AutoBooks \cup NamedBooks \cup RenderedBooks

-----------------------------------------------------------------------------
CmpAtRest == cmpSheet = <<>> /\ cmpStep = "at rest" /\ cmpPass = 1 /\ cmpFound = {}

HdrAtRest == /\ hdrBook = <<>> /\ hdrStep = "at rest" /\ hdrRow = 0 /\ hdrMapped = <<>>
             /\ hdrPlan = <<>> /\ hdrGrid = <<>> /\ hdrFinal = <<>>

Init ==
  /\ part \in {"fields", "reviews", "comparison", "headers", "tables", "rendering"}
  /\ FieldInit /\ ReviewInit
  /\ IF part = "comparison" THEN CmpInit ELSE CmpAtRest
  /\ IF part = "headers" THEN HdrInit ELSE HdrAtRest
  /\ IF part = "tables" THEN TabInit ELSE TabAtRest
  /\ IF part = "rendering" THEN RndInit ELSE RndAtRest

vars == <<part, fldVars, prdVars, cmpVars, hdrVars, tabVars, rndVars>>

Next ==
  \/ part = "fields" /\ FieldNext /\ UNCHANGED <<part, prdVars, cmpVars, hdrVars, tabVars, rndVars>>
  \/ part = "reviews" /\ ReviewNext /\ UNCHANGED <<part, fldVars, cmpVars, hdrVars, tabVars, rndVars>>
  \/ part = "comparison" /\ CmpNext /\ UNCHANGED <<part, fldVars, prdVars, hdrVars, tabVars, rndVars>>
  \/ part = "headers" /\ HdrNext /\ UNCHANGED <<part, fldVars, prdVars, cmpVars, tabVars, rndVars>>
  \/ part = "tables" /\ TabNext /\ UNCHANGED <<part, fldVars, prdVars, cmpVars, hdrVars, rndVars>>
  \/ part = "rendering" /\ RndNext /\ UNCHANGED <<part, fldVars, prdVars, cmpVars, hdrVars, tabVars>>

Spec == Init /\ [][Next]_vars

(* What bounds the workflows: one kind of fault in a behaviour, and        *)
(* decisions that crossed with a call that stopped between rows and file   *)
(* as long as one more revision can be made.                               *)
FewFaults ==
  /\ ~(fldStale /\ fldTwice)
  /\ ~(prdCrossed /\ prdTwice) /\ ~(prdCrossed /\ prdKilled) /\ ~(prdTwice /\ prdKilled)
  /\ (prdCrossed /\ prdParted => Latest < MaxProductRevision)

(* Calls, runs and pages, and reviewers, workers and items, are alike. *)
WorkflowSymmetry == Permutations({a1, a2}) \cup Permutations({b1, b2}) \cup Permutations({x1, x2})
=============================================================================
