----------------------------- MODULE MCRenderings -----------------------------
(***************************************************************************)
(* The inputs of the renderer, in families that vary what matters          *)
(* together: findings and repairs of one row, insertions beside what       *)
(* refers to the columns, and the worksheets of products.                  *)
(***************************************************************************)
EXTENDS Rendering, TLC

CONSTANTS f1, f2, f3

(* A rule of three fields, "x" an alias of the first. *)
ABook == [fields |-> <<f1, f2, f3>>,
          words |-> (f1 :> <<"a", "x">>) @@ (f2 :> <<"b">>) @@ (f3 :> <<"c">>),
          key |-> {f1}, byRow |-> FALSE, insert |-> TRUE, auto |-> FALSE, like |-> "q" :> f2,
          rows |-> <<<<"a", "b", "c">>>>, named |-> {<<1, 1>>}, others |-> {<<2, 1>>},
          sheets |-> {<<1, 1>>, <<2, 1>>}]

ARendering == [book |-> ABook, last |-> 2, findings |-> {}, sets |-> {}, formats |-> {}, fields |-> {},
               appends |-> <<>>, notes |-> <<>>, refs |-> {}, styled |-> FALSE, blocked |-> {},
               sheets |-> {<<"upload", 0, 0>>}, products |-> <<>>, review |-> {}]

Finding(column, row, gravity, text) == [column |-> column, row |-> row, gravity |-> gravity, text |-> text]
Note(text) == [own |-> text, audit |-> {}]

(* The findings of one row, some of them of one cell, with repairs of      *)
(* cells that are marked as well, and comments that are there.             *)
MarkRenderings ==
  LET found == {Finding(1, 2, 4, "m1"), Finding(2, 2, 2, "m2"), Finding(2, 2, 3, "m3"), Finding(0, 2, 4, "m4"),
                Finding(0, 2, 1, "m5"), Finding(3, 1, 1, "m6")} IN
  {[ARendering EXCEPT !.findings = d, !.sets = r[1], !.formats = r[2], !.notes = n[1], !.blocked = n[2]] :
     d \in SUBSET found,
     r \in {<<{}, {}>>, <<{<<2, 2>>}, {<<3, 2>>}>>, <<{<<1, 1>>, <<2, 2>>}, {}>>},
     n \in {<<<<>>, {}>>, <<<<1, 2>> :> Note("own"), {}>>, <<<<2, 2>> :> Note("full"), {}>>, <<<<>>, {"shapes"}>>}}

InsertRows == {<<"a">>, <<"b">>, <<"c">>, <<"x">>, <<"a", "c">>, <<"e", "b">>, <<"x", "c">>, <<"e", "d", "c">>,
               <<"a", "e", "b">>}
RenderedBooks == {ABook} \cup {[ABook EXCEPT !.rows = <<r>>] : r \in InsertRows}

(* A reference of every kind to some columns of a row. *)
ARef(row, kind, from, to) ==
  [id |-> 1, kind |-> kind, from |-> from, to |-> to, top |-> 1, bottom |-> 2,
   names |-> IF kind = "table" THEN SubSeq(row, from, to) ELSE <<>>]

RefsOf(row) ==
  {ARef(row, kind, from, to) :
     kind \in {"range", "validation", "width", "table", "filter"}, from \in DOMAIN row, to \in DOMAIN row}
    \cup {ARef(row, "split", 1, to) : to \in DOMAIN row}

(* Missing columns at both ends and between, two of them at one place, and *)
(* more than there is room for; new rows in their order or not.            *)
InsertRenderings ==
  UNION {{[ARendering EXCEPT !.book.rows = <<r>>, !.refs = {ref}, !.appends = a, !.fields = f, !.styled = (f # {}),
                             !.blocked = IF a = <<4, 5>> /\ f # {} THEN {"pivot"} ELSE {},
                             !.findings = {Finding(Len(r), 2, 2, "m1"), Finding(0, 2, 1, "m2")},
                             !.sets = IF "x" \in {r[c] : c \in DOMAIN r} THEN {<<1, 1>>} ELSE {},
                             !.notes = (<<Len(r), 2>> :> Note("own")) @@ (<<1, 1>> :> Note("own"))] :
            ref \in {ref \in RefsOf(r) : ref.from <= ref.to}, a \in {<<>>, <<3, 4>>, <<4, 3>>, <<4, 5>>},
            f \in {{}} \cup {{[field |-> g, row |-> 2]} : g \in Missing(ABook, [c \in DOMAIN r |-> Mapping(ABook, r, c)])}} :
         r \in InsertRows}

(* Categories with and without SKUs whose names may be those of worksheets *)
(* of the upload, of the renderer and of each other's SKUs.                *)
ProductRenderings ==
  LET category(name, sku, lists) == [name |-> name, sku |-> sku, lists |-> lists]
      p == <<"p", 0, 0>> names == {p, <<"p", 1, 0>>, <<"q", 0, 0>>} IN
  {[ARendering EXCEPT !.products = s, !.review = w, !.sheets = u] :
     s \in {<<category(n, k, l)>> : n \in names, k \in BOOLEAN, l \in BOOLEAN}
           \cup {<<category(n[1], k, l), category(n[2], j, FALSE)>> :
                   n \in {n \in names \X names : n[1] # n[2]}, k \in BOOLEAN, j \in BOOLEAN, l \in BOOLEAN},
     w \in SUBSET {"rows", "issues"},
     u \in {{p, <<"p", 1, 0>>}, {<<"rows", 0, 0>>, <<"lists", 0, 0>>, <<"q", 1, 0>>}, {MetadataName, <<"report", 0, 0>>}}}

MCRenderingInputs == MarkRenderings \cup InsertRenderings \cup ProductRenderings

RndAtRest ==
  /\ rndInput = <<>> /\ rndStep = "at rest" /\ rndLeft = {} /\ rndGrid = <<>> /\ rndCells = <<>>
  /\ rndNotes = <<>> /\ rndRefs = {} /\ rndSheets = {}
=============================================================================
