------------------------------- MODULE MCProducts -------------------------------
(***************************************************************************)
(* The instance of ProductTables: three categories, two of which share a   *)
(* name; headers that are names, aliases of two fields, twice, alike or    *)
(* unknown; values that repeat, do not parse, do not fit or list options.  *)
(***************************************************************************)
EXTENDS ProductTables, TLC

MCFixed == {"key", "gid", "gname", "serial"}
MCCategories == {"A", "B", "C"}
MCPlatform == ("A" :> {"code", "colour"}) @@ ("B" :> {"code", "size"}) @@ ("C" :> {"size"})
MCSpecifications == {"colour", "size"}
MCTokensOf == ("key" :> {"key"}) @@ ("gid" :> {"gid"}) @@ ("gname" :> {"gname"}) @@ ("serial" :> {"serial"})
              @@ ("code" :> {"code", "x"}) @@ ("colour" :> {"colour"}) @@ ("size" :> {"size", "x"})
MCCategoryTokens == ("A" :> {"shoes"}) @@ ("B" :> {"boots"}) @@ ("C" :> {"boots", "hats"})

HeaderWords == {"key", "gid", "gname", "serial", "code", "CODE", "x", "colr", "Colr", "colour", "odd", "gnam",
            "shoes", "boots", "hats", "shoe", "-"}
MCToken == [w \in HeaderWords |-> CASE w = "CODE" -> "code" [] w = "Colr" -> "colr" [] OTHER -> w]
MCAlike == {<<"colr", "colour">>, <<"colr", "code">>, <<"gnam", "gname">>, <<"shoe", "shoes">>}

MCOptions == [v \in {"-", "1", "2", "bad", "big", "two", "many"} \cup HeaderWords \cup MCCategories \cup {"Z"} |->
                CASE v = "two" -> 2 [] v = "many" -> 3 [] OTHER -> 1]

AHeader == <<"key", "gid", "gname", "code", "odd">>

(* Two rows with every pair of ids and names. *)
CategorySupplies ==
  {[headers |-> h, rows |-> <<<<"1", a[1], a[2], "1", "1">>, <<"2", b[1], b[2], "1", "1">>>>] :
     h \in {AHeader, [AHeader EXCEPT ![5] = "colr"], [AHeader EXCEPT ![3] = "gnam"]},
     a \in {"-", "A", "Z"} \X {"-", "shoes", "boots", "shoe"}, b \in {"-", "B"} \X {"shoes", "boots", "hats"}}

(* Every pair of headers, for a row of A, one of B and one of either. *)
HeaderSupplies ==
  LET words == {"code", "CODE", "x", "colr", "Colr", "colour", "odd", "-"} IN
  {[headers |-> [AHeader EXCEPT ![4] = x, ![5] = y],
    rows |-> <<<<"1", "A", "shoes", "1", "2">>, <<"2", b, "-", "1", "2">>>>] :
     x \in words, y \in words, b \in {"A", "B"}}

(* Every pair of values, in one category or in two. *)
ValueSupplies ==
  LET values == {"-", "1", "2", "bad", "big", "two", "many"} IN
  {[headers |-> <<"key", "gid", w, x[1], x[2]>>, rows |-> <<<<k, "A", s, a, b>>, <<"1", g, t, "1", "two">>>>] :
     w \in {"serial"}, x \in {<<"code", "colour">>}, k \in values, s \in {"1", "2", "-"}, t \in {"1", "-"},
     a \in values, b \in values, g \in {"A", "B"}}

MCWhen == <<"colour", "two", "serial">>

MCSupplies == CategorySupplies \cup HeaderSupplies \cup ValueSupplies

TabAtRest == /\ tabSupply = <<>> /\ tabStep = "at rest" /\ tabRun = 1 /\ tabAnswers = <<>> /\ tabFrozen = {}
             /\ tabFixed = <<>> /\ tabRows = <<>> /\ tabPlans = <<>> /\ tabIssues = {} /\ tabReviews = {}
             /\ tabDecided = <<>>
=============================================================================
