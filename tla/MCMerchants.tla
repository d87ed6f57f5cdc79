---------------------------- MODULE MCMerchants ----------------------------
(***************************************************************************)
(* The instance of MerchantProducts: workbooks with one and two worksheets *)
(* and up to three products of the platform, of three names of which two   *)
(* are alike.                                                              *)
(***************************************************************************)
EXTENDS MerchantProducts, TLC

MCFields == {"name", "brand", "sku", "unit", "category"}
MCHeaders == MCFields \cup {"Goods"}
MCNames == {"lamp", "lamps", "tap"}
MCTexts == MCHeaders \cup MCNames \cup {"b", "B", "c", "note", "fixed", "dynamic", "-"}
MCFieldOf == [t \in MCTexts |-> IF t \in MCFields THEN t ELSE "none"]
MCPathField == (<<"Goods", "brand">> :> "brand")
MCPlain == [t \in MCTexts |-> IF t = "B" THEN "b" ELSE t]
MCLikeness == [x \in MCTexts |-> [y \in MCTexts |->
                 CASE x = y -> 100 [] {x, y} = {"lamp", "lamps"} -> 95 [] OTHER -> 0]]
MCReads == [f \in MCFields |-> MCPlain]
MCIdPlace == [at \in (1 .. 2) \X (1 .. 6) |-> 10 * at[1] + at[2]]

Grid(title, visible, merges, cells) ==
    [title |-> title, visible |-> visible, merges |-> merges, cells |-> cells, width |-> 3]
Span(t, l, b, r) == [top |-> t, left |-> l, bottom |-> b, right |-> r]
Heading == <<"name", "brand", "sku">>

(* One row of headers; two, with a group above; a note, an empty row and a *)
(* brand merged over two products; a summary; a sheet without products.    *)
PlainSheet(title, x, y) ==
    Grid(title, TRUE, {}, <<Heading, <<x, "b", "-">>, <<y, "c", "-">>>>)
DeepSheet(x) ==
    Grid("deep", TRUE, {Span(1, 2, 1, 3), Span(1, 1, 2, 1), Span(4, 2, 5, 2)},
         <<<<"name", "Goods", "-">>, <<"-", "brand", "sku">>, <<"-", "note", "-">>,
           <<x, "b", "c">>, <<"tap", "-", "c">>, <<"-", "-", "-">>>>)
OddSheets == {Grid("sum", TRUE, {}, <<<<"fixed", "dynamic", "-">>, Heading>>),
              Grid("hidden", FALSE, {}, <<Heading, <<"lamp", "b", "-">>>>),
              Grid("none", TRUE, {}, <<<<"name", "b", "-">>, <<"lamp", "b", "-">>>>)}

MCBooks == {<<PlainSheet("one", x, y), w>> : x \in MCNames, y \in MCNames,
              w \in {PlainSheet("two", "lamp", "-"), DeepSheet("lamps")}}
           \cup {<<w>> : w \in OddSheets \cup {DeepSheet("lamp")}}
           \cup {<<w, PlainSheet("one", "lamp", "lamp")>> : w \in OddSheets}

(* The brand under two keys, of which the last one counts. *)
Keyed(k, t) == [key |-> k, text |-> t]
Supplied(id, x, brand) ==
    [id |-> id, entries |-> <<Keyed("name", x), Keyed("brand", "note"), Keyed("brand", brand)>>]
MCPlatformId == [j \in 1 .. 3 |-> j]
MCPayloads == {<<>>, <<Supplied(1, "-", "b")>>}
              \cup {<<Supplied(0, x, "c"), Supplied(i, y, "b"), Supplied(3, z, IF z = "tap" THEN "-" ELSE "note")>> :
                       x \in MCNames, y \in MCNames, z \in {"tap", "lamps"}, i \in {1, 2}}
=============================================================================
