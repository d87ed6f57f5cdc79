---------------------------- MODULE MCStandards ----------------------------
(***************************************************************************)
(* The instance of StandardData: a sheet with a key, one that skips rows   *)
(* without, and one of row numbers; fields under a name, an alias or both. *)
(***************************************************************************)
EXTENDS StandardData, TLC

MCSheets == {"S", "K", "R"}
MCColumnsOf == ("S" :> {"sku", "qty"}) @@ ("K" :> {"sku", "qty"}) @@ ("R" :> {"row", "qty"})
MCKeyColumns == ("S" :> {"sku"}) @@ ("K" :> {"sku"}) @@ ("R" :> {"row"})
MCKeyAction == ("S" :> "report_invalid") @@ ("K" :> "skip_row") @@ ("R" :> "report_invalid")
MCUploadKeys == [s \in MCSheets |-> {s, CASE s = "S" -> "Stock" [] s = "K" -> "Kits" [] OTHER -> "Rows"}]
MCSourceKeys == [s \in MCSheets |-> MCUploadKeys[s] \cup (IF s = "S" THEN {"stock"} ELSE {})]
MCSheetKeys == UNION {MCSourceKeys[s] : s \in MCSheets} \cup {"other"}

MCHeaderOf == ("sku" :> "sku") @@ ("code" :> "code") @@ ("qty" :> "qty") @@ (" qty" :> "qty")
              @@ ("row" :> "row") @@ ("note" :> "note") @@ ("surplus" :> "-")
MCRank == [c \in {"sku", "qty", "row"} |-> [h \in {"sku", "code", "qty", "row", "note", "-"} |->
              CASE c = h -> 1 [] c = "sku" /\ h = "code" -> 2 [] OTHER -> 0]]
MCCrossRules == [s \in MCSheets |-> IF s # "K" THEN {}
                   ELSE {[when |-> "sku", means |-> "3", then |-> "qty", refused |-> "empty"]}]
MCValues == {"1", "01", "2", "3", "-", "bad"}
MCMeaning == [c \in {"sku", "qty", "row"} |-> [v \in MCValues |->
                CASE v = "-" -> "empty" [] v = "bad" /\ c # "sku" -> "invalid" [] v = "01" -> "1" [] OTHER -> v]]

Field(k, v) == [key |-> k, value |-> v]
Item(k, q) == <<Field("sku", k), Field("qty", q)>>

OddRows == {Item("1", "1"), Item("-", "1"), Item("1", "bad"), Item("3", "-"),
            <<Field("code", "2"), Field("sku", "2")>>, <<Field("code", "01"), Field("sku", "1")>>,
            <<Field("code", "2"), Field("sku", "1")>>, <<Field("sku", "2"), Field("sku", "2")>>,
            <<Field("sku", "3"), Field("qty", "1"), Field(" qty", "2")>>,
            <<Field("sku", "3"), Field("surplus", "1")>>}
RowRows == {<<Field("row", "1"), Field("qty", "1")>>, <<Field("row", "1")>>, <<Field("row", "bad")>>, <<Field("note", "1")>>}
MCRawRows == OddRows \cup RowRows \cup {Item(k, "1") : k \in {"1", "2", "3"}}

Given(how, sheets, parts) == [how |-> how, sheets |-> sheets, parts |-> parts, tries |-> 1, cap |-> 2, total |-> FALSE]
OnePart(key, rows) == <<[key |-> key, rows |-> rows]>>

PagedSupplies ==
  {[Given("paged", {"S"}, OnePart("other", [i \in 1 .. n |-> Item(ToString(i), "1")]))
      EXCEPT !.cap = cap, !.total = total, !.tries = tries] :
     n \in 0 .. 3, cap \in 1 .. 3, total \in BOOLEAN, tries \in {1, 3}}

ListSupplies ==
  {Given(how, sheets, OnePart("other", <<a, b>>)) :
     how \in {"csv", "list", "whole"}, sheets \in {{"S"}, {"K"}, {"S", "K"}}, a \in OddRows, b \in OddRows}
  \cup {Given("list", {"R"}, OnePart("other", <<a, b>>)) : a \in RowRows, b \in RowRows}

BookSupplies ==
  {Given(how, MCSheets, OnePart(k, <<Item("1", "1")>>) \o OnePart(l, rows)) :
     how \in {"object", "book"}, k \in {"S", "stock", "K"}, l \in {"S", "Stock", "Rows", "other"},
     rows \in {<<>>, <<Item("2", "1"), Item("2", "1")>>, <<<<Field("row", "1")>>>>}}

MCSupplies == PagedSupplies \cup ListSupplies \cup BookSupplies

(* No run: one that failed, of a list of nothing. *)
StAtRest ==
    /\ stSupply = Given("list", {}, OnePart("other", <<>>)) /\ stStep = "failed"
    /\ stHeld = <<>> /\ stPage = 1 /\ stTry = 0 /\ stGot = <<>> /\ stSteady = TRUE
    /\ stData = NoRows /\ stFile = NoRows /\ stDigest = NoRows /\ stRead = NoRows
    /\ stObject = NoRows /\ stRow = NoRows
=============================================================================
