------------------------ MODULE MCSpreadsheetImport ------------------------
(***************************************************************************)
(* Small files for each import filter, into a sheet of two rows and three  *)
(* columns.                                                                *)
(***************************************************************************)
EXTENDS SpreadsheetImport

(* XLSX: rows with and without a number, a style and a height; a range of  *)
(* columns; plain and shared formulas, and an array beyond the sheet.      *)
XRow(r, s, cu, h, hid) == [r |-> r, style |-> s, custom |-> cu, height |-> h, hidden |-> hid]
MCRowAttrs == {XRow(-1, -1, FALSE, -1, FALSE), XRow(1, 3, TRUE, 7, TRUE)}
MCColAttrs == {[min |-> 2, max |-> 3, style |-> 4, width |-> 5, hidden |-> FALSE]}
MCCellAttrs == {[addr |-> Nowhere, type |-> "n", style |-> 0],
                [addr |-> <<0, 1>>, type |-> "s", style |-> 2]}
F(t, e, i, x) == [type |-> t, ext |-> e, id |-> i, text |-> x]
MCFormulaAttrs == {F("normal", <<0, 0>>, -1, TRUE), F("shared", <<0, 0>>, 1, TRUE),
                   F("shared", <<0, 0>>, 1, FALSE), F("array", <<1, 3>>, -1, TRUE)}

MCTexts == {<< >>, <<0, 13>>, <<13, 0>>}

(* Excel 2003 XML: a table that does not start at A1; rows and cells with  *)
(* an index; a row that ends early; an array of formulas; merged cells.    *)
MCTableAttrs == {[top |-> 0, left |-> 0], [top |-> 2, left |-> 0]}
Col(i, s, w, st) == [index |-> i, span |-> s, width |-> w, hidden |-> w = 3, style |-> st]
MCColumnAttrs == {Col(0, 1, 4, 1), Col(2, 0, 3, 7)}
L(i, h, s, b) == [index |-> i, height |-> h, hidden |-> b, style |-> s, broken |-> b]
MCLineAttrs == {L(0, 0, 0, FALSE), L(2, 5, 1, FALSE), L(2, 5, 1, TRUE)}
X(i, f, a, ac, d, s, fo) == [index |-> i, formula |-> f, array |-> a, across |-> ac, down |-> d,
                             style |-> s, foreign |-> fo]
MCXlsCellAttrs == {X(0, FALSE, <<-1, -1>>, 0, 0, 1, FALSE), X(0, TRUE, <<-1, -1>>, 0, 0, 0, FALSE),
                   X(0, TRUE, <<1, 1>>, 0, 0, 0, FALSE), X(3, TRUE, <<-1, -1>>, 0, 0, 0, TRUE),
                   X(0, FALSE, <<-1, -1>>, 1, 1, 0, FALSE)}

(* Gnumeric: cells of each type, overlapping segments of a format, regions *)
(* that overlap and go beyond the sheet.                                   *)
G(at, k, id, r, c, s) == [at |-> at, kind |-> k, id |-> id, rows |-> r, cols |-> c, segments |-> s]
Segment(a, b, f) == [start |-> a, end |-> b, fmt |-> f]
MCGnmCells == {G(<<0, 0>>, "string", 0, 0, 0, {}),
               G(<<0, 1>>, "string", 0, 0, 0, {Segment(0, 1, "b"), Segment(0, 2, "i")}),
               G(<<0, 1>>, "float", 0, 0, 0, {}), G(<<1, 0>>, "array", 0, 1, 2, {}),
               G(<<1, 0>>, "shared", 1, 0, 0, {}), G(<<0, 1>>, "shared", 1, 0, 0, {}),
               G(<<1, 1>>, "formula", 0, 0, 0, {}), G(<<1, 1>>, "none", 0, 0, 0, {})}
MCGnmTexts == {<<1, 0>>, <<0, 0>>}
MCGnmLines == {[e |-> "col", no |-> 0, count |-> 2, size |-> 3, hidden |-> TRUE],
               [e |-> "row", no |-> 1, count |-> 2, size |-> 3, hidden |-> TRUE]}
MCGnmRegions == {Rectangle(<<0, 0>>, <<1, 1>>), Rectangle(<<1, 1>>, <<2, 2>>)}
MCGnmMerges == {Rectangle(<<0, 0>>, <<1, 1>>), Rectangle(<<0, 0>>, <<0, 1>>)}
MCGnmStyles == {"bold" :> 1 @@ "back" :> 1, "pattern" :> 1 @@ "halign" :> 1 @@ "format" :> 1}
MCGnmBorders == {<<"top", "top" :> 1>>, <<"top", Plain>>}

(* ODS: repeated rows, columns and cells; an automatic and two named       *)
(* styles; spans with a font and without.                                  *)
C(s, r, f, t) == [style |-> s, repeated |-> r, formula |-> f, type |-> t]
MCOdsColumns == {[repeated |-> 2, width |-> 3, style |-> 7], [repeated |-> 1, width |-> 4, style |-> 1]}
MCOdsRows == {[repeated |-> 1, height |-> 5], [repeated |-> 2, height |-> 0]}
MCOdsCells == {C(7, 2, FALSE, "string"), C(1, 2, TRUE, "float"), C(8, 1, FALSE, "float"),
               C(0, 1, FALSE, "unknown")}
MCSpanFonts == [s \in {1, 2} |-> IF s = 1 THEN {"b"} ELSE {}]

(* The styles of XLSX: sections in the usual order and in another one,     *)
(* references to records read before, later and not at all.                *)
Ref(f, fi, b, n, x) == [font |-> f, fill |-> fi, border |-> b, numfmt |-> n, xf |-> x, align |-> b = 1]
MCStyleRefs == {Ref(0, 0, 0, -1, -1), Ref(2, -1, -1, 5, 0), Ref(-1, -1, 1, 5, 1)}
MCSectionOrders == {<<"numFmts", "fonts", "fills", "borders", "cellStyleXfs", "cellXfs", "cellStyles", "dxfs">>,
                    <<"dxfs", "fonts", "cellXfs">>}
MCDiagonals == {[up |-> TRUE, down |-> FALSE], [up |-> FALSE, down |-> FALSE]}

(* Of Excel 2003 XML: the default style anywhere, a style and its parent,  *)
(* two styles with one id.                                                 *)
XmlStyle(i, n, p) == [id |-> i, name |-> n, parent |-> p]
MCXmlStyles == {XmlStyle(<<9>>, <<1>>, <<>>), XmlStyle(<<2>>, <<2>>, <<>>),
                XmlStyle(<<3>>, <<>>, <<2>>), XmlStyle(<<2>>, <<>>, <<>>)}
Has(e, v) == [e |-> e, v |-> v]
MCStyleElements == {Has("font", [size |-> 1]), Has("fill", [solid |-> TRUE, color |-> 2]), Has("numfmt", <<5>>),
                    Has("borders", <<>>), Has("border", [dir |-> "top", style |-> "solid", weight |-> 2]),
                    Has("border", [dir |-> "top", style |-> "unknown", weight |-> 1]), Has("align", [hor |-> 1])}
MCDefaultId == <<9>>

(* And of ODS: styles of two families, one with a parent and one with a    *)
(* number style; number styles with one name and with none.                *)
OdfStyle(f, n, p, d) == [family |-> f, name |-> n, parent |-> p, data |-> d]
MCOdfStyleAttrs == {OdfStyle("cell", <<1>>, <<>>, <<7>>), OdfStyle("cell", <<2>>, <<1>>, <<>>),
                    OdfStyle("text", <<1>>, <<>>, <<>>)}
MCOdfProperties == {Has("text", [size |-> 1]), Has("paragraph", [hor |-> 1]),
                    Has("cell", [fill |-> [fg |-> 1], align |-> [ver |-> 2]]),
                    Has("cell", [border |-> [top |-> 1]])}
Number(g, m, d) == [e |-> "number", grouping |-> g, min |-> m, decimals |-> d]
Text(p) == [e |-> "text", pieces |-> p]
Map(c, v, n) == [e |-> "map", comp |-> c, value |-> v, style |-> n]
NumberOf(k, n, p) == [kind |-> k, name |-> n, parts |-> p]
MCOdfNumberStyles ==
    {NumberOf("number", <<7>>, <<Number(FALSE, 1, 2)>>),
     NumberOf("currency", <<7>>, <<[e |-> "symbol", pieces |-> <<<<"E">>>>], Number(TRUE, 5, 0),
                                   Map(<<">">>, <<"0">>, <<7>>), Map(<<"<">>, <<"0">>, <<8>>)>>),
     NumberOf("date", <<7>>, <<[e |-> "year", long |-> TRUE], Text(<<<<"-">>, <<".">>>>),
                               [e |-> "month", long |-> TRUE, textual |-> FALSE], [e |-> "hours", long |-> TRUE]>>),
     NumberOf("number", <<>>, <<Number(FALSE, 0, 0), [e |-> "color", color |-> "RED"],
         [e |-> "scientific", grouping |-> FALSE, min |-> 1, decimals |-> 2, exponent |-> 2],
         [e |-> "fraction", int |-> 1, num |-> 2, den |-> 3, value |-> <<>>]>>),
     NumberOf("number", <<8>>, <<Map(<<">">>, <<>>, <<7>>)>>)}

(* Filters and tables: two columns; texts with stars, and all patterns of  *)
(* up to four characters; rules of each kind; a table with totals and one  *)
(* with no range.                                                          *)
MCFilterRanges == {Rectangle(<<0, 0>>, <<3, 1>>)}
MCMaxFilters == "xlsx" :> 4 @@ "gnumeric" :> 5 @@ "xls-xml" :> 5 @@ "ods" :> 6
MCFilterTexts == {<<9>>, <<42, 1>>}
UpTo(S, n) == UNION {[1..k -> S] : k \in 0..n}
MCPatterns == UpTo({1, 42, 63, 126}, 4)
MCSamples == UpTo({1, 42, 63}, 3)
Attr(n, v) == [name |-> n, val |-> v]
MCTopAttrs == {<<Attr("top", <<>>), Attr("percent", <<9>>), Attr("val", <<9, 9>>)>>,
               <<Attr("val", <<9, 9>>), Attr("top", <<9>>)>>}
Compare(o, t, x) == [op |-> o, type |-> t, text |-> x]
Field(f, t, c, r) == [field |-> f, type |-> t, connector |-> c, rules |-> r, top |-> TRUE, items |-> FALSE,
                      range |-> f = 1, text |-> <<9>>]
MCFieldAttrs == {Field(0, "expr", "none", <<Compare("equal", "string", <<42, 1>>)>>),
                 Field(1, "expr", "or", <<Compare("greater", "float", <<9>>), Compare("not equal", "string", <<1>>)>>),
                 Field(1, "expr", "and", <<Compare("greater", "float", <<1>>), Compare("less", "none", <<>>)>>),
                 Field(0, "blanks", "none", <<>>), Field(0, "noblanks", "none", <<>>),
                 Field(1, "bucket", "none", <<>>), Field(-1, "blanks", "none", <<>>)}
XmlColumn(i, t) == [index |-> i, type |-> t, text |-> IF t = "Top" THEN <<9>> ELSE <<>>]
MCXmlColumns == {XmlColumn(0, "Custom"), XmlColumn(2, "Custom"), XmlColumn(2, "Top"), XmlColumn(1, "All")}
Condition(f, o, t, x) == [field |-> f, op |-> o, type |-> t, text |-> x]
MCOdsConditions == {Condition(0, "greater", "number", <<9>>), Condition(1, "contain", "text", <<1>>),
                    Condition(1, "equal", "text", <<1>>), Condition(-1, "empty", "text", <<>>),
                    Condition(0, "empty", "none", <<>>)}
Table(n, r, t) == [name |-> n, range |-> r, id |-> 1, totals |-> t]
MCTableElements == {Table(<<1>>, Rectangle(<<0, 0>>, <<3, 1>>), 1), Table(<<2>>, <<>>, 0),
                    Table(<<2>>, Rectangle(<<1, 1>>, <<3, 2>>), 0)}
MCTableColumns == {<<1>>, <<2>>}

(* Pivot tables: two caches over cells, a table and neither; items in use  *)
(* and not; values that are read and not; entries of each section.         *)
Source(t, n, r) == [type |-> t, name |-> n, ref |-> r]
MCCacheSources == {Source("worksheet", <<>>, <<1, 1>>), Source("worksheet", <<7>>, <<>>),
                   Source("external", <<>>, <<1, 1>>)}
Item(k, u) == [kind |-> k, val |-> 1, unused |-> u]
MCSharedItems == {Item("s", TRUE), Item("n", FALSE), Item("n", TRUE), Item("b", FALSE)}
MCRecordValues == {[kind |-> "x", val |-> 0], [kind |-> "e", val |-> 1]}
MCGroupBases == {-1, 0}
MCSections == {"pivotFields", "rowFields", "colFields", "dataFields", "pageFields", "rowItems"}
MCEntryAttrs == [s \in MCSections |->
    CASE s = "rowFields" -> {[x |-> -2], [x |-> 0]}
      [] s = "colFields" -> {[x |-> 0]}
      [] s = "dataFields" -> {[fld |-> 1, show |-> "unknown", base |-> 3]}
      [] s = "pageFields" -> {[fld |-> 1, item |-> 0]}
      [] s = "pivotFields" -> {[axis |-> "row"]}
      [] OTHER -> {[repeat |-> 0, type |-> "data", data |-> 0], [repeat |-> 1, type |-> "unknown", data |-> 0]}]
MCPartAttrs == [s \in MCSections |->
    IF s = "pivotFields" THEN {[x |-> 1, type |-> "sum", hidden |-> TRUE], [x |-> -1, type |-> "sum", hidden |-> TRUE],
                               [x |-> -1, type |-> "none", hidden |-> TRUE]}
    ELSE IF s \in {"rowItems", "colItems"} THEN {[v |-> 1]} ELSE {}]
MCMaxPivots == "caches" :> 5 @@ "tables" :> 5

(* Conditional formats: rules with formulas, texts and scales.             *)
CfRule(t, o, x) == [type |-> t, dxf |-> 1, op |-> o, text |-> x, date |-> "today", above |-> TRUE,
                    equal |-> FALSE, bottom |-> FALSE]
MCRuleAttrs == {CfRule("cellIs", "equal", <<>>), CfRule("containsText", "none", <<3>>),
                CfRule("unknown", "none", <<>>)}
MCBarAttrs == {[show |-> TRUE, min |-> 10, max |-> 90, icon |-> "3Arrows", reverse |-> FALSE]}
=============================================================================
