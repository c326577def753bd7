--------------------------- MODULE DocumentBuilders ---------------------------
(***************************************************************************)
(* The parsers that build a document of their own, JSON, YAML and CSS, and *)
(* the filters for JSON, XML and CSV that fill the sheets of a spreadsheet *)
(* document by a map or row by row; the structure trees that find such a   *)
(* map, and the DOM of an XML file: each is a parser that reports what it  *)
(* reads and a handler that keeps a stack of where it is.  And the         *)
(* document itself, which takes the calls of an import and is dumped, and  *)
(* the conversions of text they all rest on.                               *)
(***************************************************************************)
EXTENDS Integers, Sequences, SequencesExt, TLC

CONSTANTS Texts, Escaped, Ref, Externals, Inits,                        \* JsonTree
          MaxSymbols, MaxNest, MaxWrites, MaxWritten,
          Lines, Numbers, YamlNull, YamlSpace, Break, MaxLines,             \* YamlTree
          Selectors, Properties, MaxGroup, MaxBlock, MaxRules, MaxChainDepth, \* CssTree
          Chars, Delim, Quote, CsvLine, Blank, MaxChars, Configs,          \* CsvSheets
          XmlMaps, Attributes, Opens, Leaves, MaxXmlParts, MaxXmlDepth, \* XmlMap
          JsonMaps, JsonContainers, Scalars, JsonNull, MaxJsonParts,        \* JsonMap
          MaxJsonDepth,
          StructureFormats, XmlParts, JsonParts, TextElements,          \* StructureTrees
          MaxStructureParts, MaxStructureDepth,
          Tags, DomTexts, DomBlank, Instructions, Edits, Reloads,       \* DomTree
          MaxDomParts, MaxDomDepth, MaxEdits,
          DocumentCalls, MaxCalls, SheetRows, SheetCols, SharedIds,     \* ImportedDocument
          UnsafeNames, Unwritable, BadTexts,
          Kinds, Pieces, MaxPieces, MaxLong, Register, PathDocument,    \* TextConversions
          MarkupKinds, MarkupWords, Fillers, SheetRules, CutRules, Behind, WriterCalls,   \* MarkupText
          MaxWriterCalls,
          Streams, ArchiveSizes, TailPieces, MaxTail, Window, Marker,   \* ZipArchive
          Ends, Entries, MaxEntries, Locals, AskedNames,
          ViewFormats, ViewElements, OptionLeaves, PaneLeaves,          \* SheetViews
          LeafSets, AnyCells, MaxViewSheets, MaxViewParts

VARIABLES builder,   \* what reads the stream
          doc,       \* the document it builds
          cxt,       \* the parser and its handler
          file       \* the stream so far

vars == <<builder, doc, cxt, file>>

Json    == INSTANCE JsonTree
Yaml    == INSTANCE YamlTree WITH Null <- YamlNull, Space <- YamlSpace
Css     == INSTANCE CssTree
Csv     == INSTANCE CsvSheets WITH Line <- CsvLine
XmlMap  == INSTANCE XmlMap WITH Maps <- XmlMaps, MaxParts <- MaxXmlParts, MaxDepth <- MaxXmlDepth
JsonMap == INSTANCE JsonMap WITH Maps <- JsonMaps, Null <- JsonNull, Containers <- JsonContainers,
                                 MaxParts <- MaxJsonParts, MaxDepth <- MaxJsonDepth
Structure == INSTANCE StructureTrees WITH Formats <- StructureFormats, MaxParts <- MaxStructureParts,
                                          MaxDepth <- MaxStructureDepth
Dom     == INSTANCE DomTree WITH Blank <- DomBlank, MaxParts <- MaxDomParts, MaxDepth <- MaxDomDepth

Document == INSTANCE ImportedDocument WITH NumRows <- SheetRows, NumCols <- SheetCols,
                                           FillMissing <- TRUE, CallSets <- DocumentCalls
Conversions == INSTANCE TextConversions WITH Block <- Register
Markup == INSTANCE MarkupText WITH Markup <- MarkupKinds, Words <- MarkupWords, Rules <- SheetRules,
                                   Calls <- WriterCalls
Archive == INSTANCE ZipArchive
Views   == INSTANCE SheetViews

Init == \/ builder = "json" /\ Json!Init
        \/ builder = "yaml" /\ Yaml!Init
        \/ builder = "css" /\ Css!Init
        \/ builder = "csv" /\ Csv!Init
        \/ builder = "xml-map" /\ XmlMap!Init
        \/ builder = "json-map" /\ JsonMap!Init
        \/ builder = "structure" /\ Structure!Init
        \/ builder = "dom" /\ Dom!Init
        \/ builder = "document" /\ Document!Init
        \/ builder = "text" /\ Conversions!Init
        \/ builder = "markup" /\ Markup!Init
        \/ builder = "archive" /\ Archive!Init
        \/ builder = "views" /\ Views!Init

Next == /\ \/ builder = "json" /\ Json!Next
           \/ builder = "yaml" /\ Yaml!Next
           \/ builder = "css" /\ Css!Next
           \/ builder = "csv" /\ Csv!Next
           \/ builder = "xml-map" /\ XmlMap!Next
           \/ builder = "json-map" /\ JsonMap!Next
           \/ builder = "structure" /\ Structure!Next
           \/ builder = "dom" /\ Dom!Next
           \/ builder = "document" /\ Document!Next
           \/ builder = "text" /\ Conversions!Next
           \/ builder = "markup" /\ Markup!Next
           \/ builder = "archive" /\ Archive!Next
           \/ builder = "views" /\ Views!Next
        /\ UNCHANGED builder

Spec == Init /\ [][Next]_vars
-----------------------------------------------------------------------------
(* What was read, written out again and read once more is the same: the    *)
(* text of a JSON tree, also as YAML and XML, the values of a YAML tree,   *)
(* also as JSON, the cells of a CSV file, the nodes and names of a DOM,    *)
(* the lines of a sheet's debug state; and an XML file keeps all but its   *)
(* linked cells when it is written back.                                   *)
(* So is each text the parsers convert: a string, a number, a date; and a  *)
(* style sheet or an XML document that is written is told again, or told   *)
(* as far as it goes when it was cut.  Where a style sheet is read beyond  *)
(* the cut is named by CutSheetIsRead.                                     *)
TreesAreReadAgain ==
    /\ builder = "json" => Json!JsonTextIsKept /\ Json!JsonDumpsAreReadAgain
    /\ builder = "yaml" => Yaml!YamlTreeIsReadAgain /\ Yaml!YamlTreeIsReadAsJson
    /\ builder = "csv" => Csv!CsvIsReadAgain
    /\ builder = "xml-map" => XmlMap!XmlIsWrittenBack
    /\ builder = "dom" => Dom!DomIsReadAgain /\ Dom!DomIsOfItsFile
    /\ builder = "document" => Document!DebugStateIsReadAgain
    /\ builder = "text" => Conversions!TextsAreRead
    /\ builder = "markup" => Markup!MarkupIsReadAgain


(* The records of a file are the rows of a range, one each and in order,   *)
(* with the values of the records around them; a linked cell has the last  *)
(* value of its path; the rows of a CSV file fill one sheet after another. *)
(* The cells of a document are shown alike by all dumps, and its formulas  *)
(* have results.                                                           *)
RecordsAreRows ==
    /\ builder = "csv" => Csv!CsvRowsAreDealtOut
    /\ builder = "xml-map" => XmlMap!XmlRecordsAreRows /\ XmlMap!XmlCellsAreTheLast
    /\ builder = "json-map" => JsonMap!JsonRecordsAreRows /\ JsonMap!JsonCellsAreTheLast
    /\ builder = "document" => Document!CellsAreShownAlike /\ Document!FormulasHaveResults

(* The structure of a file is what it has: what repeats below one parent,  *)
(* attributes and contents, positions of values; each path that repeats is *)
(* in one range, and the map that is made of the ranges is one the map     *)
(* trees take, unless a JSON array has a value without a position left.    *)
AcceptedXml == FoldLeft(XmlMap!Call, XmlMap!EmptyTree, Structure!Detected).error = ""
AcceptedJson == FoldLeft(LAMBDA t, c : IF t.error = "" THEN JsonMap!Call(t, c) ELSE t,
                         JsonMap!EmptyTree, Structure!Detected).error = ""
StructuresAreOwn ==
    builder = "structure" =>
        /\ Structure!StructureIsOwn
        /\ Structure!Ended /\ Structure!ValuesHavePositions =>
                IF cxt.format = "xml" THEN AcceptedXml ELSE AcceptedJson
-----------------------------------------------------------------------------
(* The small instance: short streams for each parser and filter.           *)

(* JSON: references to an object, to an array and outside of the package;  *)
(* initializers that are objects, arrays, or must say which.               *)
MCExternals == [t \in Texts |-> IF t = "a" THEN [type |-> "object", keys |-> <<"a", "b">>]
                                ELSE [type |-> "outside", keys |-> << >>]]
Str(t) == [type |-> "string", text |-> t, items |-> << >>]
True == [type |-> "true", text |-> "-", items |-> << >>]
List(t, i) == [type |-> t, text |-> "-", items |-> i]
Pair(k, v) == List("list", <<Str(k), v>>)
MCInits == {True,
            List("list", <<Pair("a", True), Pair("b", Pair("a", True))>>),
            List("list", <<Pair("a", True), Pair("b", List("array", <<True>>))>>),
            List("list", <<True, Str("b")>>), List("object", << >>),
            List("list", <<Pair("a", True), True>>), List("list", <<Pair("a", True), Pair("a", True)>>)}

(* YAML: dashes, keys and scalars on one line or more, at three indents;   *)
(* texts that are numbers when they are not quoted; the start of a         *)
(* document.                                                               *)
Item(k, t) == [kind |-> k, text |-> t]
Dash == Item("dash", << >>)
Key == Item("key", <<"k">>)
Text == Item("text", <<"a">>)
Number == Item("text", <<"1">>)
Quoted == Item("quoted", <<"1">>)
QuotedKey == Item("quoted key", <<"1">>)
Bar == Item("bar", << >>)
Start == Item("---", << >>)
MCLines == {[indent |-> i, items |-> c] : i \in {0, 2, 4}, c \in {<<Dash, Text>>, <<Key>>, <<Key, Text>>, <<Text>>}}
           \cup {[indent |-> i, items |-> c] : i \in {0, 2},
                c \in {<<Dash>>, <<Dash, Dash, Number>>, <<Dash, Key, Text>>, <<Key, Bar>>, <<QuotedKey, Quoted>>, <<Quoted>>, <<Bar>>}}
           \cup {[indent |-> 0, items |-> <<Start>>], [indent |-> 0, items |-> <<Start, Key, Text>>]}
MCNumbers == {<<"1">>}
MCYamlNull == <<"~">>

(* CSS: two chains, one of them on from the other, and properties twice.   *)
Simple(n, i, c, p) == [name |-> n, id |-> i, classes |-> c, pseudo_classes |-> p]
A == Simple("a", "", {}, {})
AB == Simple("a", "", {"b"}, {"hover"})
I == Simple("", "i", {}, {})
MCSelectors == {[chain |-> <<<<"first", AB>>, <<"direct_child", I>>>>, pseudo |-> {"after"}],
                [chain |-> <<<<"first", AB>>, <<"direct_child", I>>, <<"next_sibling", A>>>>, pseudo |-> {}]}
W(t) == [type |-> "type", v |-> t]
MCProperties == {[name |-> "x", values |-> <<W("u")>>], [name |-> "y", values |-> <<W("u"), [type |-> "url", v |-> "w"]>>],
                 [name |-> "x", values |-> <<[type |-> "rgb", v |-> <<1, 300, 2>>], [type |-> "rgba", v |-> <<1, 300, 2, 3>>]>>]}

(* CSV: one large sheet; sheets that are full after one row or two, with a *)
(* header; one that may not go on in another.                              *)
Config(r, s, h) == [rows |-> r, cols |-> 2, split |-> s, headers |-> h]
MCConfigs == {Config(9, FALSE, 0), Config(1, TRUE, 0), Config(2, TRUE, 1), Config(2, FALSE, 1)}

(* XML: two groups of records, one in the other, with fields of both, and  *)
(* two cells; paths that cannot be linked.                                 *)
Op(o, p, at, l) == [op |-> o, path |-> p, pos |-> at, label |-> l]
XCell(p, at) == Op("cell", p, at, << >>)
Nothing == << >>
MCXmlMaps == {<<XCell(<<"r", "@">>, <<0, 0>>), XCell(<<"r", "c">>, <<0, 1>>), Op("range", << >>, <<2, 1>>, << >>),
                Op("field", <<"r", "l", "g", "@">>, Nothing, << >>), Op("field", <<"r", "l", "g", "i">>, Nothing, <<"I">>),
                Op("row-group", <<"r", "l", "g">>, Nothing, << >>), Op("row-group", <<"r", "l", "g", "i">>, Nothing, << >>),
                Op("commit", << >>, Nothing, << >>)>>,
              <<XCell(<<"r", "c">>, <<0, 1>>), XCell(<<"r", "c">>, <<0, 2>>)>>,
              <<XCell(<<"r", "c">>, <<0, 1>>), XCell(<<"r", "c", "i">>, <<0, 2>>)>>,
              <<XCell(<<"r", "c", "i">>, <<0, 1>>), XCell(<<"g", "i">>, <<0, 2>>)>>,
              <<XCell(<<"r", "l", "g">>, <<0, 1>>), XCell(<<"r", "c", "@">>, <<0, 2>>)>>}
Attr == "@" :> <<"x">>
Element(p, n, a) == [parent |-> p, name |-> n, attrs |-> a]
MCOpens == {Element("", "r", Attr), Element("r", "l", << >>), Element("l", "g", Attr), Element("l", "g", << >>),
            Element("g", "n", << >>)}
Leaf(p, n, t) == [parent |-> p, name |-> n, attrs |-> << >>, texts |-> t]
MCLeaves == {Leaf("r", "c", << <<"u">>, <<"v">> >>), Leaf("g", "i", << <<"u">> >>), Leaf("g", "i", << <<"v">> >>)}

(* JSON maps: the same, by keys and positions, with and without headers.   *)
JOp(o, p, at, l, h) == [op |-> o, path |-> <<<<"root", 0>>>> \o p, pos |-> at, label |-> l, header |-> h]
JCell(p, at) == JOp("cell", p, at, << >>, FALSE)
K(k) == <<"key", k>>
Each == <<"position", -1>>
First == <<"position", 0>>
MCJsonMaps ==
    {<<JCell(<<K("c")>>, <<0, 0>>), JOp("range", << >>, <<2, 1>>, << >>, h),
       JOp("field", <<K("l"), Each, K("a")>>, Nothing, << >>, h), JOp("field", <<K("l"), Each, K("i"), Each>>, Nothing, << >>, h),
       JOp("row-group", <<K("l")>>, Nothing, << >>, h), JOp("row-group", <<K("l"), Each, K("i")>>, Nothing, << >>, h),
       JOp("commit", << >>, Nothing, << >>, h)>> : h \in BOOLEAN}
    \cup {<<JCell(<<K("c")>>, <<0, 0>>), JCell(<<K("c"), First>>, <<0, 0>>)>>,
          <<JCell(<<K("l"), First, K("a")>>, <<0, 0>>), JCell(<<K("l"), Each, K("a")>>, <<0, 1>>)>>,
          <<JCell(<<K("l"), First, K("a")>>, <<0, 0>>), JCell(<<K("l"), Each, K("a")>>, <<0, 1>>), JCell(<<K("l")>>, <<0, 3>>)>>}
C(p, k, t) == [parent |-> p, key |-> k, type |-> t]
MCContainers == {C(<< >>, "", "object"), C(<<"$">>, "l", "array"), C(<<"$", "l">>, "", "object"),
                 C(<<"$", "l", "">>, "i", "array")}
V(p, k, t) == [parent |-> p, key |-> k, value |-> t]
MCJsonNull == <<"null">>
MCScalars == {V(<<"$">>, "c", <<"u">>), V(<<"$", "l">>, "", <<"u">>), V(<<"$", "l", "">>, "a", <<"u">>),
              V(<<"$", "l", "">>, "a", MCJsonNull), V(<<"$", "l", "", "i">>, "", <<"u">>),
              V(<<"$", "l", "", "i">>, "", <<"v">>)}

(* Structures: groups in groups, with attributes here and there; arrays of *)
(* values, arrays and objects.                                             *)
XmlPart(p, n, a) == [parent |-> p, name |-> n, attrs |-> a]
MCXmlParts == {XmlPart(<< >>, "r", << >>), XmlPart(<<"r">>, "g", << >>), XmlPart(<<"r">>, "g", <<"@">>),
               XmlPart(<<"g">>, "i", << >>), XmlPart(<<"g">>, "i", <<"@", "@2">>), XmlPart(<<"r">>, "i", <<"@2">>)}
JsonPart(p, k, t) == [parent |-> p, key |-> k, type |-> t]
MCJsonParts == {JsonPart(<< >>, << >>, "array"), JsonPart(<< >>, << >>, "object")}
               \cup {JsonPart(<<"array">>, << >>, t) : t \in {"value", "array", "object"}}
               \cup {JsonPart(<<"object">>, <<"a">>, "value"), JsonPart(<<"object">>, <<"b">>, "array")}

(* DOM: a default namespace and an alias, attributes with and without;     *)
(* texts with blanks; each call of the handles.                            *)
Tag(n, d, as) == [name |-> n, decls |-> d, attrs |-> as]
MCTags == {Tag(<<"", "a">>, << >>, << >>), Tag(<<"", "a">>, << <<"", "u">> >>, << << <<"", "x">>, "1">> >>),
           Tag(<<"p", "b">>, << >>, << >>),
           Tag(<<"p", "b">>, << <<"p", "v">> >>,
               << << <<"p", "x">>, "1">>, << <<"", "x">>, "2">>, << <<"xml", "x">>, "3">> >>)}
MCDomTexts == {<<"a">>, <<" ">>, <<"b", " ", "a", " ">>}
MCInstructions == {[target |-> "xml", attrs |-> << <<"version", "1">> >>],
                   [target |-> "t", attrs |-> << <<"k", "1">> >>], [target |-> "t", attrs |-> << >>]}
Edit(o, n, v) == [op |-> o, name |-> n, value |-> v]
MCEdits == {Edit("append_element", <<"u", "c">>, << >>), Edit("append_content", <<"", "">>, <<"a">>),
            Edit("append_comment", <<"", "">>, <<"a">>), Edit("set_attribute", <<"", "x">>, "9"),
            Edit("set_attribute", <<"v", "x">>, "9"), Edit("set_name", <<"v", "d">>, << >>),
            Edit("declare_namespace", <<"q", "w">>, << >>), Edit("set_root", <<"", "a">>, << >>),
            Edit("set_declaration", <<"", "version">>, "2"), Edit("add_processing_instruction", <<"t", "k">>, "2"),
            Edit("append_prolog_comment", <<"", "">>, <<"a">>), Edit("append_epilog_comment", <<"", "">>, <<"a">>)}

(* The document: names that are taken, unsafe, or share a file; grammars   *)
(* and bases of named expressions; formulas that share, fail, or have no   *)
(* text; ranges that are merged, one over the other, and formats of cells, *)
(* rows and columns; strings of one segment or more.                       *)
Rect(a, b, c, d) == [first |-> <<a, b>>, last |-> <<c, d>>]
Call(o, i) == [op |-> o, sheet |-> i]
Sheet(n) == [op |-> "append", name |-> <<n, "">>]
SheetCalls == {[op |-> "append", name |-> n] : n \in {<<"a", "">>, <<"a", "1">>, <<"b", "">>, <<"/", "">>}}
              \cup {[op |-> "rename", sheet |-> n[1], name |-> <<n[2], "">>] : n \in {<<1, "b">>, <<2, "a">>}}
              \cup {[op |-> "charset", charset |-> "utf_8"], Call("activate", 2)}
              \cup {[op |-> "select", sheet |-> 1, pane |-> p[1], range |-> Rect(0, 0, p[2], 0)] :
                        p \in {<<"top_left", 0>>, <<"top_left", 1>>, <<"unspecified", 0>>}}
              \cup {[op |-> "pane", sheet |-> 1, pane |-> "top_right", how |-> "frozen", split |-> <<1, 1>>]}
Definition(i, c, n, t) == [op |-> "define", sheet |-> i, context |-> c, name |-> n, text |-> <<t>>]
NameCalls == {Sheet("a"), Sheet("b"), [op |-> "resolver", context |-> "table"]}
             \cup {[op |-> "grammar", grammar |-> "xlsx"]}
             \cup {[op |-> "base", sheet |-> i, base |-> <<2, 1, 1>>] : i \in {0, 2}}
             \cup {Definition(2, "global", "n", t) : t \in 1..2} \cup {Definition(2, "range", "n", 1)}
             \cup {Definition(0, "global", "m", t) : t \in {1, 9}}
             \cup {Call("commit", i) : i \in {0, 2}}
NoText == << >>
Formula(p, t, i, r) == [op |-> "formula", sheet |-> 1, pos |-> p, text |-> t, index |-> i, result |-> r]
DocCell(k, p, v) == [op |-> "cell", sheet |-> 1, kind |-> k, pos |-> p, val |-> v]
FormulaCalls == {Sheet("a"), [op |-> "finalize"], [op |-> "policy", policy |-> "skip"]}
                \cup {[op |-> "recalc", recalc |-> b] : b \in BOOLEAN}
                \cup {Formula(<<0, 0>>, <<1>>, 1, <<7>>), Formula(<<1, 0>>, NoText, 1, NoText), Formula(<<1, 1>>, <<2>>, 1, NoText),
                      Formula(<<1, 1>>, <<9>>, 0, NoText), Formula(<<0, 1>>, NoText, 0, NoText)}
                \cup {[op |-> "array", sheet |-> 1, range |-> Rect(0, 0, 9, 0), text |-> <<3>>, results |-> (<<1, 0>> :> <<8>>)],
                      DocCell("bool", <<0, 0>>, <<1>>)}
Look(w, r, at, span, v) == [op |-> "look", sheet |-> 1, what |-> w, range |-> r, at |-> at, span |-> span, xf |-> v, size |-> v]
NoRange == Rect(0, 0, 0, 0)
GridCalls == {Sheet("a"), DocCell("value", <<2, 3>>, <<1>>), DocCell("value", <<0, 1>>, <<1>>)}
             \cup {Look("merge", r, 0, 0, 0) : r \in {Rect(0, 0, 1, 1), Rect(1, 2, 1, 3), Rect(0, 0, 0, 1), Rect(2, 0, 2, 1), Rect(1, 0, 0, 0)}}
             \cup {Look("cells", Rect(1, 1, 2, 1), 0, 0, 2), Look("row", NoRange, 1, 0, 3), Look("columns", NoRange, 1, 9, 4),
                   Look("width", NoRange, 1, 1, 5), Look("height", NoRange, 2, 1, 6)}
TextCalls == {Sheet("a"), [op |-> "end string"], DocCell("string", <<1, 1>>, 0), DocCell("string", <<1, 1>>, 1)}
             \cup {[op |-> "segment", text |-> t, fmt |-> f] : t \in {<<1, 2>>, NoText}, f \in {{}, {"bold"}}}
MCDocumentCalls == [sheets |-> SheetCalls, names |-> NameCalls, formulas |-> FormulaCalls, grid |-> GridCalls,
                    texts |-> TextCalls]
MCMaxCalls == [c \in DOMAIN MCDocumentCalls |-> IF c \in {"sheets", "grid"} THEN 4 ELSE 5]
MCUnsafe == {<<"/", "">>}
MCUnwritable == {<<"b", "">>}
MCBadTexts == {<<9>>}

\* The texts of each conversion: the least that has every turn of it.
Single(set) == {<<c>> : c \in set}
MCEdges == {127, 191, 214, 246, 767, 880, 893, 895, 2047, 8191, 8204, 8205, 8255, 8256, 8304, 8591, 11264, 12271,
            12289, 55295, 63744, 64975, 65008, 65533, 65535, 983039, 1114110}
MCPoints == {45, 46, 48, 57, 58, 64, 65, 90, 91, 95, 97, 122, 183, 768, 879, 4096, 65536, 262144}
            \cup UNION {{e - 1, e, e + 1} : e \in MCEdges}
MCEnumerations == {"border_style", "fill_pattern", "strikethrough_style", "strikethrough_type", "strikethrough_width",
    "strikethrough_text", "formula_grammar", "underline_style", "underline_thickness",
    "underline_spacing", "underline_count", "hor_alignment", "ver_alignment", "auto_filter_node_op",
    "auto_filter_op", "pivot_cache_group_by", "pivot_field_item", "pivot_data_subtotal",
    "pivot_data_show_data_as", "pivot_axis", "error_value"}
MCStart(ns, name, attrs) == [ns |-> ns, name |-> name, attrs |-> attrs]
MCEndOf == MCStart("", "/", <<>>)
MCAttr(name, value) == [name |-> name, value |-> value]
MCPieces ==
    "double-quoted" :> Single({"a", "\"", "\\", "n", "u", "^"}) \cup {<<"u", "0", "0", "4", "1">>} @@
    "single-quoted" :> Single({"a", "'"}) @@
    "number" :> Single({"0", "1", ".", "e", "-", "+"}) @@
    "length" :> Single({"0", "1", "2", "cm", "in", "mm", "pt", "px", "twip"}) @@
    "date" :> Single({"1", "-", "T", ":"}) \cup {<<"-", "1", "2", "-">>, <<"T", "1", ":", "2", ":">>} @@
    "dates" :> {<<[year |-> y, month |-> m, day |-> d, hour |-> h, minute |-> 5, second |-> s]>> :
                y \in {1, 2024}, m \in {2, 11}, d \in {1, 31}, h \in {0, 23}, s \in {9, 10}} @@
    "color" :> {<<"#">>, <<"0", "F">>, <<"a", "9">>, <<"1">>, <<"g">>} @@
    "encoded" :> Single({"a", "&", "<", "\"", "'", "\\", "^", "^n"}) @@
    "bytes" :> Single({0, 1, 64, 200, 255}) @@
    "code-points" :> Single(MCPoints) @@
    "blanks" :> Single({"a", " "}) @@
    "lines" :> Single({"a", " ", "nl", "#", "'", "\""}) @@
    "path" :> {<<"$">>, <<".", "a">>, <<"[", "0", "]">>, <<"[", "1", "]">>, <<"[", "*", "]">>,
               <<"[", "'", "a", "'", "]">>, <<"b">>, <<"[">>, <<"'">>, <<"]">>, <<"+">>} @@
    "content types" :> {<<MCStart("ct", "Types", <<>>)>>, <<MCStart("x", "Types", <<>>)>>, <<MCStart("ct", "other", <<>>)>>, <<MCEndOf>>}
                       \cup {<<MCStart(ns, n, q)>> \o e : ns \in {"ct"}, n \in {"Override", "Default"}, e \in {<<>>, <<MCEndOf>>},
                                q \in {<<>>, <<MCAttr("PartName", <<1>>), MCAttr("ContentType", "sheet"), MCAttr("PartName", <<2>>)>>,
                                       <<MCAttr("ContentType", "sheet"), MCAttr("Extension", <<3>>), MCAttr("ContentType", "other")>>}} @@
    "relations" :> {<<MCStart("rel", "Relationships", <<>>)>>, <<MCStart("ct", "Relationships", <<>>)>>, <<MCStart("rel", "other", <<>>)>>, <<MCEndOf>>,
                    <<MCStart("rel", "Relationship", <<MCAttr("Id", <<2>>), MCAttr("Type", "sheet"), MCAttr("Type", "other")>>), MCEndOf>>}
                   \cup {<<MCStart("rel", "Relationship", <<MCAttr("Id", id), MCAttr("Type", "sheet"), MCAttr("Target", "a")>>), MCEndOf>> :
                            id \in {<<>>, <<1>>, <<1, 2>>, <<1, 1>>, <<2>>}} @@
    "enumerator" :> {<<e, i>> : e \in MCEnumerations, i \in 1..22} @@
    "range" :> {<<<<a, b, c, d>>>> : a \in {-1, 0, 1}, b \in {0, 2, 3}, c \in {-1, 0, 5}, d \in {1, 2, 3}} @@
    "error" :> {<<"a">>, <<"nl">>, [i \in 1..25 |-> "b"], [i \in 1..9 |-> "c"]}
MCKinds == DOMAIN MCPieces
MCMaxPieces == [k \in MCKinds |->
    CASE k = "enumerator" -> 1
      [] k \in {"dates", "range", "code-points"} -> 2
      [] k \in {"length", "content types"} -> 3
      [] k \in {"double-quoted", "number", "date", "color", "bytes", "lines"} -> 5
      [] k \in {"single-quoted", "blanks"} -> 8
      [] OTHER -> 4]
MCArray(s) == [type |-> "array", items |-> s]
MCValue(v) == [type |-> "value", value |-> v]
MCPathDocument == [type |-> "object", keys |-> <<<<"a">>, <<"b">>>>, items |-> <<
    MCArray(<<[type |-> "object", keys |-> <<<<"a">>>>, items |-> <<MCValue("1")>>],
              [type |-> "object", keys |-> <<<<"b">>, <<"a">>>>,
               items |-> <<MCValue("2"), MCArray(<<MCValue("3"), MCArray(<<>>)>>)>>]>>),
    MCValue("4")>>]

\* Markup: the selectors, values and functions of a style sheet, with each
\* filler; the calls of the writer, and what other writers put between.
MNode(type, ns, name, text, attrs) == [type |-> type, ns |-> ns, name |-> name, text |-> text, attrs |-> attrs]
MFl(f, o, c) == [fill |-> f, open |-> o, close |-> c]
MComment == <<"/", "*", "x", "*", "*", "/">>
MCFillers == {MFl(<<>>, <<>>, <<>>), MFl(<<" ">>, <<"nl">>, <<>>), MFl(<<" ">> \o MComment \o <<"nl">> \o MComment, <<>>, <<" ">>),
              MFl(<<" ">>, <<"<", "!", "-", "-", " ">>, <<" ", "-", "-", ">", "nl">>)}
MSmp(c, t, ps) == [comb |-> c, type |-> t, parts |-> ps]
MPrt(k, n) == [kind |-> k, name |-> n]
MVal(t, x) == [type |-> t, text |-> x, nums |-> <<>>]
MFun(t, n) == [type |-> t, text |-> <<>>, nums |-> n]
MPrp(n, v, c) == [name |-> n, values |-> v, comma |-> c]
MCMarkupGroups == {<< <<MSmp("descendant", <<"a">>, <<>>), MSmp(">", <<"b">>, <<MPrt("class", "c"), MPrt("id", "d"), MPrt("pseudo class", "hover")>>)>> >>,
             << <<MSmp("descendant", <<>>, <<MPrt("class", "c")>>), MSmp("descendant", <<>>, <<MPrt("id", "d")>>)>>,
                <<MSmp("descendant", <<"a", "-", "1">>, <<MPrt("pseudo element", "before")>>)>> >>,
             << <<MSmp("descendant", <<"a">>, <<>>), MSmp("+", <<>>, <<MPrt("class", "c"), MPrt("class", "b")>>)>> >>}
MCMarkupValues == {MVal("value", <<"a">>), MVal("quoted", <<"a", " ", ";">>), MVal("value", <<"#", "1", "a">>), MVal("url", <<"a", ".", "b">>),
             MVal("url", <<"\"", "a", " ", ")", "\"">>), MFun("rgb", <<0, 255, 300>>), MFun("rgba", <<1, 22, 3, 2>>),
             MFun("hsl", <<-5, 50, 200>>), MFun("hsla", <<400, 0, 100, 1>>), MVal("value", <<"-", "1", ".", "5", "%">>)}
MCMarkupBlocks == {<<MPrp(<<"a">>, <<v>>, FALSE), MPrp(<<".", "b">>, <<w, v>>, c)>> : v \in {MVal("value", <<"a">>), MVal("quoted", <<"a", ";">>)}, w \in MCMarkupValues, c \in BOOLEAN}
MCFirstRules == {[at |-> a, group |-> g, block |-> b, last |-> l] : a \in {<<>>}, g \in MCMarkupGroups, b \in MCMarkupBlocks, l \in BOOLEAN}
           \cup {[at |-> <<"a">>, group |-> << <<MSmp("descendant", <<"b">>, <<>>)>> >>, block |-> <<MPrp(<<"a">>, <<MVal("value", <<"a">>)>>, FALSE)>>, last |-> FALSE]}
MCSecondRules == {[at |-> <<>>, group |-> g, block |-> <<MPrp(<<"a">>, <<MVal("value", <<"a">>)>>, FALSE)>>, last |-> FALSE] : g \in MCMarkupGroups}
MCSheetRules == <<MCFirstRules, MCSecondRules>>
MCCutValues(group) == IF Len(group) = 1 THEN {MVal("value", <<"a">>)}
                      ELSE {MVal("url", <<"\"", "a", " ", ")", "\"">>), MFun("rgba", <<1, 22, 3, 2>>), MFun("hsla", <<400, 0, 100, 1>>)}
MCCutRules == {x \in MCFirstRules : x.at # <<>> \/
                 LET property == Last(x.block) IN
                 x.last /\ ~property.comma /\ Last(property.values).type = "quoted" /\ Head(property.values) \in MCCutValues(x.group)}
MCBehind == {"", ":", ",", ";", "}", "(", ")", "\"", "a"}
MOp(o, ns, n, t) == [op |-> o, ns |-> ns, name |-> n, text |-> t, alias |-> <<>>]
MNsp(a, u) == [op |-> "namespace", alias |-> a, ns |-> u]
MRaw(ch, nodes, w) == [op |-> "raw", chars |-> ch, nodes |-> nodes, where |-> w]
MCWriterCalls == {MNsp(<<>>, "u"), MNsp(<<"p">>, "v"),
            MOp("attribute", "", <<"x">>, <<"a", "\"", "&">>), MOp("attribute", "v", <<"y">>, <<"<", "'">>),
            MOp("push", "", <<"a">>, <<>>), MOp("push", "u", <<"a">>, <<>>), MOp("push", "v", <<"b", "-", "1">>, <<>>),
            [op |-> "pop"], [op |-> "content", text |-> <<"a", ">", "&">>], [op |-> "content", text |-> <<>>],
            MRaw(<<"<", "!", "-", "-", "a", "-", " ", "-", "-", ">">>, <<MNode("comment", "", <<>>, <<"a", "-", " ">>, <<>>)>>, {"header", "body", "trailer"}),
            MRaw(<<"<", "!", "[", "CDATA", "[", "]", "&", "]", "]", "]", ">">>, <<MNode("text", "", <<>>, <<"]", "&", "]">>, <<>>)>>, {"body"}),
            MRaw(<<"<", "?", "b", " ", "a", "=", "'", "\"", "&", "#65", ";", "'", " ", "?", ">">>,
                <<MNode("instruction", "", <<"b">>, <<>>, <<[ns |-> "", name |-> <<"a">>, text |-> <<"\"", "A">>]>>)>>, {"header", "body"}),
            MRaw(<<"<", "!", "DOCTYPE", " ", "a", " ", "PUBLIC", " ", "\"", "a", "\"", " ", "\"", "b", "\"", ">">>,
                <<MNode("doctype", "", <<"a">>, <<"a", "b">>, <<>>)>>, {"header"})}
MCMarkupWords == {"a", "b", "c", "d", "f", "x", "y", "p", "hover", "before", "rgb", "rgba", "hsl", "hsla", "url", "xml", "xmlns", "version", "A"}
\* Archives: ends of streams that repeat parts of the signature; end records
\* and entries that are good, or bad in one way.
MCTailPieces == {<<80, 75, 5, 6>>, <<80, 75>>, <<5, 6>>, <<6>>, [i \in 1..18 |-> 0]}
MCEnd(d, p, s, t) == [disk |-> d, pos |-> p, size |-> s, total |-> t]
MCEnds == {MCEnd(0, 100, 120, 2), MCEnd(0, 100, 0, 1), MCEnd(0, 100, 120, 3), MCEnd(0, 300, 90, 2), MCEnd(1, 100, 120, 2), MCEnd(0, 100, 301, 2),
           MCEnd(0, 9999, 1, 1), MCEnd(0, 401, 0, 1), MCEnd(0, 399, 1, 1)}
MCEntry(n, m, c, u, o) == [name |-> n, method |-> m, compressed |-> c, uncompressed |-> u, offset |-> o,
                           skipped |-> 1, encrypted |-> FALSE, disk |-> 0]
MCGood == MCEntry(<<"a">>, "stored", 4, 4, 0)
MCEntries == {MCGood, MCEntry(<<"a">>, "deflated", 4, 9, 40), MCEntry(<<"b", "/", ".", "a">>, "deflated", 3, 9, 40),
              MCEntry(<<"b">>, "stored", 9, 9, 390), MCEntry(<<"c">>, "stored", 400, 400, 0), MCEntry(<<"c">>, "deflated", 1, 1025, 0),
              MCEntry(<<"d">>, "other", 0, 0, 350), MCEntry(<<"e">>, "stored", 0, 0, 368), MCEntry(<< >>, "stored", 4, 4, 80),
              MCEntry(<<"e">>, "stored", 9, 9999, 0), MCEntry(<<"e">>, "stored", 401, 1, 0), MCEntry(<<"e">>, "stored", 9, 9, 400),
              [MCGood EXCEPT !.encrypted = TRUE], [MCGood EXCEPT !.disk = 1], [MCGood EXCEPT !.skipped = 270]}
             \cup {[MCGood EXCEPT !.name = n] : n \in {<<"b", "/", ".", ".", "/", ".", ".">>, <<".", ".", "/", "b">>, <<"b", "/", ".", ".", "b">>,
                                                       <<"/", "b">>, <<"b", "\\">>, <<"b", "NUL">>}}
MCLocal(n, e, i, o) == [name |-> n, extra |-> e, deflated |-> i, inflated |-> o]
MCLocals == (0 :> MCLocal(<<"a">>, 2, 0, 0)) @@ (40 :> MCLocal(<<"a", "a">>, 0, 4, 9)) @@ (80 :> MCLocal(<< >>, 3, 0, 0))
            @@ (390 :> MCLocal(<< >>, 0, 0, 0)) @@ (350 :> MCLocal(<<"b", "/", ".", ".", "/", ".", ".">>, 0, 0, 0)) @@ (368 :> MCLocal(<<"e">>, 9, 0, 0))
MCAskedNames == {<<"a">>, <<"b">>, <<"c">>, <<"d">>, <<"e">>, << >>, <<"z">>}

\* Views: panes with and without names, places and numbers.
MCRange == [first |-> <<1, 2>>, last |-> <<3, 4>>]
MCViewPane(p, s, c) == [name |-> "pane", pane |-> p, state |-> s, x |-> 1, y |-> 2, cell |-> c]
MCViewElements == {[name |-> "sheetView", selected |-> b] : b \in BOOLEAN}
    \cup {[name |-> "selection", pane |-> p, range |-> r] : p \in {"", "bottomLeft"}, r \in {MCRange, [MCRange EXCEPT !.last = <<5, 5>>]}}
    \cup {MCViewPane("topRight", "split", <<1, 1>>), MCViewPane("", "frozen", <<2, 1>>), MCViewPane("topRight", "", << >>),
          MCViewPane("topRight", "frozenSplit", <<1, 1>>)}
MCLeaf(n, t) == [name |-> n, text |-> t]
MCOptionLeaves == {MCLeaf("FreezePanes", -1), MCLeaf("FrozenNoSplit", -1), MCLeaf("Selected", -1), MCLeaf("ActivePane", 1),
                   MCLeaf("SplitVertical", 3), MCLeaf("SplitVertical", -1), MCLeaf("LeftColumnRightPane", 2),
                   MCLeaf("SplitHorizontal", 4), MCLeaf("TopRowBottomPane", 5)}
MCPaneLeaves == {MCLeaf("Number", 3), MCLeaf("Number", 2), MCLeaf("Number", -1), MCLeaf("ActiveCol", 7), MCLeaf("ActiveRow", 6),
                 [name |-> "RangeSelection", text |-> 0, range |-> MCRange]}
MCAnyCells == {<<0, 0>>, <<-9, 9>>}
MCLeafSets == {{MCLeaf("Number", 3), MCLeaf("Number", -1), MCLeaf("ActiveCol", 7),
                [name |-> "RangeSelection", text |-> 0, range |-> MCRange]},
               {MCLeaf("Number", 2), MCLeaf("ActiveRow", 6), MCLeaf("Selected", -1)},
               {MCLeaf("FreezePanes", -1), MCLeaf("FrozenNoSplit", -1), MCLeaf("SplitVertical", 3), MCLeaf("SplitVertical", -1),
                MCLeaf("LeftColumnRightPane", 2)},
               {MCLeaf("SplitHorizontal", 4), MCLeaf("TopRowBottomPane", 5), MCLeaf("ActivePane", 1)}}
MCMaxViewParts == "xlsx" :> 3 @@ "xls-xml" :> 6
=============================================================================
